------------------------- MODULE OrchestratorProofs -------------------------
(***************************************************************************)
(* The safety of the orchestrator for every number of instances, restarts, *)
(* failed requests and lost registrations.                                 *)
(***************************************************************************)
EXTENDS Orchestrator, FiniteSetTheorems, TLAPS

(* Whatever still goes on for an instance, its record is there.             *)
Busy(i) ==
  \/ i \in live \cup exiting \cup calling
  \/ spawning[i] # "no"
  \/ \E c \in Cleaner : cleaning[i][c] # NotCleaning
  \/ \E r \in Renewer : renewing[i][r] # NoRecord
Known == \A i \in Id : Busy(i) => i <= spawned /\ record[i] # NoRecord

(* The type invariant, in parts.                                            *)
Recs == Record \cup {NoRecord}
Files == {record, file, recovered} \subseteq [Id -> Recs]
Groups ==
  /\ live \subseteq 1..spawned /\ exiting \subseteq 1..spawned
  /\ calling \subseteq 1..spawned /\ beating \subseteq 1..spawned
  /\ posted \subseteq 1..spawned /\ leaked \subseteq 1..spawned
  /\ crossed \subseteq 1..spawned
Tables ==
  /\ resources \in [Id -> [rpc : BOOLEAN, pi : BOOLEAN, bound : BOOLEAN]]
  /\ process \in [Id -> {"none", "running", "exited"}]
  /\ spawning \in [Id -> {"no", "state", "rejected", "register"}]
  /\ cleaning \in [Id -> [Cleaner -> [at : At, rpc : BOOLEAN]]]
  /\ renewing \in [Id -> [Renewer -> Recs]]
Host ==
  /\ host \in {"off", "recovering", "up", "shutting", "stuck"}
  /\ lives \in 0..MaxLives /\ troubles \in 0..MaxTroubles /\ spawned \in 0..MaxInstances
  /\ toRenew \in Seq(Id) /\ toStop \in Seq(Id)
LiveOK == \A i \in live : record[i] # NoRecord /\ (resources[i].bound => resources[i].rpc)
Typed == Files /\ Groups /\ Tables /\ Host /\ LiveOK

(* Where the child of an instance is.                                       *)
Held(i) ==
  /\ process[i] = "running" /\ i \notin leaked =>
       \/ i \in live /\ resources[i].rpc /\ resources[i].bound
       \/ \E c \in Cleaner : cleaning[i][c].rpc
  /\ spawning[i] # "no" => cleaning[i]["spawn"] = NotCleaning
  /\ \A c \in Cleaner :
       /\ cleaning[i][c] # NotCleaning => ~resources[i].bound
       /\ cleaning[i][c].at = "disposed" => process[i] = "exited"
  /\ i \in exiting => process[i] = "exited"
  /\ cleaning[i]["shutdown"] # NotCleaning => host \in {"shutting", "stuck"}

(* What is said of an instance that nobody registers while it ends.         *)
Quiet(rec) == rec # NoRecord => rec.status \notin {"online", "starting"}
Serving == host \in {"up", "shutting", "stuck"}
Said(i) ==
  i \in (1..spawned) \ crossed =>
    /\ i \notin live \/ Ending(i) =>
         /\ spawning[i] \notin {"state", "register"}
         /\ i \notin posted \cup beating
         /\ \A r \in Renewer : renewing[i][r] = NoRecord
         /\ Quiet(record[i]) /\ (Serving => Quiet(file[i]))
    /\ i \in beating => resources[i].pi
    /\ spawning[i] = "state" => resources[i].rpc
    /\ Serving /\ i \in live => file[i] # NoRecord

(* Where nothing is live, and what will be written when recovery is over.   *)
Starting ==
  /\ host = "off" => live = {}
  /\ host = "recovering" => live \subseteq crossed /\ \A i \in Id : Quiet(recovered[i])

Inv == Typed /\ Known /\ Starting /\ \A i \in Id : Held(i) /\ Said(i)

(* What a step leaves alone of an instance.                                 *)
Same(j) ==
  /\ (j \in live') <=> (j \in live)
  /\ (j \in exiting') <=> (j \in exiting)
  /\ (j \in calling') <=> (j \in calling)
  /\ (j \in beating') <=> (j \in beating)
  /\ (j \in posted') <=> (j \in posted)
  /\ (j \in leaked') <=> (j \in leaked)
  /\ (j \in crossed') <=> (j \in crossed)
  /\ record'[j] = record[j] /\ file'[j] = file[j] /\ resources'[j] = resources[j]
  /\ process'[j] = process[j] /\ spawning'[j] = spawning[j]
  /\ cleaning'[j] = cleaning[j] /\ renewing'[j] = renewing[j]

(* The orchestrator goes on, or its shutdown gets stuck.                    *)
HostStays ==
  /\ host # "off" /\ host' # "off"
  /\ host' = host \/ (host \in {"shutting", "stuck"} /\ host' = "stuck")
  /\ recovered' = recovered /\ spawned' = spawned

----------------------------------------------------------------------------
(* What may be taken one by one from the type invariant *)

(* Which instances there may be.                                           *)
LEMMA Ids ==
  ASSUME Typed
  PROVE  /\ MaxInstances \in Nat /\ MaxLives \in Nat /\ MaxTroubles \in Nat
         /\ spawned \in Nat /\ 1..spawned \subseteq Id
         /\ \A n \in Id : n \in 1..spawned <=> n <= spawned
BY BoundAssumption DEF Typed, Host, Id

(* The same, read from the parts.                                           *)
LEMMA Types ==
  ASSUME Typed
  PROVE  /\ record \in [Id -> Recs] /\ file \in [Id -> Recs] /\ recovered \in [Id -> Recs]
         /\ resources \in [Id -> [rpc : BOOLEAN, pi : BOOLEAN, bound : BOOLEAN]]
         /\ process \in [Id -> {"none", "running", "exited"}]
         /\ spawning \in [Id -> {"no", "state", "rejected", "register"}]
         /\ cleaning \in [Id -> [Cleaner -> [at : At, rpc : BOOLEAN]]]
         /\ renewing \in [Id -> [Renewer -> Recs]]
BY DEF Typed, Files, Tables

----------------------------------------------------------------------------
(* What a step at one instance has to show *)

(* An instance that a step leaves alone stays as the invariant says.       *)
LEMMA SameKeeps ==
  ASSUME Inv, NEW j \in Id, Same(j),
         Serving' => Serving, host \in {"shutting", "stuck"} => host' \in {"shutting", "stuck"},
         j <= spawned => j <= spawned',
         j \in 1..spawned' => j \in 1..spawned
  PROVE  Held(j)' /\ Said(j)' /\ (Busy(j)' => j <= spawned' /\ record'[j] # NoRecord)
<1>1. Held(j) /\ Said(j)
  BY DEF Inv
<1>2. Held(j)'
  BY <1>1 DEF Held, Same
<1>3. Said(j)'
  <2>1. Ending(j)' => Ending(j)
    BY DEF Ending, Same
  <2> QED
    BY <1>1, <2>1 DEF Said, Same, Quiet
<1>4. Busy(j)' => j <= spawned' /\ record'[j] # NoRecord
  <2>1. Busy(j)' => Busy(j)
    BY DEF Busy, Same
  <2> QED
    BY <2>1 DEF Inv, Known, Same
<1> QED
  BY <1>2, <1>3, <1>4

(* A step that changes nothing of any instance.                             *)
LEMMA AllSame ==
  ASSUME Inv, Typed', Starting', \A j \in Id : Same(j), spawned' = spawned,
         Serving' => Serving, host \in {"shutting", "stuck"} => host' \in {"shutting", "stuck"}
  PROVE  Inv'
<1>1. ASSUME NEW j \in Id
      PROVE  Held(j)' /\ Said(j)' /\ (Busy(j)' => j <= spawned' /\ record'[j] # NoRecord)
  BY SameKeeps
<1> QED
  BY <1>1 DEF Inv, Known

(* A step of the orchestrator at one instance keeps the invariant if it    *)
(* does so there.                                                          *)
LEMMA Assemble ==
  ASSUME Inv, Typed', NEW i \in Id, HostStays,
         \A j \in Id \ {i} : Same(j),
         live' \subseteq live, crossed \subseteq crossed',
         Busy(i)' => i <= spawned /\ record'[i] # NoRecord,
         Held(i)', Said(i)'
  PROVE  Inv'
<1>1. ASSUME NEW j \in Id
      PROVE  Held(j)' /\ Said(j)' /\ (Busy(j)' => j <= spawned' /\ record'[j] # NoRecord)
  <2>1. Serving' => Serving
    BY DEF Serving, HostStays
  <2>2. host \in {"shutting", "stuck"} => host' \in {"shutting", "stuck"}
    BY DEF HostStays
  <2> QED
    BY <2>1, <2>2, SameKeeps DEF HostStays
<1>2. Known'
  BY <1>1 DEF Known
<1>3. Starting'
  BY DEF Starting, HostStays, Inv, Quiet
<1> QED
  BY <1>1, <1>2, <1>3 DEF Inv

----------------------------------------------------------------------------
(* Steps that end nothing *)

(* The record of an instance that has been registered.                      *)
LEMMA Online ==
  /\ [status |-> "online", pi |-> TRUE] \in Recs
  /\ [status |-> "online", pi |-> TRUE] # NoRecord
<1>1. [status |-> "online", pi |-> TRUE] \in Record
  BY DEF Record, Status
<1> QED
  BY <1>1, RecordAssumption DEF Recs

(* A record is put into memory and into the file.                           *)
LEMMA Puts ==
  ASSUME Typed, NEW i \in Id, NEW rec \in Recs, Put(i, rec)
  PROVE  /\ record' \in [Id -> Recs] /\ file' \in [Id -> Recs]
         /\ record'[i] = rec /\ file'[i] = rec
         /\ \A j \in Id \ {i} : record'[j] = record[j] /\ file'[j] = file[j]
BY Types DEF Put

(* A client calls.                                                          *)
LEMMA CallKeeps ==
  ASSUME Inv, NEW i \in Id, Call(i)
  PROVE  Inv'
<1>1. Typed /\ Held(i) /\ Said(i) /\ (Busy(i) => i <= spawned /\ record[i] # NoRecord)
  BY DEF Inv, Known
<1>2. HostStays /\ live' \subseteq live /\ crossed \subseteq crossed'
  BY DEF HostStays, Call, radius, history, bounds, Running, Alive, Trouble, Costs
<1>3. \A j \in Id \ {i} : Same(j)
  BY <1>1, Types DEF Same, Call, radius, history, bounds
<1>4. Busy(i)' => i <= spawned /\ record'[i] # NoRecord
  BY <1>1, Types DEF Busy, Inv, Typed, LiveOK, Call, radius, history, bounds
<1>5. Typed'
  <2>1. Files'
    BY <1>1, Types DEF Typed, Files, Call, radius, history, bounds
  <2>2. Groups'
    BY <1>1, Types, Ids DEF Typed, Groups, Busy, Call, radius, history, bounds
  <2>3. Tables'
    BY <1>1, Types DEF Typed, Tables, Call, radius, history, bounds
  <2>4. Host'
    BY <1>1, Types, Ids DEF Typed, Host, Call, radius, history, bounds, Trouble, Costs
  <2>5. LiveOK'
    BY <1>1, Types, RecordAssumption DEF Typed, LiveOK, Groups, Recs, Call, radius, history, bounds
  <2> QED
    BY <2>1, <2>2, <2>3, <2>4, <2>5 DEF Typed
<1>6. Held(i)'
  BY <1>1, Types DEF Held, Call, radius, history, bounds
<1>7. Said(i)'
  BY <1>1, Types DEF Said, Ending, Quiet, Serving, Call, radius, history, bounds
<1> QED
  BY <1>2, <1>3, <1>4, <1>5, <1>6, <1>7, Assemble

(* Its answer puts the record as it is.                                     *)
LEMMA CallAnsweredKeeps ==
  ASSUME Inv, NEW i \in Id, CallAnswered(i)
  PROVE  Inv'
<1>1. Typed /\ Held(i) /\ Said(i) /\ (Busy(i) => i <= spawned /\ record[i] # NoRecord)
  BY DEF Inv, Known
<1>2. HostStays /\ live' \subseteq live /\ crossed \subseteq crossed'
  BY DEF HostStays, CallAnswered, radius, history, bounds, Put, Running, Alive, Trouble, Costs
<1>3. \A j \in Id \ {i} : Same(j)
  BY <1>1, Types DEF Same, CallAnswered, radius, history, bounds, Put
<1>4. Busy(i)' => i <= spawned /\ record'[i] # NoRecord
  BY <1>1, Types DEF Busy, CallAnswered, radius, history, bounds, Put
<1>5. Typed'
  <2>1. Files'
    BY <1>1, Types DEF Typed, Files, CallAnswered, radius, history, bounds, Put
  <2>2. Groups'
    BY <1>1, Types, Ids DEF Typed, Groups, Busy, CallAnswered, radius, history, bounds, Put
  <2>3. Tables'
    BY <1>1, Types DEF Typed, Tables, CallAnswered, radius, history, bounds, Put
  <2>4. Host'
    BY <1>1, Types, Ids DEF Typed, Host, CallAnswered, radius, history, bounds, Put, Trouble, Costs
  <2>5. LiveOK'
    BY <1>1, Types, RecordAssumption DEF Typed, LiveOK, Groups, Recs, CallAnswered, radius, history, bounds, Put
  <2> QED
    BY <2>1, <2>2, <2>3, <2>4, <2>5 DEF Typed
<1>6. Held(i)'
  BY <1>1, Types DEF Held, CallAnswered, radius, history, bounds, Put
<1>7. Said(i)'
  <2>1. /\ record'[i] = record[i] /\ file'[i] = record[i] /\ i <= spawned /\ record[i] # NoRecord
        /\ UNCHANGED <<host, spawned, live, resources, spawning, cleaning, exiting, beating, posted, renewing, crossed>>
    BY <1>1, Types DEF CallAnswered, Put, radius, history, bounds, Busy
  <2> QED
    BY <1>1, <2>1 DEF Said, Ending, Quiet, Serving
<1> QED
  BY <1>2, <1>3, <1>4, <1>5, <1>6, <1>7, Assemble

(* The child has told its state.                                            *)
LEMMA GotStateKeeps ==
  ASSUME Inv, NEW i \in Id, GotState(i)
  PROVE  Inv'
<1>1. Typed /\ Held(i) /\ Said(i) /\ (Busy(i) => i <= spawned /\ record[i] # NoRecord)
  BY DEF Inv, Known
<1>2. HostStays /\ live' \subseteq live /\ crossed \subseteq crossed'
  BY DEF HostStays, GotState, radius, history, bounds, Put, Running, Alive, Trouble, Costs
<1>3. \A j \in Id \ {i} : Same(j)
  BY <1>1, Types DEF Same, GotState, radius, history, bounds, Put
<1>4. Busy(i)' => i <= spawned /\ record'[i] # NoRecord
  BY <1>1, Types DEF Busy, GotState, radius, history, bounds, Put
<1>5. Typed'
  <2>1. Files'
    BY <1>1, Types DEF Typed, Files, GotState, radius, history, bounds, Put
  <2>2. Groups'
    BY <1>1, Types, Ids DEF Typed, Groups, Busy, GotState, radius, history, bounds, Put
  <2>3. Tables'
    BY <1>1, Types DEF Typed, Tables, GotState, radius, history, bounds, Put
  <2>4. Host'
    BY <1>1, Types, Ids DEF Typed, Host, GotState, radius, history, bounds, Put, Trouble, Costs
  <2>5. LiveOK'
    BY <1>1, Types, RecordAssumption DEF Typed, LiveOK, Groups, Recs, GotState, radius, history, bounds, Put
  <2> QED
    BY <2>1, <2>2, <2>3, <2>4, <2>5 DEF Typed
<1>6. Held(i)'
  BY <1>1, Types DEF Held, GotState, radius, history, bounds, Put
<1>7. Said(i)'
  <2>1. /\ record'[i] = record[i] /\ file'[i] = record[i] /\ i <= spawned /\ record[i] # NoRecord
        /\ spawning[i] = "state" /\ spawning'[i] = "register"
        /\ UNCHANGED <<host, spawned, live, resources, cleaning, exiting, beating, posted, renewing, crossed>>
    BY <1>1, Types DEF GotState, Put, radius, history, bounds, Busy
  <2> QED
    BY <1>1, <2>1 DEF Said, Ending, Quiet, Serving
<1> QED
  BY <1>2, <1>3, <1>4, <1>5, <1>6, <1>7, Assemble

(* Radius has registered the instance.                                      *)
LEMMA RegisteredKeeps ==
  ASSUME Inv, NEW i \in Id, Registered(i)
  PROVE  Inv'
<1>1. Typed /\ Held(i) /\ Said(i) /\ (Busy(i) => i <= spawned /\ record[i] # NoRecord)
  BY DEF Inv, Known
<1>2. HostStays /\ live' \subseteq live /\ crossed \subseteq crossed'
  BY DEF HostStays, Registered, radius, history, bounds, Put, Record, Status, Running, Alive, Trouble, Costs
<1>3. \A j \in Id \ {i} : Same(j)
  BY <1>1, Types DEF Same, Registered, radius, history, bounds, Put, Record, Status
<1>4. Busy(i)' => i <= spawned /\ record'[i] # NoRecord
  <2>1. Put(i, [status |-> "online", pi |-> TRUE]) /\ [status |-> "online", pi |-> TRUE] \in Recs
        /\ [status |-> "online", pi |-> TRUE] # NoRecord
    BY Online DEF Registered
  <2>2. record'[i] # NoRecord
    BY <1>1, <2>1, Puts
  <2>3. i <= spawned
    BY <1>1 DEF Busy, Registered
  <2> QED
    BY <2>2, <2>3
<1>5. Typed'
  <2>1. Files'
    <3>1. Put(i, [status |-> "online", pi |-> TRUE]) /\ [status |-> "online", pi |-> TRUE] \in Recs
      BY Online DEF Registered
    <3>2. record' \in [Id -> Recs] /\ file' \in [Id -> Recs]
      BY <1>1, <3>1, Puts
    <3>3. recovered' = recovered
      BY DEF Registered
    <3> QED
      BY <1>1, <3>2, <3>3, Types DEF Files
  <2>2. Groups'
    BY <1>1, Types, Ids DEF Typed, Groups, Busy, Registered, radius, history, bounds, Put, Record, Status
  <2>3. Tables'
    BY <1>1, Types DEF Typed, Tables, Registered, radius, history, bounds, Put, Record, Status
  <2>4. Host'
    BY <1>1, Types, Ids DEF Typed, Host, Registered, radius, history, bounds, Put, Record, Status, Trouble, Costs
  <2>5. LiveOK'
    <3>1. ASSUME NEW j \in live'
          PROVE  record'[j] # NoRecord /\ (resources'[j].bound => resources'[j].rpc)
      <4>1. j \in live /\ j \in Id /\ i \in Id
        BY <1>1, <3>1, Ids DEF Registered, Typed, Groups
      <4>2. record[j] # NoRecord /\ (resources[j].bound => resources[j].rpc)
        BY <1>1, <4>1 DEF Typed, LiveOK
      <4>3. resources'[j].bound = resources[j].bound /\ resources'[j].rpc = resources[j].rpc
        BY <1>1, <4>1, Types DEF Registered
      <4>4. CASE j = i
        <5>1. i <= spawned /\ record'[i] # NoRecord
          BY <1>4, <4>1, <4>4 DEF Busy, Registered
        <5> QED
          BY <4>2, <4>3, <4>4, <5>1
      <4>5. CASE j # i
        BY <1>3, <4>1, <4>2, <4>3, <4>5 DEF Same
      <4> QED
        BY <4>4, <4>5
    <3> QED
      BY <3>1 DEF LiveOK
  <2> QED
    BY <2>1, <2>2, <2>3, <2>4, <2>5 DEF Typed
<1>6. Held(i)'
  BY <1>1, Types DEF Held, Registered, radius, history, bounds, Put, Record, Status
<1>7. Said(i)'
  <2>1. /\ i <= spawned /\ spawning[i] = "register" /\ spawning'[i] = "no"
        /\ resources'[i].pi = TRUE /\ i \in beating'
        /\ UNCHANGED <<host, spawned, live, cleaning, exiting, posted, renewing, crossed>>
    BY <1>1, Types DEF Registered, radius, history, bounds, Busy
  <2>2. file'[i] # NoRecord
    <3>1. Put(i, [status |-> "online", pi |-> TRUE]) /\ [status |-> "online", pi |-> TRUE] \in Recs
          /\ [status |-> "online", pi |-> TRUE] # NoRecord
      BY Online DEF Registered
    <3> QED
      BY <1>1, <3>1, Puts
  <2> QED
    BY <1>1, <2>1, <2>2 DEF Said, Ending, Quiet, Serving
<1> QED
  BY <1>2, <1>3, <1>4, <1>5, <1>6, <1>7, Assemble

(* The spawn fails.                                                         *)
LEMMA SpawnRejectedKeeps ==
  ASSUME Inv, NEW i \in Id, SpawnRejected(i)
  PROVE  Inv'
<1>1. Typed /\ Held(i) /\ Said(i) /\ (Busy(i) => i <= spawned /\ record[i] # NoRecord)
  BY DEF Inv, Known
<1>2. HostStays /\ live' \subseteq live /\ crossed \subseteq crossed'
  BY DEF HostStays, SpawnRejected, radius, history, bounds, Running, Alive, Trouble, Costs
<1>3. \A j \in Id \ {i} : Same(j)
  BY <1>1, Types DEF Same, SpawnRejected, radius, history, bounds
<1>4. Busy(i)' => i <= spawned /\ record'[i] # NoRecord
  BY <1>1, Types DEF Busy, SpawnRejected, radius, history, bounds
<1>5. Typed'
  <2>1. Files'
    BY <1>1, Types DEF Typed, Files, SpawnRejected, radius, history, bounds
  <2>2. Groups'
    BY <1>1, Types, Ids DEF Typed, Groups, Busy, SpawnRejected, radius, history, bounds
  <2>3. Tables'
    BY <1>1, Types DEF Typed, Tables, SpawnRejected, radius, history, bounds
  <2>4. Host'
    BY <1>1, Types, Ids DEF Typed, Host, SpawnRejected, radius, history, bounds, Trouble, Costs
  <2>5. LiveOK'
    BY <1>1, Types, RecordAssumption DEF Typed, LiveOK, Groups, Recs, SpawnRejected, radius, history, bounds
  <2> QED
    BY <2>1, <2>2, <2>3, <2>4, <2>5 DEF Typed
<1>6. Held(i)'
  BY <1>1, Types DEF Held, SpawnRejected, radius, history, bounds
<1>7. Said(i)'
  BY <1>1, Types DEF Said, Ending, Quiet, Serving, SpawnRejected, radius, history, bounds
<1> QED
  BY <1>2, <1>3, <1>4, <1>5, <1>6, <1>7, Assemble

(* A heartbeat is on its way.                                               *)
LEMMA BeatKeeps ==
  ASSUME Inv, NEW i \in Id, Beat(i)
  PROVE  Inv'
<1>1. Typed /\ Held(i) /\ Said(i) /\ (Busy(i) => i <= spawned /\ record[i] # NoRecord)
  BY DEF Inv, Known
<1>2. HostStays /\ live' \subseteq live /\ crossed \subseteq crossed'
  BY DEF HostStays, Beat, radius, history, bounds, Running, Alive, Trouble, Costs
<1>3. \A j \in Id \ {i} : Same(j)
  BY <1>1, Types DEF Same, Beat, radius, history, bounds
<1>4. Busy(i)' => i <= spawned /\ record'[i] # NoRecord
  BY <1>1, Types DEF Busy, Beat, radius, history, bounds
<1>5. Typed'
  <2>1. Files'
    BY <1>1, Types DEF Typed, Files, Beat, radius, history, bounds
  <2>2. Groups'
    BY <1>1, Types, Ids DEF Typed, Groups, Busy, Beat, radius, history, bounds
  <2>3. Tables'
    BY <1>1, Types DEF Typed, Tables, Beat, radius, history, bounds
  <2>4. Host'
    BY <1>1, Types, Ids DEF Typed, Host, Beat, radius, history, bounds, Trouble, Costs
  <2>5. LiveOK'
    BY <1>1, Types, RecordAssumption DEF Typed, LiveOK, Groups, Recs, Beat, radius, history, bounds
  <2> QED
    BY <2>1, <2>2, <2>3, <2>4, <2>5 DEF Typed
<1>6. Held(i)'
  BY <1>1, Types DEF Held, Beat, radius, history, bounds
<1>7. Said(i)'
  BY <1>1, Types DEF Said, Ending, Quiet, Serving, Beat, radius, history, bounds
<1> QED
  BY <1>2, <1>3, <1>4, <1>5, <1>6, <1>7, Assemble

(* Radius does not know the instance.                                       *)
LEMMA UnknownKeeps ==
  ASSUME Inv, NEW i \in Id, Unknown(i)
  PROVE  Inv'
<1>1. Typed /\ Held(i) /\ Said(i) /\ (Busy(i) => i <= spawned /\ record[i] # NoRecord)
  BY DEF Inv, Known
<1>2. HostStays /\ live' \subseteq live /\ crossed \subseteq crossed'
  BY DEF HostStays, Unknown, radius, history, bounds, Renew, Running, Alive, Trouble, Costs
<1>3. \A j \in Id \ {i} : Same(j)
  BY <1>1, Types DEF Same, Unknown, radius, history, bounds, Renew
<1>4. Busy(i)' => i <= spawned /\ record'[i] # NoRecord
  BY <1>1, Types DEF Busy, Unknown, radius, history, bounds, Renew
<1>5. Typed'
  <2>1. Files'
    BY <1>1, Types DEF Typed, Files, Unknown, radius, history, bounds, Renew
  <2>2. Groups'
    BY <1>1, Types, Ids DEF Typed, Groups, Busy, Unknown, radius, history, bounds, Renew
  <2>3. Tables'
    <3>1. renewing' = renewing \/ renewing' = [renewing EXCEPT ![i]["heartbeat"] = record[i]]
      BY DEF Unknown, Renew
    <3>2. record[i] \in Recs /\ "heartbeat" \in Renewer /\ renewing[i] \in [Renewer -> Recs]
      BY <1>1, Types DEF Renewer
    <3>3. [renewing[i] EXCEPT !["heartbeat"] = record[i]] \in [Renewer -> Recs]
      BY <3>2
    <3>4. renewing' \in [Id -> [Renewer -> Recs]]
      BY <1>1, <3>1, <3>3, Types
    <3> QED
      BY <1>1, <3>4, Types DEF Tables, Unknown, history
  <2>4. Host'
    BY <1>1, Types, Ids DEF Typed, Host, Unknown, radius, history, bounds, Renew, Trouble, Costs
  <2>5. LiveOK'
    BY <1>1, Types, RecordAssumption DEF Typed, LiveOK, Groups, Recs, Unknown, radius, history, bounds, Renew
  <2> QED
    BY <2>1, <2>2, <2>3, <2>4, <2>5 DEF Typed
<1>6. Held(i)'
  BY <1>1, Types DEF Held, Unknown, radius, history, bounds, Renew
<1>7. Said(i)'
  BY <1>1, Types DEF Said, Ending, Quiet, Serving, Unknown, radius, history, bounds, Renew
<1> QED
  BY <1>2, <1>3, <1>4, <1>5, <1>6, <1>7, Assemble

(* The copy of the record is put in its place.                              *)
LEMMA RenewedKeeps ==
  ASSUME Inv, NEW i \in Id, NEW r \in Renewer, Renewed(i, r)
  PROVE  Inv'
<1>1. Typed /\ Held(i) /\ Said(i) /\ (Busy(i) => i <= spawned /\ record[i] # NoRecord)
  BY DEF Inv, Known
<1>2. HostStays /\ live' \subseteq live /\ crossed \subseteq crossed'
  BY DEF HostStays, Renewed, radius, history, bounds, Record, Status, Running, Alive, Trouble, Costs
<1>3. \A j \in Id \ {i} : Same(j)
  BY <1>1, Types DEF Same, Renewed, radius, history, bounds, Record, Status
<1>4. Busy(i)' => i <= spawned /\ record'[i] # NoRecord
  <2> DEFINE rec == [renewing[i][r] EXCEPT !.pi = TRUE]
  <2>1. renewing[i][r] \in Record /\ renewing[i][r] # NoRecord
    BY <1>1, Types DEF Renewed, Recs
  <2>2. rec \in Record /\ rec # NoRecord
    BY <2>1, RecordAssumption DEF Record
  <2>3. i <= spawned /\ record[i] # NoRecord
    BY <1>1, <2>1 DEF Busy
  <2>4. record'[i] = rec \/ record'[i] = record[i]
    BY <1>1, Types DEF Renewed
  <2> QED
    BY <2>2, <2>3, <2>4
<1>5. Typed'
  <2>1. Files'
    <3> DEFINE rec == [renewing[i][r] EXCEPT !.pi = TRUE]
    <3>1. renewing[i][r] \in Record
      BY <1>1, Types DEF Renewed, Recs
    <3>2. rec \in Recs
      BY <3>1 DEF Record, Recs
    <3>3. /\ file' = [file EXCEPT ![i] = rec] /\ recovered' = recovered
          /\ record' = record \/ record' = [record EXCEPT ![i] = rec]
      BY DEF Renewed
    <3> HIDE DEF rec
    <3> QED
      BY <1>1, <3>2, <3>3, Types DEF Files
  <2>2. Groups'
    BY <1>1, Types, Ids DEF Typed, Groups, Busy, Renewed, radius, history, bounds, Record, Status
  <2>3. Tables'
    <3>1. renewing' = [renewing EXCEPT ![i][r] = NoRecord]
      BY DEF Renewed
    <3>2. NoRecord \in Recs /\ renewing[i] \in [Renewer -> Recs]
      BY <1>1, Types DEF Recs
    <3>3. [renewing[i] EXCEPT ![r] = NoRecord] \in [Renewer -> Recs]
      BY <3>2
    <3>4. renewing' \in [Id -> [Renewer -> Recs]]
      BY <1>1, <3>1, <3>3, Types
    <3>5. resources' = resources \/ resources' = [resources EXCEPT ![i].pi = TRUE]
      BY DEF Renewed
    <3>6. resources' \in [Id -> [rpc : BOOLEAN, pi : BOOLEAN, bound : BOOLEAN]]
      BY <1>1, <3>5, Types
    <3> QED
      BY <1>1, <3>4, <3>6, Types DEF Tables, Renewed, history
  <2>4. Host'
    BY <1>1, Types, Ids DEF Typed, Host, Renewed, radius, history, bounds, Record, Status, Trouble, Costs
  <2>5. LiveOK'
    <3>1. ASSUME NEW j \in live'
          PROVE  record'[j] # NoRecord /\ (resources'[j].bound => resources'[j].rpc)
      <4>1. j \in live /\ j \in Id
        BY <1>1, <3>1, Ids DEF Renewed, Typed, Groups
      <4>2. record[j] # NoRecord /\ (resources[j].bound => resources[j].rpc)
        BY <1>1, <4>1 DEF Typed, LiveOK
      <4>3. resources'[j].bound = resources[j].bound /\ resources'[j].rpc = resources[j].rpc
        <5>1. resources' = resources \/ resources' = [resources EXCEPT ![i].pi = TRUE]
          BY DEF Renewed
        <5> QED
          BY <1>1, <4>1, <5>1, Types
      <4>4. CASE j = i
        <5>1. i \in live'
          BY <3>1, <4>4
        <5> QED
          BY <1>4, <4>2, <4>3, <4>4, <5>1 DEF Busy
      <4>5. CASE j # i
        BY <1>3, <4>1, <4>2, <4>3, <4>5 DEF Same
      <4> QED
        BY <4>4, <4>5
    <3> QED
      BY <3>1 DEF LiveOK
  <2> QED
    BY <2>1, <2>2, <2>3, <2>4, <2>5 DEF Typed
<1>6. Held(i)'
  <2>1. /\ resources'[i].rpc = resources[i].rpc /\ resources'[i].bound = resources[i].bound
    <3>1. resources' = resources \/ resources' = [resources EXCEPT ![i].pi = TRUE]
      BY DEF Renewed
    <3> QED
      BY <1>1, <3>1, Types
  <2> QED
    BY <1>1, <2>1 DEF Held, Renewed, bounds, history
<1>7. Said(i)'
  <2> DEFINE rec == [renewing[i][r] EXCEPT !.pi = TRUE]
  <2>1. renewing[i][r] \in Record /\ renewing[i][r] # NoRecord
    BY <1>1, Types DEF Renewed, Recs
  <2>2. rec \in Record /\ rec # NoRecord
    BY <2>1, RecordAssumption DEF Record
  <2>3. /\ i <= spawned /\ UNCHANGED <<host, spawned, live, spawning, cleaning, exiting, posted, crossed>>
    BY <1>1, <2>1 DEF Renewed, history, bounds, Busy
  <2>4. i \notin crossed => i \in live /\ ~Ending(i)
    BY <1>1, <2>1, <2>3, Ids DEF Said
  <2>5. file'[i] = rec
    BY <1>1, Types DEF Renewed
  <2>6. i \in live => resources'[i].pi /\ resources'[i].rpc = resources[i].rpc
    BY <1>1, Types DEF Renewed
  <2>7. i \in live /\ ~Ending(i) => i \in live' /\ ~Ending(i)'
    BY <2>3 DEF Ending
  <2> HIDE DEF rec
  <2> QED
    BY <1>1, <2>2, <2>3, <2>4, <2>5, <2>6, <2>7 DEF Said, Serving
<1> QED
  BY <1>2, <1>3, <1>4, <1>5, <1>6, <1>7, Assemble

(* Or nothing comes of it.                                                  *)
LEMMA RenewFailsKeeps ==
  ASSUME Inv, NEW i \in Id, NEW r \in Renewer, RenewFails(i, r)
  PROVE  Inv'
<1>1. Typed /\ Held(i) /\ Said(i) /\ (Busy(i) => i <= spawned /\ record[i] # NoRecord)
  BY DEF Inv, Known
<1>2. HostStays /\ live' \subseteq live /\ crossed \subseteq crossed'
  BY DEF HostStays, RenewFails, radius, history, bounds, Running, Alive, Trouble, Costs
<1>3. \A j \in Id \ {i} : Same(j)
  BY <1>1, Types DEF Same, RenewFails, radius, history, bounds
<1>4. Busy(i)' => i <= spawned /\ record'[i] # NoRecord
  BY <1>1, Types DEF Busy, RenewFails, radius, history, bounds
<1>5. Typed'
  <2>1. Files'
    BY <1>1, Types DEF Typed, Files, RenewFails, radius, history, bounds
  <2>2. Groups'
    BY <1>1, Types, Ids DEF Typed, Groups, Busy, RenewFails, radius, history, bounds
  <2>3. Tables'
    <3>1. renewing' = [renewing EXCEPT ![i][r] = NoRecord]
      BY DEF RenewFails
    <3>2. NoRecord \in Recs /\ renewing[i] \in [Renewer -> Recs]
      BY <1>1, Types DEF Recs
    <3>3. [renewing[i] EXCEPT ![r] = NoRecord] \in [Renewer -> Recs]
      BY <3>2
    <3>4. renewing' \in [Id -> [Renewer -> Recs]]
      BY <1>1, <3>1, <3>3, Types
    <3> QED
      BY <1>1, <3>4, Types DEF Tables, RenewFails, history
  <2>4. Host'
    BY <1>1, Types, Ids DEF Typed, Host, RenewFails, radius, history, bounds, Trouble, Costs
  <2>5. LiveOK'
    BY <1>1, Types, RecordAssumption DEF Typed, LiveOK, Groups, Recs, RenewFails, radius, history, bounds
  <2> QED
    BY <2>1, <2>2, <2>3, <2>4, <2>5 DEF Typed
<1>6. Held(i)'
  BY <1>1, Types DEF Held, RenewFails, radius, history, bounds
<1>7. Said(i)'
  BY <1>1, Types DEF Said, Ending, Quiet, Serving, RenewFails, radius, history, bounds
<1> QED
  BY <1>2, <1>3, <1>4, <1>5, <1>6, <1>7, Assemble

(* The unexpected exit has been handled.                                    *)
LEMMA ExitHandledKeeps ==
  ASSUME Inv, NEW i \in Id, ExitHandled(i)
  PROVE  Inv'
<1>1. Typed /\ Held(i) /\ Said(i) /\ (Busy(i) => i <= spawned /\ record[i] # NoRecord)
  BY DEF Inv, Known
<1>2. HostStays /\ live' \subseteq live /\ crossed \subseteq crossed'
  BY DEF HostStays, ExitHandled, radius, history, bounds, Put, Running, Alive, Trouble, Costs
<1>3. \A j \in Id \ {i} : Same(j)
  BY <1>1, Types DEF Same, ExitHandled, radius, history, bounds, Put
<1>4. Busy(i)' => i <= spawned /\ record'[i] # NoRecord
  <2>1. i <= spawned /\ record[i] \in Record
    BY <1>1, Types DEF Busy, ExitHandled, Recs
  <2>2. [record[i] EXCEPT !.pi = FALSE] \in Record /\ [record[i] EXCEPT !.pi = FALSE] # NoRecord
    BY <2>1, RecordAssumption DEF Record
  <2>3. record'[i] = [record[i] EXCEPT !.pi = FALSE]
    BY <1>1, Types DEF ExitHandled, Put
  <2> QED
    BY <2>1, <2>2, <2>3
<1>5. Typed'
  <2>1. Files'
    <3>1. record[i] \in Record
      BY <1>1, Types DEF Busy, ExitHandled, Recs
    <3>2. [record[i] EXCEPT !.pi = FALSE] \in Recs
      BY <3>1 DEF Record, Recs
    <3>3. Put(i, [record[i] EXCEPT !.pi = FALSE]) /\ recovered' = recovered
      BY DEF ExitHandled
    <3>4. record' \in [Id -> Recs] /\ file' \in [Id -> Recs]
      BY <1>1, <3>2, <3>3, Puts
    <3> QED
      BY <1>1, <3>3, <3>4, Types DEF Files
  <2>2. Groups'
    BY <1>1, Types, Ids DEF Typed, Groups, Busy, ExitHandled, radius, history, bounds, Put
  <2>3. Tables'
    BY <1>1, Types DEF Typed, Tables, ExitHandled, radius, history, bounds, Put
  <2>4. Host'
    BY <1>1, Types, Ids DEF Typed, Host, ExitHandled, radius, history, bounds, Put, Trouble, Costs
  <2>5. LiveOK'
    BY <1>1, Types, RecordAssumption DEF Typed, LiveOK, Groups, Recs, ExitHandled, radius, history, bounds, Put
  <2> QED
    BY <2>1, <2>2, <2>3, <2>4, <2>5 DEF Typed
<1>6. Held(i)'
  BY <1>1, Types DEF Held, ExitHandled, radius, history, bounds, Put
<1>7. Said(i)'
  <2>1. /\ i <= spawned /\ record[i] \in Record /\ i \in exiting /\ i \notin live'
        /\ UNCHANGED <<host, spawned, resources, spawning, cleaning, beating, posted, renewing, crossed>>
    BY <1>1, Types DEF ExitHandled, radius, history, bounds, Busy, Recs
  <2>2. /\ record'[i] = [record[i] EXCEPT !.pi = FALSE] /\ file'[i] = [record[i] EXCEPT !.pi = FALSE]
    BY <1>1, Types DEF ExitHandled, Put
  <2>3. record'[i].status = record[i].status /\ file'[i].status = record[i].status /\ record[i] # NoRecord
    BY <2>1, <2>2, RecordAssumption DEF Record
  <2> QED
    BY <1>1, <2>1, <2>3 DEF Said, Ending, Quiet, Serving
<1> QED
  BY <1>2, <1>3, <1>4, <1>5, <1>6, <1>7, Assemble

(* Or an error was met.                                                     *)
LEMMA ExitHandledBadlyKeeps ==
  ASSUME Inv, NEW i \in Id, ExitHandledBadly(i)
  PROVE  Inv'
<1>1. Typed /\ Held(i) /\ Said(i) /\ (Busy(i) => i <= spawned /\ record[i] # NoRecord)
  BY DEF Inv, Known
<1>2. HostStays /\ live' \subseteq live /\ crossed \subseteq crossed'
  BY DEF HostStays, ExitHandledBadly, radius, history, bounds, Running, Alive, Trouble, Costs
<1>3. \A j \in Id \ {i} : Same(j)
  BY <1>1, Types DEF Same, ExitHandledBadly, radius, history, bounds
<1>4. Busy(i)' => i <= spawned /\ record'[i] # NoRecord
  BY <1>1, Types DEF Busy, ExitHandledBadly, radius, history, bounds
<1>5. Typed'
  <2>1. Files'
    BY <1>1, Types DEF Typed, Files, ExitHandledBadly, radius, history, bounds
  <2>2. Groups'
    BY <1>1, Types, Ids DEF Typed, Groups, Busy, ExitHandledBadly, radius, history, bounds
  <2>3. Tables'
    BY <1>1, Types DEF Typed, Tables, ExitHandledBadly, radius, history, bounds
  <2>4. Host'
    BY <1>1, Types, Ids DEF Typed, Host, ExitHandledBadly, radius, history, bounds, Trouble, Costs
  <2>5. LiveOK'
    BY <1>1, Types, RecordAssumption DEF Typed, LiveOK, Groups, Recs, ExitHandledBadly, radius, history, bounds
  <2> QED
    BY <2>1, <2>2, <2>3, <2>4, <2>5 DEF Typed
<1>6. Held(i)'
  BY <1>1, Types DEF Held, ExitHandledBadly, radius, history, bounds
<1>7. Said(i)'
  BY <1>1, Types DEF Said, Ending, Quiet, Serving, ExitHandledBadly, radius, history, bounds
<1> QED
  BY <1>2, <1>3, <1>4, <1>5, <1>6, <1>7, Assemble

----------------------------------------------------------------------------
(* What the steps of a cleanup are made of *)

(* One caller's cleanup of one instance is set.                             *)
LEMMA Cleans ==
  ASSUME Typed, NEW i \in Id, NEW c \in Cleaner, NEW x \in [at : At, rpc : BOOLEAN],
         cleaning' = [cleaning EXCEPT ![i][c] = x]
  PROVE  /\ cleaning' \in [Id -> [Cleaner -> [at : At, rpc : BOOLEAN]]]
         /\ cleaning'[i][c] = x
         /\ \A d \in Cleaner \ {c} : cleaning'[i][d] = cleaning[i][d]
         /\ \A j \in Id \ {i} : cleaning'[j] = cleaning[j]
<1>1. cleaning[i] \in [Cleaner -> [at : At, rpc : BOOLEAN]]
  BY Types
<1>2. [cleaning[i] EXCEPT ![c] = x] \in [Cleaner -> [at : At, rpc : BOOLEAN]]
  BY <1>1
<1>3. cleaning' = [cleaning EXCEPT ![i] = [cleaning[i] EXCEPT ![c] = x]]
  OBVIOUS
<1> QED
  BY <1>1, <1>2, <1>3, Types

(* A cleanup that waits is not the one that nobody makes.                  *)
LEMMA Marks ==
  /\ NotCleaning \in [at : At, rpc : BOOLEAN] /\ NotCleaning.rpc = FALSE
  /\ NotCleaning.at = "none"
  /\ [at |-> "dispose", rpc |-> TRUE] \in [at : At, rpc : BOOLEAN]
  /\ \A had \in BOOLEAN : [at |-> "disconnect", rpc |-> had] \in [at : At, rpc : BOOLEAN]
  /\ Nobody \in [rpc : BOOLEAN, pi : BOOLEAN, bound : BOOLEAN]
  /\ Nobody.bound = FALSE /\ Nobody.pi = FALSE
BY DEF NotCleaning, At, Nobody

(* A record with another status.                                            *)
LEMMA WithStatus ==
  ASSUME NEW rec \in Record, NEW status \in Status
  PROVE  LET other == [rec EXCEPT !.status = status] IN
         other \in Record /\ other # NoRecord /\ other.status = status
<1>1. [rec EXCEPT !.status = status] \in Record
  BY DEF Record
<1>2. [rec EXCEPT !.status = status].status = status
  BY DEF Record
<1> QED
  BY <1>1, <1>2, RecordAssumption

(* The end of a cleanup.                                                    *)
LEMMA Finishes ==
  ASSUME Typed, NEW i \in Id, NEW c \in Cleaner, NEW rec \in Record, Finish(i, c, rec)
  PROVE  /\ live' = live \ {i}
         /\ cleaning' \in [Id -> [Cleaner -> [at : At, rpc : BOOLEAN]]]
         /\ cleaning'[i][c] = NotCleaning
         /\ \A d \in Cleaner \ {c} : cleaning'[i][d] = cleaning[i][d]
         /\ \A j \in Id \ {i} : cleaning'[j] = cleaning[j]
         /\ record' \in [Id -> Recs] /\ file' \in [Id -> Recs]
         /\ record'[i] # NoRecord /\ Quiet(record'[i]) /\ Quiet(file'[i])
         /\ \A j \in Id \ {i} : record'[j] = record[j] /\ file'[j] = file[j]
<1> DEFINE ended == [rec EXCEPT !.status = "stopped"]
<1>1. ended \in Record /\ ended # NoRecord /\ ended.status = "stopped"
  BY WithStatus DEF Status
<1>2. live' = live \ {i} /\ cleaning' = [cleaning EXCEPT ![i][c] = NotCleaning]
      /\ record' = [record EXCEPT ![i] = ended]
      /\ (file' = [file EXCEPT ![i] = ended] \/ file' = [file EXCEPT ![i] = NoRecord])
  BY DEF Finish
<1> HIDE DEF ended
<1>3. /\ record' \in [Id -> Recs] /\ file' \in [Id -> Recs]
      /\ record'[i] = ended /\ file'[i] \in {ended, NoRecord}
      /\ \A j \in Id \ {i} : record'[j] = record[j] /\ file'[j] = file[j]
  BY <1>1, <1>2, Types DEF Recs
<1>4. /\ cleaning' \in [Id -> [Cleaner -> [at : At, rpc : BOOLEAN]]]
      /\ cleaning'[i][c] = NotCleaning
      /\ \A d \in Cleaner \ {c} : cleaning'[i][d] = cleaning[i][d]
      /\ \A j \in Id \ {i} : cleaning'[j] = cleaning[j]
  BY <1>2, Cleans, Marks
<1>5. record'[i] # NoRecord /\ Quiet(record'[i]) /\ Quiet(file'[i])
  BY <1>1, <1>3 DEF Quiet
<1> QED
  BY <1>2, <1>3, <1>4, <1>5

(* The pending requests are rejected.                                       *)
LEMMA Rejects ==
  ASSUME Typed, NEW i \in Id, NEW disposed \in BOOLEAN, Rejected(i, disposed)
  PROVE  /\ spawning' \in [Id -> {"no", "state", "rejected", "register"}]
         /\ spawning[i] = "rejected" => spawning'[i] = "no"
         /\ spawning[i] = "state" /\ disposed => spawning'[i] = "rejected"
         /\ spawning[i] = "state" /\ ~disposed => spawning'[i] = "state"
         /\ spawning[i] \in {"no", "register"} => spawning'[i] = spawning[i]
         /\ \A j \in Id \ {i} : spawning'[j] = spawning[j]
         /\ calling' \subseteq calling
         /\ \A j \in Id \ {i} : (j \in calling') <=> (j \in calling)
BY Types DEF Rejected

(* Who ends while being registered is noted, once.                         *)
LEMMA Crosses ==
  ASSUME NEW i \in Id, crossed' = Crossed(i)
  PROVE  /\ crossed \subseteq crossed' /\ crossed' \subseteq crossed \cup {i}
         /\ i \notin crossed' => ~Registering(i) /\ i \notin crossed
BY DEF Crossed

(* The second half of a cleanup keeps the invariant.                        *)
LEMMA DisposeKeeps ==
  ASSUME Inv, NEW i \in Id, NEW c \in Cleaner, NEW had \in BOOLEAN,
         NEW rec \in Record, NEW saved \in Recs,
         Dispose(i, c, had, rec, saved),
         host # "off", i <= spawned, toStop' \in Seq(Id),
         crossed \subseteq crossed', crossed' \subseteq crossed \cup {i},
         UNCHANGED <<host, bounds, recovered, process, exiting, posted, renewing, toRenew,
                     leaked, beating>>,
         resources[i].rpc /\ resources[i].bound => had,
         cleaning[i][c].rpc => had,
         c = "shutdown" => host \in {"shutting", "stuck"},
         c = "spawn" => spawning[i] \in {"no", "rejected"},
         i \notin crossed' =>
           /\ Quiet(rec) /\ (Serving => Quiet(saved))
           /\ i \notin posted \cup beating /\ (\A r \in Renewer : renewing[i][r] = NoRecord)
           /\ spawning[i] # "register" /\ (spawning[i] = "state" => had)
           /\ (Serving /\ i \in live => saved # NoRecord)
  PROVE  Inv'
<1>1. Typed /\ Held(i) /\ Said(i)
  BY DEF Inv
<1>2. /\ resources' = [resources EXCEPT ![i] = Nobody] /\ Rejected(i, had)
      /\ \/ /\ had /\ process[i] = "running"
            /\ cleaning' = [cleaning EXCEPT ![i][c] = [at |-> "dispose", rpc |-> TRUE]]
            /\ record' = [record EXCEPT ![i] = rec]
            /\ file' = [file EXCEPT ![i] = saved]
            /\ live' = live
         \/ ~(had /\ process[i] = "running") /\ Finish(i, c, rec)
  BY DEF Dispose, MustKill
<1>3. /\ resources' \in [Id -> [rpc : BOOLEAN, pi : BOOLEAN, bound : BOOLEAN]]
      /\ resources'[i] = Nobody /\ \A j \in Id \ {i} : resources'[j] = resources[j]
  BY <1>1, <1>2, Types, Marks
<1>4. /\ live' \subseteq live /\ live \ {i} \subseteq live'
      /\ cleaning' \in [Id -> [Cleaner -> [at : At, rpc : BOOLEAN]]]
      /\ \A d \in Cleaner \ {c} : cleaning'[i][d] = cleaning[i][d]
      /\ \A j \in Id \ {i} : cleaning'[j] = cleaning[j]
      /\ cleaning'[i][c].at # "disposed"
      /\ had /\ process[i] = "running" => cleaning'[i][c].rpc
      /\ record' \in [Id -> Recs] /\ file' \in [Id -> Recs] /\ record'[i] # NoRecord
      /\ \A j \in Id \ {i} : record'[j] = record[j] /\ file'[j] = file[j]
      /\ Quiet(rec) => Quiet(record'[i])
      /\ Quiet(saved) => Quiet(file'[i])
      /\ i \in live' => file'[i] = saved
  <2>1. CASE ~(had /\ process[i] = "running") /\ Finish(i, c, rec)
    <3>1. i \notin live' /\ cleaning'[i][c].at # "disposed"
      BY <1>1, <2>1, Finishes, Marks
    <3> QED
      BY <1>1, <2>1, <3>1, Finishes
  <2>2. CASE /\ had /\ process[i] = "running"
             /\ cleaning' = [cleaning EXCEPT ![i][c] = [at |-> "dispose", rpc |-> TRUE]]
             /\ record' = [record EXCEPT ![i] = rec]
             /\ file' = [file EXCEPT ![i] = saved]
             /\ live' = live
    <3>1. /\ cleaning' \in [Id -> [Cleaner -> [at : At, rpc : BOOLEAN]]]
          /\ cleaning'[i][c] = [at |-> "dispose", rpc |-> TRUE]
          /\ \A d \in Cleaner \ {c} : cleaning'[i][d] = cleaning[i][d]
          /\ \A j \in Id \ {i} : cleaning'[j] = cleaning[j]
      BY <1>1, <2>2, Cleans, Marks
    <3>2. /\ record' \in [Id -> Recs] /\ file' \in [Id -> Recs]
          /\ record'[i] = rec /\ file'[i] = saved
          /\ \A j \in Id \ {i} : record'[j] = record[j] /\ file'[j] = file[j]
      BY <1>1, <2>2, Types DEF Recs
    <3>3. rec # NoRecord
      BY RecordAssumption
    <3> QED
      BY <2>2, <3>1, <3>2, <3>3
  <2> QED
    BY <1>2, <2>1, <2>2
<1>5. /\ spawning' \in [Id -> {"no", "state", "rejected", "register"}]
      /\ spawning[i] = "rejected" => spawning'[i] = "no"
      /\ spawning[i] = "state" /\ had => spawning'[i] = "rejected"
      /\ spawning[i] = "state" /\ ~had => spawning'[i] = "state"
      /\ spawning[i] \in {"no", "register"} => spawning'[i] = spawning[i]
      /\ \A j \in Id \ {i} : spawning'[j] = spawning[j]
      /\ calling' \subseteq calling
      /\ \A j \in Id \ {i} : (j \in calling') <=> (j \in calling)
  BY <1>1, <1>2, Rejects
<1>6. HostStays
  BY DEF HostStays, bounds
<1>7. \A j \in Id \ {i} : Same(j)
  BY <1>3, <1>4, <1>5 DEF Same
<1>8. Typed'
  <2>1. Files'
    BY <1>1, <1>4, Types DEF Files
  <2>2. Groups'
    BY <1>1, <1>4, <1>5, Ids DEF Typed, Groups, bounds
  <2>3. Tables'
    BY <1>1, <1>3, <1>4, <1>5 DEF Typed, Tables
  <2>4. Host'
    BY <1>1 DEF Typed, Host, bounds
  <2>5. LiveOK'
    <3>1. ASSUME NEW j \in live'
          PROVE  record'[j] # NoRecord /\ (resources'[j].bound => resources'[j].rpc)
      <4>1. j \in live /\ j \in Id
        BY <1>1, <1>4, <3>1, Ids DEF Typed, Groups
      <4>2. record[j] # NoRecord /\ (resources[j].bound => resources[j].rpc)
        BY <1>1, <4>1 DEF Typed, LiveOK
      <4>3. CASE j = i
        BY <1>3, <1>4, <4>3, Marks
      <4>4. CASE j # i
        BY <1>3, <1>4, <4>1, <4>2, <4>4
      <4> QED
        BY <4>3, <4>4
    <3> QED
      BY <3>1 DEF LiveOK
  <2> QED
    BY <2>1, <2>2, <2>3, <2>4, <2>5 DEF Typed
<1>9. Held(i)'
  <2>1. ASSUME process[i] = "running", i \notin leaked
        PROVE  \E d \in Cleaner : cleaning'[i][d].rpc
    BY <1>1, <1>4, <2>1 DEF Held
  <2>2. spawning'[i] # "no" => cleaning'[i]["spawn"] = NotCleaning
    <3>1. "spawn" \in Cleaner /\ spawning[i] \in {"no", "state", "rejected", "register"}
      BY <1>1, Types DEF Cleaner
    <3>2. CASE c = "spawn"
      BY <1>5, <3>2
    <3>3. CASE c # "spawn"
      BY <1>1, <1>4, <1>5, <3>1, <3>3 DEF Held
    <3> QED
      BY <3>2, <3>3
  <2>3. \A d \in Cleaner : cleaning'[i][d].at = "disposed" => process[i] = "exited"
    BY <1>1, <1>4 DEF Held
  <2>4. ~resources'[i].bound
    BY <1>3, Marks
  <2>5. cleaning'[i]["shutdown"] # NotCleaning => host \in {"shutting", "stuck"}
    BY <1>1, <1>4 DEF Held, Cleaner
  <2> QED
    BY <1>1, <2>1, <2>2, <2>3, <2>4, <2>5 DEF Held
<1>10. Said(i)'
  <2> SUFFICES ASSUME i \notin crossed' PROVE Said(i)'
    BY DEF Said
  <2>1. /\ spawning'[i] \notin {"state", "register"}
        /\ i \notin posted' \cup beating' /\ \A r \in Renewer : renewing'[i][r] = NoRecord
        /\ Quiet(record'[i]) /\ (Serving => Quiet(file'[i]))
        /\ Serving /\ i \in live' => file'[i] # NoRecord
    <3>1. spawning[i] \in {"no", "state", "rejected", "register"}
      BY <1>1, Types
    <3> QED
      BY <1>4, <1>5, <3>1
  <2>2. Serving' = Serving
    BY DEF Serving
  <2> QED
    BY <2>1, <2>2 DEF Said, Quiet
<1>11. i <= spawned /\ record'[i] # NoRecord
  BY <1>4
<1> QED
  BY <1>4, <1>6, <1>7, <1>8, <1>9, <1>10, <1>11, Assemble

(* The first half: what was bound is left alone, and Radius is asked to     *)
(* forget the instance, or the child is disposed of at once.                *)
LEMMA CleanupKeeps ==
  ASSUME Inv, NEW i \in Id, NEW c \in Cleaner, NEW status \in {"stopping", "error"},
         Cleanup(i, c, status),
         host # "off", i <= spawned, record[i] # NoRecord, toStop' \in Seq(Id),
         cleaning[i][c] = NotCleaning,
         UNCHANGED <<host, bounds, recovered, process, exiting, posted, renewing, toRenew,
                     leaked>>,
         c = "shutdown" => host \in {"shutting", "stuck"},
         c = "spawn" => spawning[i] = "rejected"
  PROVE  Inv'
<1> DEFINE rec == [record[i] EXCEPT !.status = status]
           had == resources[i].rpc
<1>1. /\ Typed /\ Held(i) /\ Said(i) /\ record[i] \in Record
      /\ spawning[i] \in {"no", "state", "rejected", "register"}
  BY Types DEF Inv, Recs
<1>2. rec \in Record /\ rec # NoRecord /\ rec.status = status /\ rec \in Recs
  BY <1>1, WithStatus DEF Status, Recs
<1>3. had \in BOOLEAN /\ Quiet(rec)
  BY <1>1, <1>2, Types DEF Quiet
<1>4. /\ crossed \subseteq crossed' /\ crossed' \subseteq crossed \cup {i}
      /\ i \notin crossed' => ~Registering(i) /\ i \notin crossed
  BY Crosses DEF Cleanup
<1>5. i \in 1..spawned
  BY <1>1, Ids
<1>6. i \notin crossed' =>
        /\ i \notin posted /\ (\A r \in Renewer : renewing[i][r] = NoRecord)
        /\ spawning[i] # "register" /\ ~(spawning[i] = "state" /\ resources[i].pi)
        /\ (spawning[i] = "state" => had) /\ (i \in beating => resources[i].pi)
  BY <1>1, <1>4, <1>5 DEF Registering, Said
<1>7. CASE ~resources[i].pi
  <2>1. Dispose(i, c, had, rec, rec) /\ beating' = beating
    BY <1>7 DEF Cleanup
  <2>2. UNCHANGED <<host, bounds, recovered, process, exiting, posted, renewing, toRenew, leaked, beating>>
    BY <2>1
  <2> HIDE DEF rec
  <2>3. ~cleaning[i][c].rpc
    BY Marks
  <2>4. resources[i].rpc /\ resources[i].bound => had
    OBVIOUS
  <2>5. c = "spawn" => spawning[i] \in {"no", "rejected"}
    OBVIOUS
  <2> HIDE DEF had
  <2> QED
    BY <1>1, <1>2, <1>3, <1>4, <1>6, <1>7, <2>1, <2>2, <2>3, <2>4, <2>5, DisposeKeeps
<1>8. CASE resources[i].pi
  <2>1. /\ cleaning' = [cleaning EXCEPT ![i][c] = [at |-> "disconnect", rpc |-> had]]
        /\ resources' = [resources EXCEPT ![i].bound = FALSE]
        /\ beating' = beating \ {i}
        /\ Put(i, rec) /\ Rejected(i, FALSE) /\ live' = live
    BY <1>8 DEF Cleanup
  <2> HIDE DEF rec
  <2>2. /\ cleaning' \in [Id -> [Cleaner -> [at : At, rpc : BOOLEAN]]]
        /\ cleaning'[i][c] = [at |-> "disconnect", rpc |-> had]
        /\ \A d \in Cleaner \ {c} : cleaning'[i][d] = cleaning[i][d]
        /\ \A j \in Id \ {i} : cleaning'[j] = cleaning[j]
    <3>1. [at |-> "disconnect", rpc |-> had] \in [at : At, rpc : BOOLEAN]
      BY <1>3, Marks
    <3> QED
      BY <1>1, <2>1, <3>1, Cleans
  <2>3. /\ resources' \in [Id -> [rpc : BOOLEAN, pi : BOOLEAN, bound : BOOLEAN]]
        /\ ~resources'[i].bound /\ resources'[i].rpc = resources[i].rpc
        /\ resources'[i].pi = resources[i].pi
        /\ \A j \in Id \ {i} : resources'[j] = resources[j]
    BY <1>1, <2>1, Types
  <2>4. /\ record' \in [Id -> Recs] /\ file' \in [Id -> Recs]
        /\ record'[i] = rec /\ file'[i] = rec
        /\ \A j \in Id \ {i} : record'[j] = record[j] /\ file'[j] = file[j]
    BY <1>1, <1>2, <2>1, Puts
  <2>5. /\ spawning' \in [Id -> {"no", "state", "rejected", "register"}]
        /\ spawning[i] = "rejected" => spawning'[i] = "no"
        /\ spawning[i] = "state" => spawning'[i] = "state"
        /\ spawning[i] \in {"no", "register"} => spawning'[i] = spawning[i]
        /\ \A j \in Id \ {i} : spawning'[j] = spawning[j]
        /\ calling' \subseteq calling
        /\ \A j \in Id \ {i} : (j \in calling') <=> (j \in calling)
    BY <1>1, <2>1, Rejects
  <2>6. HostStays
    BY DEF HostStays, bounds
  <2>7. \A j \in Id \ {i} : Same(j)
    BY <1>4, <2>1, <2>2, <2>3, <2>4, <2>5 DEF Same
  <2>8. Typed'
    <3>1. Files'
      BY <1>1, <2>4, Types DEF Files
    <3>2. Groups'
      BY <1>1, <1>4, <1>5, <2>1, <2>5 DEF Typed, Groups, bounds
    <3>3. Tables'
      BY <1>1, <2>2, <2>3, <2>5 DEF Typed, Tables
    <3>4. Host'
      BY <1>1 DEF Typed, Host, bounds
    <3>5. LiveOK'
      BY <1>1, <1>2, <2>1, <2>3, <2>4, Ids DEF Typed, LiveOK, Groups
    <3> QED
      BY <3>1, <3>2, <3>3, <3>4, <3>5 DEF Typed
  <2>9. Held(i)'
    <3>1. ASSUME process[i] = "running", i \notin leaked
          PROVE  \E d \in Cleaner : cleaning'[i][d].rpc
      <4>1. CASE had
        BY <2>2, <4>1
      <4>2. CASE ~had
        <5>1. PICK d \in Cleaner : cleaning[i][d].rpc
          BY <1>1, <3>1, <4>2 DEF Held
        <5>2. d # c
          BY <5>1, Marks
        <5> QED
          BY <2>2, <5>1, <5>2
      <4> QED
        BY <4>1, <4>2
    <3>2. spawning'[i] # "no" => cleaning'[i]["spawn"] = NotCleaning
      <4>1. CASE c = "spawn"
        BY <2>5, <4>1
      <4>2. CASE c # "spawn"
        BY <1>1, <2>2, <2>5, <4>2 DEF Held, Cleaner
      <4> QED
        BY <4>1, <4>2
    <3>3. \A d \in Cleaner : cleaning'[i][d].at = "disposed" => process[i] = "exited"
      <4>1. cleaning'[i][c].at = "disconnect"
        BY <2>2
      <4> QED
        BY <1>1, <2>2, <4>1 DEF Held
    <3>4. cleaning'[i]["shutdown"] # NotCleaning => host \in {"shutting", "stuck"}
      BY <1>1, <2>2 DEF Held, Cleaner
    <3> QED
      BY <1>1, <2>3, <3>1, <3>2, <3>3, <3>4 DEF Held
  <2>10. Said(i)'
    <3> SUFFICES ASSUME i \notin crossed' PROVE Said(i)'
      BY DEF Said
    <3>1. /\ spawning'[i] \notin {"state", "register"}
          /\ i \notin posted' \cup beating' /\ \A r \in Renewer : renewing'[i][r] = NoRecord
          /\ Quiet(record'[i]) /\ Quiet(file'[i]) /\ file'[i] # NoRecord
      BY <1>1, <1>2, <1>3, <1>6, <1>8, <2>1, <2>4, <2>5 DEF Quiet
    <3> QED
      BY <3>1 DEF Said, Quiet
  <2>11. record'[i] # NoRecord
    BY <1>2, <2>4
  <2> QED
    BY <1>4, <2>1, <2>6, <2>7, <2>8, <2>9, <2>10, <2>11, Assemble
<1> QED
  BY <1>7, <1>8

(* What is said of an instance in the map.                                  *)
LEMMA LiveOnes ==
  ASSUME Inv, NEW i \in Id, i \in live
  PROVE  i <= spawned /\ record[i] # NoRecord
BY DEF Inv, Known, Busy

(* A stop of an instance in the map, by a client.                           *)
LEMMA ClientStopsKeeps ==
  ASSUME Inv, NEW i \in Id, ClientStops(i)
  PROVE  Inv'
<1>1. host # "off" /\ i \in live /\ Cleanup(i, "client", "stopping") /\ cleaning[i]["client"] = NotCleaning
      /\ "client" \in Cleaner /\ "stopping" \in {"stopping", "error"}
      /\ UNCHANGED <<host, bounds, recovered, process, exiting, posted, renewing, toRenew, leaked>>
  BY DEF ClientStops, Stop, Running, Alive, Cleaner
<1>2. toStop' \in Seq(Id)
  BY DEF ClientStops, Inv, Typed, Host
<1> QED
  BY <1>1, <1>2, LiveOnes, CleanupKeeps

(* What was acquired by a spawn that failed is released.                    *)
LEMMA FailSpawnKeeps ==
  ASSUME Inv, NEW i \in Id, FailSpawn(i)
  PROVE  Inv'
<1>1. host # "off" /\ spawning[i] = "rejected" /\ Cleanup(i, "spawn", "error")
      /\ "spawn" \in Cleaner /\ "error" \in {"stopping", "error"}
      /\ UNCHANGED <<host, bounds, recovered, process, exiting, posted, renewing, toRenew, leaked>>
  BY DEF FailSpawn, Alive, Cleaner
<1>2. toStop' \in Seq(Id)
  BY DEF FailSpawn, Inv, Typed, Host
<1>3. i <= spawned /\ record[i] # NoRecord
  BY <1>1 DEF Inv, Known, Busy
<1>4. cleaning[i]["spawn"] = NotCleaning
  BY <1>1 DEF Inv, Held
<1> QED
  BY <1>1, <1>2, <1>3, <1>4, CleanupKeeps

(* Radius has forgotten the instance: its child is disposed of.             *)
LEMMA DisconnectedKeeps ==
  ASSUME Inv, NEW i \in Id, NEW c \in Cleaner, Disconnected(i, c)
  PROVE  Inv'
<1> DEFINE had == cleaning[i][c].rpc
           rec == [record[i] EXCEPT !.pi = FALSE]
<1>1. /\ Typed /\ Held(i) /\ Said(i)
      /\ host # "off" /\ cleaning[i][c].at = "disconnect" /\ cleaning[i][c] # NotCleaning
      /\ Dispose(i, c, had, rec, file[i])
      /\ UNCHANGED <<host, bounds, recovered, process, exiting, posted, renewing, toRenew, leaked, beating>>
      /\ crossed' = crossed /\ toStop' = toStop
  BY Marks DEF Inv, Disconnected, Running, Alive, radius, history
<1>2. i <= spawned /\ record[i] # NoRecord
  BY <1>1 DEF Inv, Known, Busy
<1>3. record[i] \in Record /\ had \in BOOLEAN /\ file[i] \in Recs /\ toStop' \in Seq(Id)
  BY <1>1, <1>2, Types DEF Recs, Typed, Host
<1>4. rec \in Record /\ rec.status = record[i].status
  BY <1>3 DEF Record
<1>5. ~(resources[i].rpc /\ resources[i].bound)
  BY <1>1 DEF Held
<1>6. c = "shutdown" => host \in {"shutting", "stuck"}
  BY <1>1 DEF Held
<1>7. c = "spawn" => spawning[i] \in {"no", "rejected"}
  BY <1>1 DEF Held
<1>8. ASSUME i \notin crossed'
      PROVE  /\ Quiet(rec) /\ (Serving => Quiet(file[i]))
             /\ i \notin posted \cup beating /\ (\A r \in Renewer : renewing[i][r] = NoRecord)
             /\ spawning[i] # "register" /\ (spawning[i] = "state" => had)
             /\ (Serving /\ i \in live => file[i] # NoRecord)
  <2>1. i \in (1..spawned) \ crossed /\ Ending(i)
    BY <1>1, <1>2, <1>8, Ids DEF Ending
  <2>2. /\ spawning[i] \notin {"state", "register"} /\ i \notin posted \cup beating
        /\ \A r \in Renewer : renewing[i][r] = NoRecord
        /\ Quiet(record[i]) /\ (Serving => Quiet(file[i]))
        /\ Serving /\ i \in live => file[i] # NoRecord
    BY <1>1, <2>1 DEF Said
  <2>3. Quiet(rec)
    BY <1>2, <1>4, <2>2 DEF Quiet
  <2> QED
    BY <2>2, <2>3
<1> HIDE DEF rec
<1>9. cleaning[i][c].rpc => had
  OBVIOUS
<1>10. crossed \subseteq crossed' /\ crossed' \subseteq crossed \cup {i}
  BY <1>1
<1> HIDE DEF had
<1> QED
  BY <1>1, <1>2, <1>3, <1>4, <1>5, <1>6, <1>7, <1>8, <1>9, <1>10, DisposeKeeps

(* A cleanup ends, well or badly.                                           *)
LEMMA FinishKeeps ==
  ASSUME Inv, NEW i \in Id, NEW c \in Cleaner, Finish(i, c, record[i]),
         cleaning[i][c] # NotCleaning, HostStays, Host',
         leaked \subseteq leaked', leaked' \subseteq leaked \cup {i},
         cleaning[i][c].rpc /\ process[i] = "running" => i \in leaked',
         UNCHANGED <<resources, process, spawning, exiting, calling, radius, crossed>>
  PROVE  Inv'
<1>1. /\ Typed /\ Held(i) /\ Said(i) /\ i <= spawned /\ record[i] # NoRecord
      /\ i \in 1..spawned /\ spawned' = spawned
  BY Ids DEF Inv, Known, Busy, HostStays
<1>2. record[i] \in Record
  BY <1>1, Types DEF Recs
<1>3. /\ live' = live \ {i}
      /\ cleaning' \in [Id -> [Cleaner -> [at : At, rpc : BOOLEAN]]]
      /\ cleaning'[i][c] = NotCleaning
      /\ \A d \in Cleaner \ {c} : cleaning'[i][d] = cleaning[i][d]
      /\ \A j \in Id \ {i} : cleaning'[j] = cleaning[j]
      /\ record' \in [Id -> Recs] /\ file' \in [Id -> Recs]
      /\ record'[i] # NoRecord /\ Quiet(record'[i]) /\ Quiet(file'[i])
      /\ \A j \in Id \ {i} : record'[j] = record[j] /\ file'[j] = file[j]
  BY <1>1, <1>2, Finishes
<1>4. \A j \in Id \ {i} : Same(j)
  BY <1>3 DEF Same, radius
<1>5. Typed'
  <2>1. Files'
    BY <1>1, <1>3, Types DEF Files, HostStays
  <2>2. Groups'
    BY <1>1, <1>3 DEF Typed, Groups, radius
  <2>3. Tables'
    BY <1>1, <1>3 DEF Typed, Tables, radius
  <2>4. LiveOK'
    BY <1>1, <1>3, Ids DEF Typed, LiveOK, Groups
  <2> QED
    BY <2>1, <2>2, <2>3, <2>4 DEF Typed
<1>6. Held(i)'
  <2>1. ASSUME process[i] = "running", i \notin leaked'
        PROVE  \E d \in Cleaner : cleaning'[i][d].rpc
    <3>1. ~resources[i].bound /\ i \notin leaked /\ ~cleaning[i][c].rpc
      BY <1>1, <2>1 DEF Held
    <3>2. PICK d \in Cleaner : cleaning[i][d].rpc
      BY <1>1, <2>1, <3>1 DEF Held
    <3> QED
      BY <1>3, <3>1, <3>2
  <2>2. spawning[i] # "no" => cleaning'[i]["spawn"] = NotCleaning
    BY <1>1, <1>3 DEF Held, Cleaner
  <2>3. \A d \in Cleaner : cleaning'[i][d].at = "disposed" => process[i] = "exited"
    BY <1>1, <1>3, Marks DEF Held
  <2>4. cleaning'[i]["shutdown"] # NotCleaning => host' \in {"shutting", "stuck"}
    BY <1>1, <1>3 DEF Held, Cleaner, HostStays
  <2>5. ~resources[i].bound
    BY <1>1 DEF Held
  <2> QED
    BY <1>1, <2>1, <2>2, <2>3, <2>4, <2>5 DEF Held
<1>7. Said(i)'
  <2> SUFFICES ASSUME i \notin crossed PROVE Said(i)'
    BY DEF Said
  <2>1. Ending(i)
    BY DEF Ending
  <2>2. /\ spawning[i] \notin {"state", "register"} /\ i \notin posted \cup beating
        /\ \A r \in Renewer : renewing[i][r] = NoRecord
    BY <1>1, <2>1 DEF Said
  <2> QED
    BY <1>3, <2>2 DEF Said, radius, Quiet
<1> QED
  BY <1>1, <1>3, <1>4, <1>5, <1>6, <1>7, Assemble

(* The error of a disconnect ends the cleanup, and for shutdown() the      *)
(* orchestrator.                                                           *)
LEMMA DisconnectFailsKeeps ==
  ASSUME Inv, NEW i \in Id, NEW c \in Cleaner, DisconnectFails(i, c)
  PROVE  Inv'
<1>1. /\ cleaning[i][c] # NotCleaning /\ host # "off" /\ Finish(i, c, record[i])
      /\ UNCHANGED <<resources, process, spawning, exiting, calling, radius, crossed>>
      /\ leaked' = IF cleaning[i][c].rpc THEN leaked \cup {i} ELSE leaked
  BY Marks DEF DisconnectFails, Running, Alive
<1>2. c = "shutdown" => host \in {"shutting", "stuck"}
  BY <1>1 DEF Inv, Held
<1>3. HostStays
  BY <1>1, <1>2 DEF HostStays, DisconnectFails
<1>4. Host'
  <2>1. Host /\ MaxTroubles \in Nat /\ <<>> \in Seq(Id)
    BY Ids DEF Inv, Typed
  <2>2. /\ lives' = lives /\ spawned' = spawned /\ toRenew' = toRenew
        /\ host' = host \/ host' = "stuck"
        /\ toStop' = <<>> \/ toStop' = toStop
        /\ troubles + 1 <= MaxTroubles /\ troubles' = troubles + 1
    BY DEF DisconnectFails, Trouble, Costs, radius
  <2>3. toStop' \in Seq(Id)
    BY <2>1, <2>2 DEF Host
  <2>4. troubles' \in 0..MaxTroubles
    BY <2>1, <2>2 DEF Host
  <2>5. host' \in {"off", "recovering", "up", "shutting", "stuck"}
    BY <2>1, <2>2 DEF Host
  <2>6. /\ lives' \in 0..MaxLives /\ spawned' \in 0..MaxInstances /\ toRenew' \in Seq(Id)
    BY <2>1, <2>2 DEF Host
  <2> QED
    BY <2>3, <2>4, <2>5, <2>6 DEF Host
<1> QED
  BY <1>1, <1>3, <1>4, FinishKeeps

(* The child has ended, and with it the cleanup.                           *)
LEMMA DisposedKeeps ==
  ASSUME Inv, NEW i \in Id, NEW c \in Cleaner, Disposed(i, c)
  PROVE  Inv'
<1>1. /\ cleaning[i][c] # NotCleaning /\ host # "off" /\ Finish(i, c, record[i])
      /\ cleaning[i][c].at = "disposed"
      /\ UNCHANGED <<resources, process, spawning, exiting, calling, radius, crossed>>
      /\ leaked' = leaked
  BY Marks DEF Disposed, Running, Alive, history
<1>2. HostStays
  BY <1>1 DEF HostStays, Disposed, bounds
<1>3. Host'
  BY DEF Inv, Typed, Host, Disposed, bounds, radius
<1>4. process[i] = "exited"
  BY <1>1 DEF Inv, Held
<1> QED
  BY <1>1, <1>2, <1>3, <1>4, FinishKeeps

----------------------------------------------------------------------------
(* The child *)

(* Those who wait for the exit are told.                                    *)
LEMMA Told ==
  ASSUME Typed, NEW i \in Id
  PROVE  /\ Awaited(i) \in [Cleaner -> [at : At, rpc : BOOLEAN]]
         /\ \A c \in Cleaner : /\ Awaited(i)[c] # NotCleaning <=> cleaning[i][c] # NotCleaning
                               /\ Awaited(i)[c].rpc = cleaning[i][c].rpc
                               /\ cleaning[i][c] = NotCleaning => Awaited(i)[c] = NotCleaning
<1>1. \A c \in Cleaner : cleaning[i][c] \in [at : At, rpc : BOOLEAN]
  BY Types
<1>2. \A x \in [at : At, rpc : BOOLEAN] :
        /\ [x EXCEPT !.at = "disposed"] \in [at : At, rpc : BOOLEAN]
        /\ [x EXCEPT !.at = "disposed"].rpc = x.rpc
        /\ [x EXCEPT !.at = "disposed"].at = "disposed"
  BY DEF At
<1> QED
  BY <1>1, <1>2, Marks DEF Awaited

(* Whatever the child's exit interrupts.                                    *)
LEMMA ExitsKeeps ==
  ASSUME Inv, NEW i \in Id, Exits(i)
  PROVE  Inv'
<1>1. /\ Typed /\ Held(i) /\ Said(i) /\ (Busy(i) => i <= spawned /\ record[i] # NoRecord)
      /\ host # "off" /\ process[i] = "running"
      /\ process' = [process EXCEPT ![i] = "exited"]
      /\ Rejected(i, TRUE)
      /\ cleaning' = [cleaning EXCEPT ![i] = Awaited(i)]
      /\ UNCHANGED <<host, bounds, recovered, posted, renewing, toRenew, toStop, leaked>>
  BY DEF Inv, Known, Exits, Running, Alive
<1>2. /\ process' \in [Id -> {"none", "running", "exited"}] /\ process'[i] = "exited"
      /\ \A j \in Id \ {i} : process'[j] = process[j]
  BY <1>1, Types
<1>3. /\ cleaning' \in [Id -> [Cleaner -> [at : At, rpc : BOOLEAN]]]
      /\ \A j \in Id \ {i} : cleaning'[j] = cleaning[j]
      /\ \A c \in Cleaner : /\ cleaning'[i][c] # NotCleaning <=> cleaning[i][c] # NotCleaning
                            /\ cleaning[i][c] = NotCleaning => cleaning'[i][c] = NotCleaning
  <2>1. cleaning'[i] = Awaited(i)
    BY <1>1, Types
  <2> QED
    BY <1>1, <2>1, Told, Types
<1>4. /\ spawning' \in [Id -> {"no", "state", "rejected", "register"}]
      /\ spawning[i] \in {"no", "state", "rejected", "register"}
      /\ spawning[i] = "rejected" => spawning'[i] = "no"
      /\ spawning[i] = "state" => spawning'[i] = "rejected"
      /\ spawning[i] \in {"no", "register"} => spawning'[i] = spawning[i]
      /\ \A j \in Id \ {i} : spawning'[j] = spawning[j]
      /\ calling' \subseteq calling
      /\ \A j \in Id \ {i} : (j \in calling') <=> (j \in calling)
  <2>1. TRUE \in BOOLEAN
    OBVIOUS
  <2> QED
    BY <1>1, <2>1, Rejects, Types
<1>5. /\ crossed \subseteq crossed' /\ crossed' \subseteq crossed \cup {i}
      /\ i \notin crossed' => ~Registering(i) /\ i \notin crossed
      /\ i \in crossed' => i \in 1..spawned
  <2>1. crossed' = Crossed(i)
    BY DEF Exits
  <2>2. Registering(i) => i \in 1..spawned
    BY <1>1, Ids DEF Registering, Busy, Typed, Groups
  <2> QED
    BY <1>1, <2>1, <2>2, Crosses DEF Crossed, Typed, Groups
<1>6. HostStays
  BY <1>1 DEF HostStays, bounds
<1>7. i \notin crossed' /\ i \in 1..spawned =>
        /\ i \notin posted /\ (\A r \in Renewer : renewing[i][r] = NoRecord)
        /\ spawning'[i] \notin {"state", "register"} /\ (i \in beating => resources[i].pi)
  BY <1>1, <1>4, <1>5 DEF Registering, Said
<1>8. Host'
  BY <1>1 DEF Typed, Host, bounds
<1>9. ASSUME resources'[i].bound => resources[i].bound
      PROVE  Held(i)'
  <2>1. spawning'[i] # "no" => cleaning'[i]["spawn"] = NotCleaning
    BY <1>1, <1>3, <1>4 DEF Held, Cleaner
  <2>2. cleaning'[i]["shutdown"] # NotCleaning => host' \in {"shutting", "stuck"}
    BY <1>1, <1>3 DEF Held, Cleaner
  <2>3. \A c \in Cleaner : cleaning'[i][c] # NotCleaning => ~resources'[i].bound
    BY <1>1, <1>3, <1>9 DEF Held
  <2>4. process'[i] = "exited"
    BY <1>2
  <2> QED
    BY <2>1, <2>2, <2>3, <2>4 DEF Held
<1>10. CASE ~Unexpected(i)
  <2>1. UNCHANGED <<file, live, record, resources, exiting, beating>>
    BY <1>10 DEF Exits
  <2>2. \A j \in Id \ {i} : Same(j)
    BY <1>1, <1>2, <1>3, <1>4, <1>5, <2>1 DEF Same
  <2>3. Typed'
    <3>1. Files' /\ LiveOK'
      BY <1>1, <2>1 DEF Typed, Files, LiveOK
    <3>2. Groups'
      BY <1>1, <1>4, <1>5, <2>1 DEF Typed, Groups, bounds
    <3>3. Tables'
      BY <1>1, <1>2, <1>3, <1>4, <2>1 DEF Typed, Tables
    <3> QED
      BY <1>8, <3>1, <3>2, <3>3 DEF Typed
  <2>4. Held(i)'
    BY <1>9, <2>1
  <2>5. Said(i)'
    <3> SUFFICES ASSUME i \notin crossed', i \in 1..spawned PROVE Said(i)'
      BY <1>1 DEF Said, bounds
    <3>1. Ending(i)' => Ending(i)
      BY <1>3, <2>1 DEF Ending
    <3>2. UNCHANGED <<host, record, file, live, posted, beating, renewing, resources>>
      BY <1>1, <2>1
    <3> QED
      BY <1>1, <1>5, <1>7, <3>1, <3>2 DEF Said, Quiet, Serving
  <2>6. Busy(i)' => i <= spawned /\ record'[i] # NoRecord
    BY <1>1, <1>3, <1>4, <2>1 DEF Busy
  <2> QED
    BY <1>5, <1>6, <2>1, <2>2, <2>3, <2>4, <2>5, <2>6, Assemble
<1>11. CASE Unexpected(i)
  <2> DEFINE rec == [record[i] EXCEPT !.status = "error"]
  <2>1. i \in live /\ i \in 1..spawned /\ record[i] # NoRecord /\ i <= spawned
    BY <1>1, <1>11, Ids DEF Unexpected, Busy
  <2>2. rec \in Record /\ rec # NoRecord /\ rec.status = "error" /\ rec \in Recs
    <3>1. record[i] \in Record /\ "error" \in Status
      BY <1>1, <2>1, Types DEF Recs, Status
    <3> QED
      BY <3>1, WithStatus DEF Recs
  <2>3. /\ Put(i, rec)
        /\ resources' = [resources EXCEPT ![i].rpc = FALSE, ![i].bound = FALSE]
        /\ \/ /\ resources[i].pi /\ exiting' = exiting \cup {i} /\ beating' = beating \ {i}
              /\ live' = live
           \/ ~resources[i].pi /\ live' = live \ {i} /\ exiting' = exiting /\ beating' = beating
    BY <1>11 DEF Exits
  <2> HIDE DEF rec
  <2>4. /\ record' \in [Id -> Recs] /\ file' \in [Id -> Recs]
        /\ record'[i] = rec /\ file'[i] = rec
        /\ \A j \in Id \ {i} : record'[j] = record[j] /\ file'[j] = file[j]
    BY <1>1, <2>2, <2>3, Puts
  <2>5. /\ resources' \in [Id -> [rpc : BOOLEAN, pi : BOOLEAN, bound : BOOLEAN]]
        /\ ~resources'[i].bound /\ resources'[i].pi = resources[i].pi
        /\ \A j \in Id \ {i} : resources'[j] = resources[j]
    BY <1>1, <2>3, Types
  <2>6. \A j \in Id \ {i} : Same(j)
    BY <1>1, <1>2, <1>3, <1>4, <1>5, <2>3, <2>4, <2>5 DEF Same
  <2>7. Typed'
    <3>1. Files'
      BY <1>1, <2>4, Types DEF Files
    <3>2. Groups'
      BY <1>1, <1>4, <1>5, <2>1, <2>3 DEF Typed, Groups, bounds
    <3>3. Tables'
      BY <1>1, <1>2, <1>3, <1>4, <2>5 DEF Typed, Tables
    <3>4. LiveOK'
      BY <1>1, <2>2, <2>3, <2>4, <2>5, Ids DEF Typed, LiveOK, Groups
    <3> QED
      BY <1>8, <3>1, <3>2, <3>3, <3>4 DEF Typed
  <2>8. Held(i)'
    BY <1>9, <2>5
  <2>9. Said(i)'
    <3> SUFFICES ASSUME i \notin crossed' PROVE Said(i)'
      BY DEF Said
    <3>1. i \notin beating'
      BY <1>7, <2>1, <2>3
    <3>2. Quiet(rec)
      BY <2>2 DEF Quiet
    <3>3. /\ spawning'[i] \notin {"state", "register"}
          /\ i \notin posted' \cup beating' /\ \A r \in Renewer : renewing'[i][r] = NoRecord
      BY <1>1, <1>7, <2>1, <3>1
    <3> QED
      BY <2>2, <2>4, <3>2, <3>3 DEF Said, Quiet
  <2>10. live' \subseteq live
    BY <2>3
  <2> QED
    BY <1>5, <1>6, <2>1, <2>2, <2>4, <2>6, <2>7, <2>8, <2>9, <2>10, Assemble
<1> QED
  BY <1>10, <1>11

----------------------------------------------------------------------------
(* The orchestrator itself *)

(* The keys of the map, in order.                                           *)
LEMMA Ordered ==
  ASSUME Typed, NEW s \in InOrder(live)
  PROVE  s \in Seq(Id)
<1>1. live \subseteq 1..spawned /\ live \subseteq Id /\ spawned \in Nat
  BY Ids DEF Typed, Groups
<1>2. IsFiniteSet(1..spawned)
  BY <1>1, FS_Interval
<1>3. IsFiniteSet(live)
  BY <1>1, <1>2, FS_Subset
<1>4. Cardinality(live) \in Nat
  BY <1>3, FS_CardinalityType
<1> DEFINE n == Cardinality(live)
<1>5. s \in [1..n -> live] /\ n \in Nat
  BY <1>4 DEF InOrder
<1> HIDE DEF n
<1>6. s \in [1..n -> Id]
  BY <1>1, <1>5
<1>7. \A S : [1..n -> S] \subseteq Seq(S)
  BY <1>5
<1> QED
  BY <1>6, <1>7

(* A child is started, and its exit is heard of.                            *)
LEMMA SpawnKeeps ==
  ASSUME Inv, Spawn
  PROVE  Inv'
<1> DEFINE rec == [status |-> "starting", pi |-> FALSE]
<1>0. PICK i \in Id : i = spawned + 1
  BY Ids DEF Inv, Spawn, Id
<1>1. /\ Typed /\ host # "off" /\ spawned < MaxInstances /\ spawned' = i
      /\ live' = live \cup {i} /\ Put(i, rec)
      /\ resources' = [resources EXCEPT ![i] = [rpc |-> TRUE, pi |-> FALSE, bound |-> TRUE]]
      /\ process' = [process EXCEPT ![i] = "running"]
      /\ spawning' = [spawning EXCEPT ![i] = "state"]
      /\ crossed' = IF host = "recovering" THEN crossed \cup {i} ELSE crossed
      /\ UNCHANGED <<host, lives, recovered, cleaning, exiting, calling, radius, toStop, leaked>>
  BY <1>0 DEF Inv, Spawn, Running, Alive
<1>2. /\ i \in Nat /\ spawned \in Nat /\ i \notin 1..spawned /\ spawned' \in 0..MaxInstances
      /\ 1..spawned \subseteq 1..spawned' /\ i \in 1..spawned'
      /\ \A j \in Id \ {i} : j \in 1..spawned' => j \in 1..spawned
      /\ \A j \in Id : j <= spawned => j <= spawned'
  BY <1>0, <1>1, Ids DEF Id
<1>3. ~Busy(i)
  BY <1>0, <1>2, Ids DEF Inv, Known
<1>4. rec \in Record /\ rec # NoRecord /\ rec \in Recs
  <2>1. rec \in Record
    BY DEF Record, Status
  <2> QED
    BY <2>1, RecordAssumption DEF Recs
<1> HIDE DEF rec
<1>5. /\ record' \in [Id -> Recs] /\ file' \in [Id -> Recs]
      /\ record'[i] # NoRecord /\ file'[i] # NoRecord
      /\ \A j \in Id \ {i} : record'[j] = record[j] /\ file'[j] = file[j]
  BY <1>1, <1>4, Puts
<1>6. /\ resources' \in [Id -> [rpc : BOOLEAN, pi : BOOLEAN, bound : BOOLEAN]]
      /\ resources'[i].rpc /\ resources'[i].bound
      /\ process' \in [Id -> {"none", "running", "exited"}]
      /\ spawning' \in [Id -> {"no", "state", "rejected", "register"}] /\ spawning'[i] = "state"
      /\ \A j \in Id \ {i} : /\ resources'[j] = resources[j] /\ process'[j] = process[j]
                             /\ spawning'[j] = spawning[j]
  BY <1>1, <1>2, Types
<1>7. \A j \in Id \ {i} : Same(j)
  BY <1>1, <1>5, <1>6 DEF Same, radius
<1>8. Typed'
  <2>1. Files'
    BY <1>1, <1>5, Types DEF Files
  <2>2. Groups'
    BY <1>1, <1>2 DEF Typed, Groups, radius
  <2>3. Tables'
    BY <1>1, <1>6, Types DEF Tables, radius
  <2>4. Host'
    <3>1. troubles' \in 0..MaxTroubles
      BY <1>1, Ids DEF Spawn, Costs, Typed, Host
    <3> QED
      BY <1>1, <1>2, <3>1 DEF Typed, Host, radius
  <2>5. LiveOK'
    <3> SUFFICES ASSUME NEW j \in live'
                 PROVE  record'[j] # NoRecord /\ (resources'[j].bound => resources'[j].rpc)
      BY DEF LiveOK
    <3>1. CASE j = i
      BY <1>5, <1>6, <3>1
    <3>2. CASE j # i
      <4>1. j \in live /\ j \in Id
        BY <1>1, <3>2, Ids DEF Typed, Groups
      <4> QED
        BY <1>1, <1>5, <1>6, <3>2, <4>1 DEF Typed, LiveOK
    <3> QED
      BY <3>1, <3>2
  <2> QED
    BY <2>1, <2>2, <2>3, <2>4, <2>5 DEF Typed
<1>9. /\ cleaning'[i] = cleaning[i] /\ \A c \in Cleaner : cleaning[i][c] = NotCleaning
      /\ i \notin exiting' /\ i \notin beating' \cup posted'
      /\ i \in live'
  BY <1>1, <1>2, <1>3 DEF Busy, Typed, Groups, radius
<1>10. Held(i)'
  <2>1. \A c \in Cleaner : cleaning'[i][c] = NotCleaning
    BY <1>9
  <2>2. \A c \in Cleaner : cleaning'[i][c].at # "disposed"
    BY <2>1 DEF NotCleaning
  <2> QED
    BY <1>6, <1>9, <2>1, <2>2 DEF Held, Cleaner
<1>11. Said(i)'
  <2>1. ~Ending(i)'
    BY <1>9 DEF Ending
  <2> QED
    BY <1>5, <1>6, <1>9, <2>1 DEF Said
<1>12. ASSUME NEW j \in Id
       PROVE  Held(j)' /\ Said(j)' /\ (Busy(j)' => j <= spawned' /\ record'[j] # NoRecord)
  <2>1. CASE j = i
    <3>1. i <= spawned'
      BY <1>1, <1>2
    <3> QED
      BY <1>5, <1>10, <1>11, <2>1, <3>1
  <2>2. CASE j # i
    BY <1>1, <1>2, <1>7, <2>2, SameKeeps DEF Serving
  <2> QED
    BY <2>1, <2>2
<1>13. Starting'
  BY <1>1 DEF Inv, Starting, Quiet
<1> QED
  BY <1>8, <1>12, <1>13 DEF Inv, Known

(* Radius has forgotten the machine.                                        *)
LEMMA MachineUnknownKeeps ==
  ASSUME Inv, MachineUnknown
  PROVE  Inv'
<1>1. /\ Typed /\ Starting /\ toRenew' \in InOrder(live)
      /\ troubles + 1 <= MaxTroubles /\ troubles' = troubles + 1
      /\ UNCHANGED <<host, lives, spawned, file, recovered, live, record, resources, process,
                     spawning, cleaning, exiting, calling, beating, posted, renewing, toStop, history>>
  BY DEF Inv, MachineUnknown, Trouble, Costs
<1>2. Host'
  BY <1>1, Ordered, Ids DEF Typed, Host
<1>3. Typed'
  BY <1>1, <1>2 DEF Typed, Files, Groups, Tables, LiveOK, history
<1>4. \A j \in Id : Same(j)
  BY <1>1 DEF Same, history
<1>5. Starting'
  BY <1>1 DEF Starting, Quiet, history
<1> QED
  BY <1>1, <1>3, <1>4, <1>5, AllSame DEF Serving

(* reRegisterMachineAndPis() comes to the next instance, if it is still    *)
(* there.                                                                  *)
LEMMA MachineRenewsKeeps ==
  ASSUME Inv, MachineRenews
  PROVE  Inv'
<1>0. PICK i \in Id : i = Head(toRenew)
  BY DEF Inv, MachineRenews, Typed, Host
<1>1. /\ Typed /\ toRenew' \in Seq(Id) /\ host # "off" /\ Renew(i, "machine")
      /\ UNCHANGED <<host, bounds, file, recovered, live, record, resources, process, spawning,
                     cleaning, exiting, calling, posted, toStop, leaked>>
  BY <1>0 DEF Inv, MachineRenews, Running, Alive, Typed, Host
<1>2. /\ Held(i) /\ Said(i) /\ (Busy(i) => i <= spawned /\ record[i] # NoRecord)
      /\ "machine" \in Renewer /\ (i \in live => Busy(i))
  BY <1>1 DEF Inv, Known, Renewer, Busy
<1>3. /\ renewing' \in [Id -> [Renewer -> Recs]]
      /\ \A j \in Id \ {i} : renewing'[j] = renewing[j]
      /\ i \notin live => renewing' = renewing
  <2>1. renewing' = renewing \/ renewing' = [renewing EXCEPT ![i]["machine"] = record[i]]
    BY <1>1 DEF Renew
  <2>2. record[i] \in Recs /\ renewing[i] \in [Renewer -> Recs]
    BY <1>1, Types
  <2>3. [renewing[i] EXCEPT !["machine"] = record[i]] \in [Renewer -> Recs]
    BY <1>2, <2>2
  <2> QED
    BY <1>1, <2>1, <2>3, Types DEF Renew
<1>4. /\ crossed \subseteq crossed' /\ crossed' \subseteq crossed \cup live
      /\ \A j \in Id \ {i} : (j \in crossed') <=> (j \in crossed)
      /\ i \in live /\ Ending(i) => i \in crossed'
      /\ beating' \subseteq beating /\ \A j \in Id \ {i} : (j \in beating') <=> (j \in beating)
  BY <1>1 DEF Renew
<1>5. HostStays
  BY <1>1 DEF HostStays, bounds
<1>6. \A j \in Id \ {i} : Same(j)
  BY <1>1, <1>3, <1>4 DEF Same
<1>7. Typed'
  <2>1. Files' /\ LiveOK'
    BY <1>1 DEF Typed, Files, LiveOK
  <2>2. Groups'
    BY <1>1, <1>4 DEF Typed, Groups, bounds
  <2>3. Tables'
    BY <1>1, <1>3 DEF Typed, Tables
  <2>4. Host'
    BY <1>1 DEF Typed, Host, bounds
  <2> QED
    BY <2>1, <2>2, <2>3, <2>4 DEF Typed
<1>8. Held(i)'
  BY <1>1, <1>2 DEF Held
<1>9. Said(i)'
  <2>1. CASE i \in live /\ ~Ending(i)
    BY <1>1, <1>2, <1>4, <2>1 DEF Said, Ending, Serving, bounds
  <2>2. CASE i \in live /\ Ending(i)
    BY <1>4, <2>2 DEF Said
  <2>3. CASE i \notin live
    BY <1>1, <1>2, <1>3, <1>4, <2>3 DEF Said, Ending, Serving, Quiet, bounds
  <2> QED
    BY <2>1, <2>2, <2>3
<1>10. Busy(i)' => i <= spawned /\ record'[i] # NoRecord
  BY <1>1, <1>2, <1>3 DEF Busy
<1> QED
  BY <1>1, <1>4, <1>5, <1>6, <1>7, <1>8, <1>9, <1>10, Assemble

(* What was online or starting is neither any more.                         *)
LEMMA RestartedOnes ==
  ASSUME Typed
  PROVE  Restarted \in [Id -> Recs] /\ \A i \in Id : Quiet(Restarted[i])
<1>1. ASSUME NEW i \in Id
      PROVE  Restarted[i] \in Recs /\ Quiet(Restarted[i])
  <2>1. file[i] \in Recs
    BY Types
  <2>2. CASE file[i] # NoRecord /\ file[i].status \in {"online", "starting"}
    <3>1. file[i] \in Record /\ "stopped" \in Status
      BY <2>1, <2>2 DEF Recs, Status
    <3>2. Restarted[i] = [file[i] EXCEPT !.status = "stopped"]
      BY <2>2 DEF Restarted
    <3> QED
      BY <3>1, <3>2, WithStatus DEF Recs, Quiet
  <2>3. CASE ~(file[i] # NoRecord /\ file[i].status \in {"online", "starting"})
    BY <2>1, <2>3 DEF Restarted, Quiet
  <2> QED
    BY <2>2, <2>3
<1>2. Restarted = [i \in Id |-> Restarted[i]]
  BY DEF Restarted
<1> QED
  BY <1>1, <1>2

(* recoverAfterRestart() reads the file: nothing it will write is online.  *)
LEMMA ServeKeeps ==
  ASSUME Inv, Serve
  PROVE  Inv'
<1>1. /\ Typed /\ Starting /\ host = "off" /\ lives < MaxLives /\ lives' = lives + 1
      /\ host' = "recovering" /\ recovered' = Restarted
      /\ UNCHANGED <<spawned, file, live, record, resources, process, spawning,
                     cleaning, exiting, calling, radius, toStop, history>>
  BY DEF Inv, Serve
<1>2. Host'
  <2>1. troubles' \in 0..MaxTroubles
    BY <1>1, Ids DEF Serve, Costs, Typed, Host
  <2> QED
    BY <1>1, <2>1, Ids DEF Typed, Host, radius
<1>3. Typed'
  <2>1. Files'
    BY <1>1, RestartedOnes, Types DEF Files
  <2> QED
    BY <1>1, <1>2, <2>1 DEF Typed, Groups, Tables, LiveOK, history, radius
<1>4. \A j \in Id : Same(j)
  BY <1>1 DEF Same, history, radius
<1>5. Starting'
  BY <1>1, RestartedOnes DEF Starting, Quiet
<1> QED
  BY <1>1, <1>3, <1>4, <1>5, AllSame DEF Serving

(* What was spawned meanwhile is forgotten by the file; it has been noted  *)
(* as crossed.                                                             *)
LEMMA RecoversKeeps ==
  ASSUME Inv, Recovers
  PROVE  Inv'
<1>1. /\ Typed /\ Starting /\ host = "recovering" /\ host' = "up" /\ file' = recovered
      /\ recovered' = None
      /\ UNCHANGED <<bounds, live, record, resources, process, spawning, cleaning, exiting,
                     calling, radius, toStop, history>>
  BY DEF Inv, Recovers
<1>2. Typed'
  <2>1. Files'
    BY <1>1, Types DEF Files, None, Recs
  <2>2. Host'
    BY <1>1 DEF Typed, Host, bounds, radius
  <2> QED
    BY <1>1, <2>1, <2>2 DEF Typed, Groups, Tables, LiveOK, history, radius, bounds
<1>3. ASSUME NEW j \in Id
      PROVE  Held(j)' /\ Said(j)' /\ (Busy(j)' => j <= spawned' /\ record'[j] # NoRecord)
  <2>1. Held(j) /\ Said(j) /\ (Busy(j) => j <= spawned /\ record[j] # NoRecord)
    BY DEF Inv, Known
  <2>2. Held(j)'
    BY <1>1, <2>1 DEF Held, history
  <2>3. Busy(j)' => j <= spawned' /\ record'[j] # NoRecord
    BY <1>1, <2>1 DEF Busy, radius, bounds
  <2>4. Said(j)'
    <3> SUFFICES ASSUME j \notin crossed' PROVE Said(j)'
      BY DEF Said
    <3>1. j \notin live /\ Quiet(file'[j])
      BY <1>1 DEF Starting, history
    <3> QED
      BY <1>1, <2>1, <3>1 DEF Said, Quiet, Ending, history, radius, bounds
  <2> QED
    BY <2>2, <2>3, <2>4
<1>4. Starting'
  BY <1>1 DEF Starting
<1> QED
  BY <1>2, <1>3, <1>4 DEF Inv, Known

(* shutdown() begins.                                                      *)
LEMMA ShutdownKeeps ==
  ASSUME Inv, Shutdown
  PROVE  Inv'
<1>1. /\ Typed /\ Starting /\ host = "up" /\ host' = "shutting" /\ toStop' \in InOrder(live)
      /\ UNCHANGED <<bounds, file, recovered, live, record, resources, process, spawning,
                     cleaning, exiting, calling, radius, history>>
  BY DEF Inv, Shutdown
<1>2. Host'
  BY <1>1, Ordered DEF Typed, Host, bounds, radius
<1>3. Typed'
  BY <1>1, <1>2 DEF Typed, Files, Groups, Tables, LiveOK, history, radius, bounds
<1>4. \A j \in Id : Same(j)
  BY <1>1 DEF Same, history, radius
<1>5. Starting'
  BY <1>1 DEF Starting
<1> QED
  BY <1>1, <1>3, <1>4, <1>5, AllSame DEF Serving, bounds

(* shutdown() comes to the next instance, if it is still there.            *)
LEMMA ShutdownStopsKeeps ==
  ASSUME Inv, ShutdownStops
  PROVE  Inv'
<1>0. PICK i \in Id : i = Head(toStop)
  BY DEF Inv, ShutdownStops, Typed, Host
<1>1. /\ Typed /\ Starting /\ host = "shutting" /\ host' = host /\ UNCHANGED bounds
      /\ toStop' \in Seq(Id)
      /\ IF i \in live THEN Stop(i, "shutdown")
         ELSE UNCHANGED <<file, recovered, live, record, resources, process, spawning, cleaning,
                          exiting, calling, radius, history>>
  BY <1>0 DEF Inv, ShutdownStops, Typed, Host
<1>2. CASE i \in live
  <2>1. /\ Cleanup(i, "shutdown", "stopping") /\ cleaning[i]["shutdown"] = NotCleaning
        /\ "shutdown" \in Cleaner /\ "stopping" \in {"stopping", "error"} /\ host # "off"
        /\ UNCHANGED <<host, bounds, recovered, process, exiting, posted, renewing, toRenew, leaked>>
    BY <1>1, <1>2 DEF Stop, Cleaner
  <2> QED
    BY <1>1, <1>2, <2>1, LiveOnes, CleanupKeeps
<1>3. CASE i \notin live
  <2>1. UNCHANGED <<file, recovered, live, record, resources, process, spawning, cleaning,
                    exiting, calling, radius, history>>
    BY <1>1, <1>3
  <2>2. Typed'
    BY <1>1, <2>1 DEF Typed, Files, Groups, Tables, LiveOK, Host, history, radius, bounds
  <2>3. \A j \in Id : Same(j)
    BY <2>1 DEF Same, history, radius
  <2>4. Starting'
    BY <1>1 DEF Starting
  <2> QED
    BY <1>1, <2>2, <2>3, <2>4, AllSame DEF Serving, bounds
<1> QED
  BY <1>2, <1>3

(* The machine cannot be disconnected: the orchestrator stays, without     *)
(* heartbeats.                                                             *)
LEMMA ExitFailsKeeps ==
  ASSUME Inv, ExitFails
  PROVE  Inv'
<1>1. /\ Typed /\ host = "shutting" /\ host' = "stuck" /\ beating' = {}
      /\ troubles + 1 <= MaxTroubles /\ troubles' = troubles + 1
      /\ UNCHANGED <<lives, spawned, file, recovered, live, record, resources, process,
                     spawning, cleaning, exiting, calling, posted, renewing, toRenew, toStop, history>>
  BY DEF Inv, ExitFails, Trouble, Costs
<1>2. Host'
  BY <1>1, Ids DEF Typed, Host
<1>3. Typed'
  BY <1>1, <1>2 DEF Typed, Files, Groups, Tables, LiveOK, history
<1>4. ASSUME NEW j \in Id
      PROVE  Held(j)' /\ Said(j)' /\ (Busy(j)' => j <= spawned' /\ record'[j] # NoRecord)
  <2>1. Held(j) /\ Said(j) /\ (Busy(j) => j <= spawned /\ record[j] # NoRecord)
    BY DEF Inv, Known
  <2>2. Held(j)'
    BY <1>1, <2>1 DEF Held, history
  <2>3. Busy(j)' => j <= spawned' /\ record'[j] # NoRecord
    BY <1>1, <2>1 DEF Busy
  <2>4. Said(j)'
    BY <1>1, <2>1 DEF Said, Quiet, Ending, Serving, history
  <2> QED
    BY <2>2, <2>3, <2>4
<1>5. Starting'
  BY <1>1 DEF Starting
<1> QED
  BY <1>3, <1>4, <1>5 DEF Inv, Known

(* With the process goes all that was in memory, and only that.             *)
LEMMA ForgottenKeeps ==
  ASSUME Files, Host, Forgotten, host' = "off", UNCHANGED <<bounds, file>>
  PROVE  Inv'
<1>1. /\ live' = {} /\ exiting' = {} /\ calling' = {} /\ beating' = {} /\ posted' = {}
      /\ leaked' = {} /\ crossed' = {} /\ toRenew' = <<>> /\ toStop' = <<>>
      /\ \A j \in Id : /\ record'[j] = NoRecord /\ resources'[j] = Nobody /\ process'[j] = "none"
                       /\ spawning'[j] = "no"
                       /\ \A c \in Cleaner : cleaning'[j][c] = NotCleaning
                       /\ \A r \in Renewer : renewing'[j][r] = NoRecord
  BY DEF Forgotten, None
<1>2. Typed'
  <2>1. Files'
    BY DEF Files, Forgotten, None, Recs
  <2>2. Groups' /\ LiveOK'
    BY <1>1 DEF Groups, LiveOK
  <2>3. Tables'
    BY Marks DEF Tables, Forgotten, Recs
  <2>4. Host'
    BY <1>1 DEF Host, bounds
  <2> QED
    BY <2>1, <2>2, <2>3, <2>4 DEF Typed
<1>3. ASSUME NEW j \in Id
      PROVE  Held(j)' /\ Said(j)' /\ ~Busy(j)'
  <2>1. Held(j)'
    BY <1>1, Marks DEF Held, Cleaner
  <2>2. Said(j)'
    BY <1>1 DEF Said, Quiet, Serving
  <2>3. ~Busy(j)'
    BY <1>1 DEF Busy
  <2> QED
    BY <2>1, <2>2, <2>3
<1>4. Starting'
  BY <1>1 DEF Starting
<1> QED
  BY <1>2, <1>3, <1>4 DEF Inv, Known

(* Before the first start there is nothing.                                *)
LEMMA InitHolds ==
  ASSUME Init
  PROVE  Inv
<1>1. /\ host = "off" /\ spawned = 0
      /\ live = {} /\ exiting = {} /\ calling = {} /\ beating = {} /\ posted = {}
      /\ leaked = {} /\ crossed = {} /\ toRenew = <<>> /\ toStop = <<>>
      /\ \A j \in Id : /\ record[j] = NoRecord /\ resources[j] = Nobody /\ process[j] = "none"
                       /\ spawning[j] = "no"
                       /\ \A c \in Cleaner : cleaning[j][c] = NotCleaning
                       /\ \A r \in Renewer : renewing[j][r] = NoRecord
  BY DEF Init, None
<1>2. Typed
  <2>1. Files
    BY DEF Files, Init, None, Recs
  <2>2. Groups /\ LiveOK
    BY <1>1 DEF Groups, LiveOK
  <2>3. Tables
    BY Marks DEF Tables, Init, Recs
  <2>4. Host
    BY BoundAssumption DEF Host, Init
  <2> QED
    BY <2>1, <2>2, <2>3, <2>4 DEF Typed
<1>3. ASSUME NEW j \in Id
      PROVE  Held(j) /\ Said(j) /\ ~Busy(j)
  <2>1. Held(j)
    BY <1>1, Marks DEF Held, Cleaner
  <2>2. Said(j)
    BY <1>1 DEF Said
  <2>3. ~Busy(j)
    BY <1>1 DEF Busy
  <2> QED
    BY <2>1, <2>2, <2>3
<1>4. Starting
  BY <1>1 DEF Starting
<1> QED
  BY <1>2, <1>3, <1>4 DEF Inv, Known

----------------------------------------------------------------------------
(* The invariant, and what follows from it *)

(* Every step of clients, children, Radius and the orchestrator keeps it.  *)
LEMMA NextKeeps ==
  ASSUME Inv, [Next]_vars
  PROVE  Inv'
<1>1. CASE Spawn \/ MachineUnknown \/ MachineRenews \/ Serve \/ Recovers \/ Shutdown
  BY <1>1, SpawnKeeps, MachineUnknownKeeps, MachineRenewsKeeps, ServeKeeps, RecoversKeeps,
     ShutdownKeeps
<1>2. CASE Exit \/ Crash
  <2>1. Files /\ Host
    BY DEF Inv, Typed
  <2> QED
    BY <1>2, <2>1, ForgottenKeeps DEF Exit, Crash
<1>3. CASE ShutdownStops \/ ExitFails
  BY <1>3, ShutdownStopsKeeps, ExitFailsKeeps
<1>4. ASSUME NEW i \in Id,
             \/ ClientStops(i) \/ Call(i) \/ CallAnswered(i)
             \/ GotState(i) \/ Registered(i) \/ SpawnRejected(i)
      PROVE  Inv'
  BY <1>4, ClientStopsKeeps, CallKeeps, CallAnsweredKeeps, GotStateKeeps, RegisteredKeeps,
     SpawnRejectedKeeps
<1>5. ASSUME NEW i \in Id, CleanupStep(i)
      PROVE  Inv'
  BY <1>5, FailSpawnKeeps, DisconnectedKeeps, DisconnectFailsKeeps, DisposedKeeps DEF CleanupStep
<1>6. ASSUME NEW i \in Id,
             \/ Exits(i) \/ ExitHandled(i) \/ ExitHandledBadly(i)
             \/ Beat(i) \/ Unknown(i)
             \/ \E r \in Renewer : Renewed(i, r) \/ RenewFails(i, r)
      PROVE  Inv'
  BY <1>6, ExitsKeeps, ExitHandledKeeps, ExitHandledBadlyKeeps, BeatKeeps, UnknownKeeps,
     RenewedKeeps, RenewFailsKeeps
<1>7. CASE UNCHANGED vars
  <2>1. Typed' /\ Starting' /\ (\A j \in Id : Same(j)) /\ spawned' = spawned /\ host' = host
    BY <1>7 DEF vars, bounds, radius, history, Inv, Typed, Files, Groups, Tables, Host, LiveOK,
       Starting, Quiet, Same
  <2> QED
    BY <2>1, AllSame DEF Serving
<1> QED
  BY <1>1, <1>2, <1>3, <1>4, <1>5, <1>6, <1>7 DEF Next, ShutdownStep

(* What is inductive, and what the theorems below follow from: where the   *)
(* child of each instance is and what is said of it, whichever of          *)
(* stopInstance(), failSpawn(), handleUnexpectedRpcExit() and              *)
(* reRegisterPi() have met there.                                          *)
THEOREM Invariant == Spec => []Inv
<1>1. Init => Inv
  BY InitHolds
<1>2. Inv /\ [Next]_vars => Inv'
  BY NextKeeps
<1> QED
  BY <1>1, <1>2, PTL DEF Spec

(* Every variable has its type, and what is in the map has its record.      *)
THEOREM TypeCorrect == Spec => []TypeOK
<1>1. Inv => TypeOK
  BY DEF Inv, Typed, Files, Groups, Tables, Host, LiveOK, TypeOK, Recs
<1> QED
  BY <1>1, Invariant, PTL

(* No child runs that nobody can stop, unless a disconnect failed.          *)
THEOREM NobodyIsForgotten == Spec => []Attended
<1>1. Inv => Attended
  BY DEF Inv, Held, Attended
<1> QED
  BY <1>1, Invariant, PTL

(* What list and status tell is true of every instance that was not being   *)
(* registered while it ended.                                               *)
THEOREM ToldTruly == Spec => []Truthful
<1>1. Inv => Truthful
  <2> SUFFICES ASSUME Inv, Serving, NEW i \in (1..spawned) \ crossed
               PROVE  IF i \in live THEN file[i] # NoRecord
                      ELSE /\ i \notin beating
                           /\ file[i] # NoRecord => file[i].status \notin {"online", "starting"}
    BY DEF Truthful, Serving
  <2>1. i \in Id
    BY Ids DEF Inv
  <2> QED
    BY <2>1 DEF Inv, Said, Quiet
<1> QED
  BY <1>1, Invariant, PTL

============================================================================
