---------------------------- MODULE GnBeaconing -----------------------------
(***************************************************************************)
(* The periodic beacons of one test component: the requests startBeaconing  *)
(* and stopBeaconing of its adapter control port (ports/AdapterControlPort, *)
(* Management), the beacon thread of its GeoNetworking port (ports/GnPort), *)
(* and the disposal of that port by an unmap request or by a reset of the   *)
(* adapter.                                                                 *)
(*                                                                         *)
(* The component waits for the answer to each map and unmap request, and    *)
(* its control requests are handled in the order they are made: one pc      *)
(* stands for the handler of them all.  A reset runs on another thread.     *)
(* The beacon is abstracted to its header, time and interval to nothing.    *)
(***************************************************************************)
EXTENDS Naturals

CONSTANTS Header,     \* beacon headers of the start requests
          NoHeader,   \* null
          MaxPorts    \* bound: GnPort objects, one per map request

ASSUME HeaderAssumption == NoHeader \notin Header
ASSUME BoundAssumption == MaxPorts \in Nat

Port == 1..MaxPorts
Disposer == {"unmap", "reset"}

VARIABLES
  beaconHeader,  \* Management.beaconHeader
  gnPort,        \* Management.gnPort, 0 for null
  life,          \* whether each port object is registered with its lower layer
  running,       \* GnPort.running
  hasThread,     \* GnPort.beaconThread is not null
  thread,        \* what the beacon thread of each port is doing
  sent,          \* the header it sends
  acPc,          \* what the handler of the control requests is doing
  dPc,           \* what each disposing thread is doing
  dPort,         \* the port it disposes
  abandoned,     \* ports whose connection ended without unmap
  asked          \* headers asked for since the last stop or map request ended

management == <<beaconHeader, gnPort>>
port == <<life, running, hasThread>>
beacon == <<thread, sent>>
dispose == <<dPc, dPort>>
vars == <<management, port, beacon, acPc, dispose, abandoned, asked>>

Init ==
  /\ beaconHeader = NoHeader /\ gnPort = 0
  /\ life = [p \in Port |-> "new"]
  /\ running = [p \in Port |-> FALSE] /\ hasThread = [p \in Port |-> FALSE]
  /\ thread = [p \in Port |-> "none"] /\ sent = [p \in Port |-> NoHeader]
  /\ acPc = "idle"
  /\ dPc = [d \in Disposer |-> "idle"] /\ dPort = [d \in Disposer |-> 0]
  /\ abandoned = {} /\ asked = {}

-----------------------------------------------------------------------------
(* The life of the GeoNetworking port.                                      *)

\* No request of the component is being handled.
Free == acPc = "idle" /\ dPc["unmap"] = "idle"

\* The map request makes a port object, which registers with its layers and then with
\* the management.  The test executor does not map a port twice.
MapPort(p) ==
  /\ Free
  /\ p = gnPort + 1
  /\ \A q \in Port : life[q] = "open" => q \in abandoned
  /\ life' = [life EXCEPT ![p] = "open"]
  /\ running' = [running EXCEPT ![p] = TRUE]
  /\ gnPort' = p
  /\ beaconHeader' = NoHeader
  /\ asked' = {}
  /\ UNCHANGED <<hasThread, beacon, acPc, dispose, abandoned>>

\* The component ends without unmap.
Cut ==
  /\ Free
  /\ abandoned' = {p \in Port : life[p] = "open"}
  /\ UNCHANGED <<management, port, beacon, acPc, dispose, asked>>

\* dispose: the beacon thread is told to end if there is one.
Dispose(d, p) ==
  /\ dPc[d] = "idle" /\ life[p] = "open"
  /\ d = "unmap" => Free /\ p \notin abandoned
  /\ dPort' = [dPort EXCEPT ![d] = p]
  /\ IF running[p] /\ hasThread[p]
     THEN running' = [running EXCEPT ![p] = FALSE] /\ dPc' = [dPc EXCEPT ![d] = "join"]
     ELSE dPc' = [dPc EXCEPT ![d] = "close"] /\ UNCHANGED running
  /\ UNCHANGED <<management, life, hasThread, beacon, acPc, abandoned, asked>>

\* beaconThread.join(): the field is read once more; a stop request may have cleared
\* it, and the exception leaves the port registered.
DisposeJoins(d) ==
  /\ dPc[d] = "join"
  /\ dPc' = [dPc EXCEPT ![d] = IF hasThread[dPort[d]] THEN "joining" ELSE "idle"]
  /\ UNCHANGED <<management, port, beacon, acPc, dPort, abandoned, asked>>

DisposeJoined(d) ==
  /\ dPc[d] = "joining"
  /\ thread[dPort[d]] = "ended"
  /\ dPc' = [dPc EXCEPT ![d] = "close"]
  /\ UNCHANGED <<management, port, beacon, acPc, dPort, abandoned, asked>>

\* super.dispose(): the port leaves its lower layer.
DisposeCloses(d) ==
  /\ dPc[d] = "close"
  /\ life' = [life EXCEPT ![dPort[d]] = "closed"]
  /\ dPc' = [dPc EXCEPT ![d] = "idle"]
  /\ UNCHANGED <<management, running, hasThread, beacon, acPc, dPort, abandoned, asked>>

-----------------------------------------------------------------------------
(* The control requests.  A component that ended makes none, and the next    *)
(* one maps its ports first.                                                *)

\* Management.startBeaconing
Start(h) ==
  /\ Free /\ gnPort \notin abandoned
  /\ beaconHeader' = h
  /\ asked' = asked \cup {h}
  /\ acPc' = IF gnPort = 0 THEN "idle" ELSE "startRun"
  /\ UNCHANGED <<gnPort, port, beacon, dispose, abandoned>>

\* GnPort.startBeaconning
StartRuns ==
  /\ acPc = "startRun"
  /\ running' = [running EXCEPT ![gnPort] = TRUE]
  /\ acPc' = "startThread"
  /\ UNCHANGED <<management, life, hasThread, beacon, dispose, abandoned, asked>>

\* ... makes a thread unless there is one already, even one that has ended.
StartThread ==
  /\ acPc = "startThread"
  /\ IF hasThread[gnPort]
     THEN UNCHANGED <<hasThread, thread>>
     ELSE /\ hasThread' = [hasThread EXCEPT ![gnPort] = TRUE]
          /\ thread' = [thread EXCEPT ![gnPort] = "started"]
  /\ acPc' = "idle"
  /\ UNCHANGED <<management, life, running, sent, dispose, abandoned, asked>>

\* Management.stopBeaconing
Stop ==
  /\ Free /\ gnPort \notin abandoned
  /\ beaconHeader' = NoHeader
  /\ IF gnPort = 0
     THEN acPc' = "idle" /\ asked' = {}
     ELSE acPc' = "stopRun" /\ UNCHANGED asked
  /\ UNCHANGED <<gnPort, port, beacon, dispose, abandoned>>

\* Mutated: the thread is not told to end.
StopAsksNothing ==
  /\ acPc = "stopRun"
  /\ IF hasThread[gnPort]
     THEN acPc' = "stopJoin" /\ UNCHANGED <<running, asked>>
     ELSE acPc' = "idle" /\ asked' = {} /\ UNCHANGED running
  /\ UNCHANGED <<management, life, hasThread, beacon, dispose, abandoned>>

\* GnPort.stopBeaconning
StopRuns ==
  /\ acPc = "stopRun"
  /\ IF hasThread[gnPort]
     THEN /\ running' = [running EXCEPT ![gnPort] = FALSE]
          /\ acPc' = "stopJoin"
          /\ UNCHANGED asked
     ELSE acPc' = "idle" /\ asked' = {} /\ UNCHANGED running
  /\ UNCHANGED <<management, life, hasThread, beacon, dispose, abandoned>>

\* Mutated: the request ends without waiting for the thread.
StopDoesNotJoin ==
  /\ acPc = "stopJoin"
  /\ hasThread' = [hasThread EXCEPT ![gnPort] = FALSE]
  /\ acPc' = "idle"
  /\ asked' = {}
  /\ UNCHANGED <<management, life, running, beacon, dispose, abandoned>>

\* ... waits for the thread, and forgets it.
StopJoined ==
  /\ acPc = "stopJoin"
  /\ thread[gnPort] = "ended"
  /\ hasThread' = [hasThread EXCEPT ![gnPort] = FALSE]
  /\ acPc' = "idle"
  /\ asked' = {}
  /\ UNCHANGED <<management, life, running, beacon, dispose, abandoned>>

-----------------------------------------------------------------------------
(* The beacon thread of port p.                                             *)

\* Mutated: a missing header is not noticed.
BeaconWithoutHeader(p) ==
  /\ thread[p] = "started"
  /\ sent' = [sent EXCEPT ![p] = beaconHeader]
  /\ thread' = [thread EXCEPT ![p] = "loop"]
  /\ UNCHANGED <<management, port, acPc, dispose, abandoned, asked>>

\* The header is read once; without a header the thread ends.
BeaconBegins(p) ==
  /\ thread[p] = "started"
  /\ sent' = [sent EXCEPT ![p] = beaconHeader]
  /\ thread' = [thread EXCEPT ![p] = IF beaconHeader = NoHeader THEN "ended" ELSE "loop"]
  /\ UNCHANGED <<management, port, acPc, dispose, abandoned, asked>>

\* The test of running.
BeaconTests(p) ==
  /\ thread[p] = "loop"
  /\ thread' = [thread EXCEPT ![p] = IF running[p] THEN "send" ELSE "ended"]
  /\ UNCHANGED <<management, port, sent, acPc, dispose, abandoned, asked>>

\* The beacon goes out if the port is still registered, and the thread sleeps.
BeaconSends(p) ==
  /\ thread[p] = "send"
  /\ thread' = [thread EXCEPT ![p] = "loop"]
  /\ UNCHANGED <<management, port, sent, acPc, dispose, abandoned, asked>>

BeaconStep(p) == BeaconBegins(p) \/ BeaconTests(p) \/ BeaconSends(p)

-----------------------------------------------------------------------------
Requests == StartRuns \/ StartThread \/ StopRuns \/ StopJoined

Disposes(d) == DisposeJoins(d) \/ DisposeJoined(d) \/ DisposeCloses(d)

Next ==
  \/ \E p \in Port : MapPort(p) \/ BeaconStep(p) \/ (\E d \in Disposer : Dispose(d, p))
  \/ Cut
  \/ \E h \in Header : Start(h)
  \/ Stop \/ Requests
  \/ \E d \in Disposer : Disposes(d)

Spec == Init /\ [][Next]_vars

\* Threads are scheduled and sleeps end; nobody has to make a request.
FairSpec ==
  /\ Spec
  /\ WF_vars(Requests)
  /\ \A d \in Disposer : WF_vars(Disposes(d))
  /\ \A p \in Port : WF_vars(BeaconStep(p))

-----------------------------------------------------------------------------
(* Properties.                                                             *)

\* Every variable has its type, and a port that has no thread has none running.
TypeOK ==
  /\ beaconHeader \in Header \cup {NoHeader} /\ gnPort \in 0..MaxPorts
  /\ life \in [Port -> {"new", "open", "closed"}]
  /\ running \in [Port -> BOOLEAN] /\ hasThread \in [Port -> BOOLEAN]
  /\ thread \in [Port -> {"none", "started", "loop", "send", "ended"}]
  /\ sent \in [Port -> Header \cup {NoHeader}]
  /\ \A p \in Port : ~hasThread[p] => thread[p] \in {"none", "ended"}
  /\ acPc \in {"idle", "startRun", "startThread", "stopRun", "stopJoin"}
  /\ acPc # "idle" => gnPort # 0
  /\ dPc \in [Disposer -> {"idle", "join", "joining", "close"}]
  /\ dPort \in [Disposer -> 0..MaxPorts]
  /\ \A d \in Disposer : dPc[d] # "idle" => dPort[d] # 0
  /\ abandoned \subseteq Port /\ asked \subseteq Header

\* A port sends a header that is in force, one that was asked for since the last stop
\* or map request ended.
SendsAsked(p) == life[p] = "open" /\ thread[p] \in {"loop", "send"} => sent[p] \in asked

\* Beacons are only sent between a start request and the end of the next stop or map
\* request, and carry a header that was asked for in that time, whatever the thread
\* read, and when (IManagementTA.startBeaconing, stopBeaconing; registerGnPort): unless
\* the connection of the port ended without unmap.
BeaconsWereAsked == \A p \in Port \ abandoned : SendsAsked(p)

\* The thread of port p exists, it was told to end, and its port still knows it.
Ending(p) == hasThread[p] /\ thread[p] # "none" /\ ~running[p]

\* A stop or unmap request waits for a thread that will end: nothing tells it to go on or
\* takes it from the port before, also if a reset disposes of the same port at the same
\* time (stopBeaconning, dispose).
WaitsForEnding ==
  /\ acPc = "stopJoin" => Ending(gnPort)
  /\ dPc["unmap"] \in {"join", "joining"} => Ending(dPort["unmap"])

\* Every stop and unmap request comes to an end: the beacon thread it waits for does
\* not go on for ever (stopBeaconning, dispose), also if a reset interferes.
RequestsEnd == []<>Free
=============================================================================
