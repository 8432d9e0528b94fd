-------------------------- MODULE GnBeaconingProof --------------------------
(***************************************************************************)
(* The proof that beacons are only sent when they were asked for, for every *)
(* set of headers and number of ports, by every port whose connection did   *)
(* not end without unmap.  The inductive invariant says how much the        *)
(* management and its port agree: of these ports only that of the           *)
(* management is open, and the header it keeps was asked for unless a stop  *)
(* request is at work.                                                      *)
(*                                                                         *)
(* Also that a request only waits for a thread that was told to end: the    *)
(* port knows no thread that was not started, and no start request comes    *)
(* while an unmap request waits (ThreadsExist).                             *)
(***************************************************************************)
EXTENDS GnBeaconing, TLAPS

\* Of the ports still in use only the one the management knows is registered with
\* its lower layer.
OnlyOneOpen == \A p \in Port \ abandoned : life[p] = "open" => p = gnPort

\* A port that was not made yet has no thread.
NewPortsAreQuiet == \A p \in Port : p > gnPort => thread[p] = "none"

\* The header a thread will read, and none while a stop request is at work.
HeaderWasAsked ==
  /\ beaconHeader = NoHeader \/ beaconHeader \in asked
  /\ acPc \in {"stopRun", "stopJoin"} => beaconHeader = NoHeader

\* A port has a thread, which was made once, and the requests of the component do not overlap.
ThreadsExist ==
  /\ \A p \in Port : hasThread[p] => thread[p] # "none"
  /\ acPc = "idle" \/ dPc["unmap"] = "idle"

WInv == TypeOK /\ ThreadsExist /\ WaitsForEnding

IInv == /\ TypeOK
        /\ OnlyOneOpen
        /\ NewPortsAreQuiet
        /\ HeaderWasAsked
        /\ BeaconsWereAsked

-----------------------------------------------------------------------------
LEMMA InitInv == Init => IInv
<1> USE BoundAssumption DEF Port, Disposer
<1> QED BY SMT DEF Init, IInv, TypeOK, OnlyOneOpen, NewPortsAreQuiet, HeaderWasAsked,
                   BeaconsWereAsked, SendsAsked

\* A flag of the ports stays one when it is set for a port (running, beaconThread).
LEMMA FlagSet ==
  ASSUME NEW S, NEW f \in [S -> BOOLEAN], NEW x \in S, NEW b \in BOOLEAN
  PROVE  [f EXCEPT ![x] = b] \in [S -> BOOLEAN]
<1> QED BY Zenon

\* Each step of the ports, of the control requests, and of the beacon threads
\* preserves the invariant.
LEMMA NextInv == ASSUME IInv, [Next]_vars PROVE IInv'
<1> USE BoundAssumption, HeaderAssumption
    DEF IInv, TypeOK, OnlyOneOpen, NewPortsAreQuiet, HeaderWasAsked, BeaconsWereAsked, SendsAsked,
        Port, Disposer, management, port, beacon, dispose, Free
<1>1. ASSUME NEW p \in Port, MapPort(p) PROVE IInv'
  BY <1>1, SMT DEF MapPort
<1>2. ASSUME Cut PROVE IInv'
  BY <1>2, SMT DEF Cut
<1>3. ASSUME NEW d \in Disposer, NEW p \in Port, Dispose(d, p) PROVE IInv'
  <2>1. CASE running[p] /\ hasThread[p]
    <3>1. TypeOK'
      <4>1. running' \in [Port -> BOOLEAN]
        BY <1>3, <2>1, FlagSet DEF Dispose
      <4> QED BY <1>3, <2>1, <4>1, SMT DEF Dispose
    <3>2. OnlyOneOpen' /\ NewPortsAreQuiet'
      BY <1>3, <2>1, SMT DEF Dispose
    <3>3. HeaderWasAsked' /\ BeaconsWereAsked'
      BY <1>3, <2>1, SMT DEF Dispose
    <3> QED BY <3>1, <3>2, <3>3 DEF IInv
  <2>2. CASE ~(running[p] /\ hasThread[p])
    BY <1>3, <2>2, SMT DEF Dispose
  <2> QED BY <2>1, <2>2
<1>4. ASSUME NEW d \in Disposer, Disposes(d) PROVE IInv'
  <2>1. CASE DisposeJoins(d) BY <2>1, SMT DEF DisposeJoins
  <2>2. CASE DisposeJoined(d) BY <2>2, SMT DEF DisposeJoined
  <2>3. CASE DisposeCloses(d) BY <2>3, SMT DEF DisposeCloses
  <2> QED BY <1>4, <2>1, <2>2, <2>3 DEF Disposes
<1>5. ASSUME NEW h \in Header, Start(h) PROVE IInv'
  BY <1>5, SMT DEF Start
<1>6. ASSUME Stop PROVE IInv'
  BY <1>6, SMT DEF Stop
<1>7. ASSUME Requests PROVE IInv'
  <2>1. CASE StartRuns BY <2>1, SMT DEF StartRuns
  <2>2. CASE StartThread
    <3>1. CASE hasThread[gnPort]
      BY <2>2, <3>1, SMT DEF StartThread
    <3>2. CASE ~hasThread[gnPort]
      <4>1. TypeOK'
        <5>1. hasThread' \in [Port -> BOOLEAN]
          BY <2>2, <3>2, FlagSet DEF StartThread
        <5> QED BY <2>2, <3>2, <5>1, SMT DEF StartThread
      <4>2. OnlyOneOpen' /\ NewPortsAreQuiet'
        BY <2>2, <3>2, SMT DEF StartThread
      <4>3. HeaderWasAsked' /\ BeaconsWereAsked'
        BY <2>2, <3>2, SMT DEF StartThread
      <4> QED BY <4>1, <4>2, <4>3 DEF IInv
    <3> QED BY <3>1, <3>2
  <2>3. CASE StopRuns
    <3>1. CASE hasThread[gnPort]
      <4>1. TypeOK'
        <5>1. running' \in [Port -> BOOLEAN]
          BY <2>3, <3>1, FlagSet DEF StopRuns
        <5> QED BY <2>3, <3>1, <5>1, SMT DEF StopRuns
      <4>2. OnlyOneOpen' /\ NewPortsAreQuiet'
        BY <2>3, <3>1, SMT DEF StopRuns
      <4>3. HeaderWasAsked' /\ BeaconsWereAsked'
        BY <2>3, <3>1, SMT DEF StopRuns
      <4> QED BY <4>1, <4>2, <4>3 DEF IInv
    <3>2. CASE ~hasThread[gnPort]
      BY <2>3, <3>2, SMT DEF StopRuns
    <3> QED BY <3>1, <3>2
  <2>4. CASE StopJoined BY <2>4, SMT DEF StopJoined
  <2> QED BY <1>7, <2>1, <2>2, <2>3, <2>4 DEF Requests
<1>8. ASSUME NEW p \in Port, BeaconStep(p) PROVE IInv'
  <2>1. CASE BeaconBegins(p) BY <2>1, SMT DEF BeaconBegins
  <2>2. CASE BeaconTests(p) BY <2>2, SMT DEF BeaconTests
  <2>3. CASE BeaconSends(p) BY <2>3, SMT DEF BeaconSends
  <2> QED BY <1>8, <2>1, <2>2, <2>3 DEF BeaconStep
<1>9. CASE UNCHANGED vars
  BY <1>9, SMT DEF vars
<1> QED BY <1>1, <1>2, <1>3, <1>4, <1>5, <1>6, <1>7, <1>8, <1>9 DEF Next

-----------------------------------------------------------------------------
(* The waits.                                                               *)

LEMMA InitWaits == Init => WInv
<1>1. Init => TypeOK
  BY InitInv DEF IInv
<1>2. Init => ThreadsExist
  BY DEF Init, ThreadsExist
<1>3. Init => WaitsForEnding
  BY DEF Init, WaitsForEnding, Disposer
<1> QED BY <1>1, <1>2, <1>3 DEF WInv

LEMMA NextWaits == ASSUME TypeOK', WInv, [Next]_vars PROVE WInv'
<1> SUFFICES ThreadsExist' /\ WaitsForEnding'
  BY DEF WInv
<1> USE BoundAssumption
    DEF WInv, TypeOK, ThreadsExist, WaitsForEnding, Ending,
        Port, Disposer, management, port, beacon, dispose, Free
<1>1. ASSUME NEW p \in Port, MapPort(p) PROVE ThreadsExist' /\ WaitsForEnding'
  BY <1>1, SMT DEF MapPort
<1>2. CASE Cut
  BY <1>2, SMT DEF Cut
<1>3. ASSUME NEW d \in Disposer, NEW p \in Port, Dispose(d, p)
      PROVE  ThreadsExist' /\ WaitsForEnding'
  <2>1. CASE running[p] /\ hasThread[p]
    BY <1>3, <2>1, SMT DEF Dispose
  <2>2. CASE ~(running[p] /\ hasThread[p])
    BY <1>3, <2>2, SMT DEF Dispose
  <2> QED BY <2>1, <2>2
<1>4. ASSUME NEW d \in Disposer, Disposes(d) PROVE ThreadsExist' /\ WaitsForEnding'
  <2>1. CASE DisposeJoins(d) BY <2>1, SMT DEF DisposeJoins
  <2>2. CASE DisposeJoined(d) BY <2>2, SMT DEF DisposeJoined
  <2>3. CASE DisposeCloses(d) BY <2>3, SMT DEF DisposeCloses
  <2> QED BY <1>4, <2>1, <2>2, <2>3 DEF Disposes
<1>5. ASSUME NEW b \in Header, Start(b) PROVE ThreadsExist' /\ WaitsForEnding'
  BY <1>5, SMT DEF Start
<1>6. CASE Stop
  BY <1>6, SMT DEF Stop
<1>7. CASE StartRuns
  BY <1>7, SMT DEF StartRuns
<1>8. CASE StartThread
  BY <1>8, SMT DEF StartThread
<1>9. CASE StopRuns
  BY <1>9, SMT DEF StopRuns
<1>10. CASE StopJoined
  BY <1>10, SMT DEF StopJoined
<1>11. ASSUME NEW p \in Port, BeaconStep(p) PROVE ThreadsExist' /\ WaitsForEnding'
  <2>1. CASE BeaconBegins(p) BY <2>1, SMT DEF BeaconBegins
  <2>2. CASE BeaconTests(p) BY <2>2, SMT DEF BeaconTests
  <2>3. CASE BeaconSends(p) BY <2>3, SMT DEF BeaconSends
  <2> QED BY <1>11, <2>1, <2>2, <2>3 DEF BeaconStep
<1>12. CASE UNCHANGED vars
  BY <1>12, SMT DEF vars
<1> QED BY <1>1, <1>2, <1>3, <1>4, <1>5, <1>6, <1>7, <1>8, <1>9, <1>10, <1>11, <1>12
        DEF Next, Requests

-----------------------------------------------------------------------------
\* The invariant holds in every state (Management.registerGnPort, GnPort.run).
THEOREM BeaconInvariant == Spec => []IInv
<1> QED BY InitInv, NextInv, PTL DEF Spec

\* Every variable has its type, and no beacon thread runs that its port does not know
\* (GnPort.startBeaconning, stopBeaconning).
THEOREM BeaconTypes == Spec => []TypeOK
<1>1. IInv => TypeOK BY DEF IInv
<1> QED BY <1>1, BeaconInvariant, PTL

\* A port that is open and in use sends only headers asked for since the last stop or map
\* request ended (Management.startBeaconing, stopBeaconing, GnPort.run).
THEOREM BeaconsAreAsked == Spec => []BeaconsWereAsked
<1>1. IInv => BeaconsWereAsked BY DEF IInv
<1> QED BY <1>1, BeaconInvariant, PTL

\* The thread a stop or unmap request waits for was told to end, and is not started again
\* before it has (GnPort.stopBeaconning, dispose).
THEOREM WaitsAreForEnding == Spec => []WaitsForEnding
<1>1. WInv => WaitsForEnding BY DEF WInv
<1> QED BY <1>1, InitWaits, NextWaits, BeaconTypes, PTL DEF Spec
=============================================================================
