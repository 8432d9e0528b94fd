# A verification model of the Titan ITS-G5 test system

The repository is the ETSI ITS-G5 conformance test system, ported from other TTCN-3
tools to Eclipse Titan. A test run consists of three processes:

    TTCN-3 test case (Titan executables)          TRI mapper and test adapter (one JVM)        system under test
    +----------------------------------+          +-------------------------------------+
    | MTC = sync server                |          | TitanItsTriMapper (accept loop)     |
    | PTCs = sync clients              |          |  TitanPortHandler per connection    |
    |   LibCommon_Sync                 |   TCP    |   + TitanTESocketHandler            |   Ethernet, UDP
    | test ports (TRI/*.cc)            | <------> | TestAdapter, ComponentMgr, ports    | <---------------->
    |   TRI_mapper_API                 |  JSON    | layers, PcapMultiplexer, Management |
    +----------------------------------+          +-------------------------------------+

What the system is about is coordination: components that agree when a test step is
over and what its verdict is, a Java process whose port objects come and go on the
requests of one set of threads while other threads receive for them, and a byte stream
that carries requests, their results and unsolicited messages. Beside them stands one
sequential program that is hard to get right, the generator of certificates. The project
models these and leaves the codecs, the cryptography and the test purposes alone.

## Inventory

| Component | State | Operations | Hard behaviour |
|---|---|---|---|
| Test synchronisation, `ttcn/LibCommon/LibCommon_Sync.ttcn` | server: the point it handles, clients counted there, a stop flag, its timer; client: its step, verdict, timer; one message queue each | `f_serverSyncNClientsAndStop`, `f_clientSyncAndVerdict`, shutdown of either side | timers race messages; a client gives up after the server has answered; only the head of a queue can be received; a component may crash |
| Titan test ports, `TRI/TRI_mapper_API.cc`, `TRI/GN/GeoNetworkingPort.cc` and its siblings | socket, message number, receive buffer | start, map, unmap, send, stop, readable event | results and messages share one stream; partial reads; the buffer is cleared by `TRI_map` |
| TRI mapper, `trimapper/TitanItsTriMapper.java`, `TitanPortHandler.java`, `TitanTESocketHandler.java` | two tables (handler to port id, port id to handler); a queue per handler | accept, register, map, unmap, unregister, end of a connection, enqueue to the test, monitor of dead handlers | three kinds of threads on the same tables; a message without a handler resets the whole adapter |
| Test adapter core, `TestAdapter.java`, `ComponentMgr.java` | components, ports by name and by id, the observed ports | `triMap`, `triUnmap`, `triSend`, `triSAReset`, `update` | map, unmap, reset and delivery run on different threads without a lock |
| Network interface, `PcapMultiplexer.java` | clients and their MAC addresses, the pcap handle, the capture thread | `register`, `unregister`, `run`, `sendPacket` | the handle is native memory; the capture thread is joined with the monitor held |
| Upper tester port, `ports/UpperTesterPort.java` | UDP socket, thread, `running` | constructor, `send`, receive, `dispose` | `dispose` joins the thread that may be calling the adapter |
| GeoNetworking port and beacons, `ports/GnPort.java`, `Management.java`, `ports/AdapterControlPort.java` | current header, current port, `running`, `beaconThread` | `startBeaconing`, `stopBeaconing`, map, `dispose`, the thread | unsynchronised fields set and read by three threads |
| IPv6 port, `ports/Gn6Port.java` | UDP socket, thread, `running`, receive buffer | constructor, `send`, the thread, `dispose` | registers with a remote adapter over UDP; a wait without a timeout; one buffer for all receptions |
| Location table and adapter control, `Management.java`, `ports/AdapterControlPort.java`, `f_ac*` of `LibItsGeoNetworking_Functions.ttcn` | newest position vector of each neighbour; beacon filter of each component; the flag of an `Observable` | `gnUpdateLocTable`, `getLongPositionVector`, `startEnqueueBeacon`, `f_acTriggerEvent`, `f_acGetLongPosVector` | polled by a thread per request while the capture thread writes; 32-bit time; answers that race `tc_ac` |
| Certificate generator, `tools/itscertgen` | certificate so far, open tags, bookmarks, a few registers, keys | one handler per opening and closing tag, `apply_bookmark_size`, keys loaded, generated and saved; `certinfo` reads its fields | sizes known only at the end; the type of an element kept in a register; keys given, reused, missing or not saved |
| Protocol layers, other ports | mostly none; `GnLayer` has a beacon thread | encapsulation, delivery to the upper layer | `unregister` against `receive` |
| Codec, security of the adapter, generated PER code, external functions, plug-ins | none across calls | pure conversions | none for a model checker |
| Test suites and libraries, `ttcn/Ats*`, `ttcn/LibIts` | the test behaviour | test steps | they are the environment of the models |

What makes each component correct:

- **Synchronisation**: nobody goes through a point others have not reached; a point is
  not both passed and aborted; a pass verdict is earned; a test case always ends.
- **Test ports**: a request gets its own result; messages reach the test in order, once,
  and in the mapping they belong to; the stream is cut where messages end.
- **Mapper and adapter core**: the tables agree on every mapped port; a request ends;
  an unmapped port stops receiving; a late packet of one port does not undo the others.
- **Network interface**: no call on a handle that is closed; no deadlock on the monitor.
- **Beacons**: none is sent that was not asked for; a stop request ends.
- **IPv6 port**: a packet is delivered once; a registration ends with its port; `dispose` ends.
- **Location table**: it never goes back; an answer belongs to the question that is
  waiting; a filter lets through what was asked for.
- **Certificates**: every size ends up in front of its content; nothing signed is
  changed; a key in the certificate is also in its file; the reader reads what was asked for.

## Modules

| Module | Models | Code |
|---|---|---|
| `TestSync` | server, clients, queues and timers of a test case | `LibCommon_Sync.ttcn`, `LibCommon_VerdictControl.ttcn` |
| `SyncBarrier` | what it promises: a barrier that opens point by point, or is aborted | abstract |
| `MCTestSync` | what a comment says of the protocol | |
| `PcapMultiplexer` | registration of clients, the capture thread, monitor and handle | `PcapMultiplexer.java` |
| `ComponentMgr` | the tables of components and ports | `ComponentMgr.java` |
| `TriAdapter` | composes the two (EXTENDS) with the connections, the handlers, the port objects and the reset | `TitanItsTriMapper.java`, `TitanPortHandler.java`, `TestAdapter.java`, `UpperTesterPort.java` |
| `MCTriAdapter` | the connections of the instances | |
| `GnBeaconing` | the beacons of one component | `GnPort.java`, `Management.java` |
| `Gn6Port` | the reception thread of the port, its disposal, the remote adapter behind an unreliable network | `Gn6Port.java` |
| `TriConnection` | one test port, its TCP connection and its handler | `TRI_mapper_API.cc`, `GeoNetworkingPort.cc`, `TitanPortHandler.java`, `TitanTESocketHandler.java` |
| `RequestReply` | what the connection promises: requests are handled one by one, and return after they were handled | abstract |
| `AdapterControl` | requests to the adapter, the thread that looks a position up, the location table, the beacon filter | `Management.java`, `AdapterControlPort.java`, `GnPort.receive`, `f_ac*` |
| `PositionRegister` | what the table and its threads promise: a register per station that goes forward, and honest answers | abstract |
| `MCAdapterControl` | symmetry | |
| `CertGen` | the generator, tag by tag | `certgen.c`, `cxml.c`, `cxmlst.c`, `cserialize.c`, `ecc_openssl.c` |
| `CertInfo` | the reader of certificates, as pure functions, and what it must give back | `certinfo.c` |
| `MCCertGen` | the profiles, built from certificates | |
| `TestSyncProof`, `TriAdapterProof`, `TriTablesProof`, `GnBeaconingProof`, `Gn6PortProof`, `TriConnectionProof`, `AdapterControlProof`, `CertGenProof` | theorems | |

### TestSync

An action is one branch of an `alt` statement with everything up to the next
blocking statement. `sQueue` and `cQueue[c]` hold what was sent to a `syncPort` and not
received; a timeout may come while the queue is not empty, which covers messages in
transit. `ServerStep` is `f_serverSyncClientsTimedIntermediateSync` with no
intermediate clients (no suite uses them) followed by the two functions that end the
server. `reached` and `passed` count the points of each client; a client's behaviour
between two points is one step with any `FncRetCode`, or a dynamic error that kills it
silently.

The server's last wait is 1.0 s longer than the timer of a client. This is the only
fact about time in the protocol; `early` is the set of clients whose timers
were running when the server started its last wait, and the server cannot time
out before they have. A message on another port of the server matches
`any port.receive`; there are at most `MaxNonSync` of them.

### TriAdapter

Threads are the handlers, the capture thread and one UDP thread per upper tester
port. `hPc` is the request a handler works on; `task` is the adapter call a thread
is in, shared by the three kinds because `removePort` is called by an unmap request, and
also by a reset on a receiving thread. A step lies between two operations another
thread can observe: `removePort` is the lookup with `deleteObservers`
(`RemoveChecks`), `dispose` up to its `join` (`RemoveDisposes`), the join
(`RemoveJoins`) and the removal of the entries (`RemoveDrops`). A map request makes one
TSI port id and one port object, and `Port` numbers both.

Sending is a request like the others: `triSend` finds the port object, whose layers call
`sendPacket`, and this reads the table of clients (`SendChecks`), composes the frame with
the address found there (`SendComposes`) and calls the device (`SendEnds`). None of the
three holds the monitor, so that `SendIsSafe` rests on the other steps: a port stays
registered while its own handler sends.

The mapper's answer to a map request is the end of the handler's work, and a port is
mapped again only after its unmap request was answered. `TRI_map` and `TRI_unmap` wait
for their results (`MayRequest`); that the connection guarantees this is
`ImplementsRequestReply` of `TriConnection`.

### GnBeaconing

One test component with its control port and its GeoNetworking port. The suites map and
unmap the ports of a component in sequence and wait each time (`f_cf01Up`,
`f_cf01Down`), and a component's control requests are handled by one thread in
order: one program counter stands for all of them (`Free`). A reset disposes of the port on
another thread at any moment. `BeaconBegins` is the read of the header when the thread
is first scheduled, which may be after later requests.

### Gn6Port

`thread` is the position of `run`: it sends REGISTER, waits for an answer without a timeout,
loops over receptions of one second, sends UNREGISTER and waits once more. A wait that is cut
short by an exception is an action of its own (`RegisterFails`, `ReceiveFails`,
`UnregisterFails`), after which the thread goes on as the `catch` blocks say. `toRemote`
and `toPort` are sets, so datagrams overtake each other, and `Lose` drops any of them; they are
not duplicated. The remote adapter is external: the port's code tells that it answers both
commands and forwards packets. Two threads may dispose of the port, as in `GnBeaconing`.
What happens to a delivered packet further up is in `TriAdapter`.

### TriConnection

`south` and `north` are the two directions of the connection. A message to the port is
two cells and a read takes any prefix of `north`, so `buff` may end, and after
`buff.clear()` may start, in the middle of a message. A message to the mapper is
written by two calls of `send` and read by `in.read`, which may return a part of the
body: `ReaderReads` may turn any message into one that cannot be decoded. The adapter is
external: it looks the handler up while the port is mapped (`LookUp`) and puts the
message in its queue later (`Put`), perhaps after an unmap request. Mapping is a
single step here; `TriAdapter` has its parts.

### AdapterControl

One program counter per actor: the test component (`client`), the handler of its
requests (`handler`), its thread that looks a vector up (`lookup`), and the capture
thread with the ports that have still to get its packet (`capture`). A vector is the
station time it was sent at; the code sees that time modulo `Wrap` only. `Receive` is
`gnUpdateLocTable` for a packet that may overtake the one before it; the packets after it
find the table up to date. `ListBegins`, `ListNext`, `ListEnds` are the loop that prints
the table before the polling begins; it ends the thread when the table has grown
meanwhile. An answer takes four steps: `Marks` is `setChanged`, `Notifies` is
`notifyObservers` up to the copy of the observers, `LooksUp` finds the port by its name
(`TestAdapter.update`) and `Offers` puts the message in the queue of its handler
(`TitanItsTriMapper`, 349-352). A beacon goes through the same steps (`FilterBeacon`, which
reads the filter, `BeaconNotifies`, `BeaconOffered`). Time passes (`Tick`) when no thread has anything to do: a
step is short against a poll interval of a second, and a timer that has run out is noticed
first.

Test cases follow each other: `Unmap` is `removePort`, in whatever state the test component
is, also while it waits for a position vector; `Map` is the next test case, with new ports of the
same names, settings reset by `registerGnPort`, and the static table as it was. Between them, and
long after, the thread of the old port may still poll (`late`). What keeps its answer from the next
question is that `deleteObservers` leaves the old port object nobody to notify (`LateNotifies`);
without it (`StillObserved`) the answer is delivered, because the port is looked up by name. A
thread that had copied the observers before the unmap is not stopped by that: it goes on to the next
mapping (`LateLooksUp`, `LateOffers`), as in `TriConnection`. `NoLateAnswer` and
`BeaconsWereAskedFor` except what such a thread delivers, and nothing else.

### CertGen and CertInfo

A profile is the sequence of its tags and texts, and one event is handled per step. The
behaviour starts with any profile of `Profiles` and any combination of the options
(reuse, keys given) and of the files an earlier run left. The certificate is a sequence of
cells: a field of fixed width is one cell; a number of variable width is the cell of its
value and one for each further byte. `Begin` and `End` are `_cxmlst_tag_begin` and
`_cxmlst_tag_end` with the handlers they find, `Content` is text, `Finish` the closing tag
of the certificate. `Applies` is where the code depends on registers: the attributes of a
closing tag are not those of its opening tag, so the handler recalls the type from
`sa_type`, `pk_alg` or `vr_type`. Which elements have a byte left for their size (`Sized`) and
which get it filled (`Measured`) are two tests of the code for a restriction: the first is the
default branch of a switch, the second `vr_type > 3`, of an `int` that `strtoul` has filled
(`VrType`, with `Wide` values). `Finish` saves the keys or fails to, without the program noticing;
`files.lost` remembers the keys whose saving failed.

`CertInfo` reads the cells of a certificate with the reader's own rules, as recursive functions,
and `ReadBack` states that the fields it finds in them are the fields that were written: it
follows the sizes and numbers to the right places. It is not about the text the reader prints of
them, which is no profile (see below). `SelfSignedVerifies` is about the signature instead: `get_verification_key`
takes the key from a fixed place behind the subject, and a self-signed certificate must be
signed with that one. `SelfSigned` says of the profile alone for which certificates this is
claimed: the first ten tags lead to the point of a verification key (`HeadTags`), texts between
them aside, and no tag behind them opens another such attribute, or a signer of another type.

## Runs

| Run | Question | Result |
|---|---|---|
| `sync` | 2 clients, 2 points, 1 disturbance: barrier, STOP against READY, meaning of a pass, termination, the refinement of `SyncBarrier` | hold |
| `sync_other_ports` | is the barrier safe from messages on other ports, as the comment says? | no |
| `tri_requests` | a GeoNetworking and an upper tester port of one component, 3 map requests, 2 packets, 1 cut connection: tables, leaks, late answers, circular waits | hold |
| `tri_interface` | two components on one interface, one of them sending, 2 map requests, 2 frames: the native handle, for the capture thread and for senders; every request ends | hold |
| `tri_reset` | is the adapter reset only when no port is mapped, as the comment says? | no |
| `tri_own_reset` | does a reset end? | not when the capture thread begins it |
| `gn_beaconing` | 2 port objects, 2 headers, a reset or the end of a connection at any moment: a port in use sends only wanted beacons; requests wait for threads that end, and end | hold |
| `gn6_port` | 3 packets, everything lost, late or failing, unmap and reset: packets delivered once, none swallowed but as an answer, the registration undone; disposals end | hold |
| `conn_requests` | 6 requests, 2 messages, all partial reads: results, delivery, what a wait waits for, termination, the refinement of `RequestReply` | hold |
| `conn_framing` | is what the port decodes always a message? | no |
| `locations` | 2 components, 2 stations, 2 requests, packets out of order over a wrap of the clock: the table, ports unmapped and mapped again at any moment: the table, late and false answers, filters, the refinement of `PositionRegister` (1.1 million states) | hold |
| `certificates` | about 200 profiles, right and damaged, under 32 choices of options and files: sizes, signed bytes, keys, the fields the reader finds (330,000 states) | hold |

### Bounds, and why they are enough

- **Clients and points.** With two clients one may be late or fail while the other is fine,
  and with two points there is a first one whose leftovers can disturb the next, and a last
  one with the drain behind it. The safety properties and the refinement are proved for any
  number of clients and points, so only the termination rests on these numbers; with more
  clients its check takes too long.
- **Ports and connections.** Three map requests let one port be mapped, unmapped and
  mapped again next to another one, which is what stale ids and joins need. Two frames
  let one arrive while the capture thread still has the other, and both receiving threads of
  `tri_requests` be inside the adapter. `tri_interface` has two map requests, for two components
  in any order or for one of them twice: its safety properties are proved for any number
  (`HandleSafe`, `SendSafe`), and so is that nobody waits in a circle
  (`NobodyWaitsInACircle`); for `RequestsEnd` a third request only repeats the same waits.
  No port of this instance is an upper tester port: its join is in `tri_requests`, where `NoCircularWait` covers it.
- **Beacons.** Two port objects let an old thread meet a new port, two headers let it
  send the wrong one.
- **IPv6 port.** Three packets are one for each answer and one that is delivered, and twice
  if a reception fails. Two disposals and the thread's own failure are all the ways to end it.
- **Connection.** `MaxId = 6` allows register, map, unmap, map or send, unmap,
  unregister, or a second session on the same buffer; the id 1 of the adapter's messages
  is the id of the first map request, and 2 that of a request after it. Two messages
  show an order and a message that is late.

- **Sending.** One connection sends while the other one registers and unregisters; what a
  sender can meet is the end of the other client, and its own port is in use meanwhile.
- **Locations.** With `Wrap = 2` and `MaxTime = 2` the clock restarts within a run and a
  packet of the old turn may follow one of the new. Two polls tell the first from the last,
  and `Tac` is one more, as `PX_TAC` must be. Two requests are a question and what an
  earlier one left for it, or two components that answer at once. Components and stations
  are only compared, so symmetry is sound (the run has no liveness property). One late thread per
  component: a port is not unmapped again with a second question running while the thread of an
  earlier one is still late. A component that has taken a late vector for its answer is not followed
  further until its port is unmapped (`misled`).
- **Certificates.** The profiles have every pair of attributes (with either signer), every
  pair of restrictions, every way to leave one event out of a profile with all kinds of
  elements, and profiles for what the others cannot meet (key data, other algorithms,
  opaque restrictions, restrictions of a negative type, also nested in one another's sizes, in
  front of a second certificate and too many for the bookmarks, two certificates, an existing
  certificate, texts between the tags, a second signer). With `Wide = 512` a type from 256 on becomes
  negative, and its low byte is what 2^32 would give. With `Short = 4`, sizes
  and numbers of one and of two cells occur inside each other. `MaxBookmarks = 3` is the
  greatest depth of sized elements, which `BookmarksMatch` shows for types that are not negative; the code has 16.

Deadlock is checked wherever a state without a successor would be an error. It is
not checked in `TriAdapter`, `TriConnection` and `AdapterControl`, whose bounds on requests,
packets and times end every behaviour, nor in `CertGen` and `Gn6Port`, which end; what must not stop is
stated as a liveness property.

### Fairness

- `TestSync`: weak fairness of the server's step and of the wait of each client.
  TTCN-3 evaluates an `alt` when its queue or timer changes, and every one
  of these waits has a running timer. Nothing is assumed of the behaviour between points:
  a client may hang there for ever.
- `TriAdapter`, `GnBeaconing`: weak fairness of each thread's own steps, since the JVM
  schedules runnable threads and sleeps end. No request and no packet is assumed to
  come. A frame is delivered and a loop with its break flag set ends: `pcap.loop` is
  external and checks the flag between packets.
- `Gn6Port`: weak fairness of the thread, of the disposing threads and of the remote
  adapter's answers. Nothing makes the network deliver a datagram, and no packet has to come.
- `AdapterControl` and `CertGen` have no liveness property and no fairness: the lookup
  ends by `tc_ac`, which `OnlyADeadThreadTimesOut` says as an invariant of time.
- `TriConnection`: the threads of the mapper run, and a component that waits in `recv`
  gets what has arrived. The test need not do anything else.

### What the code does not do

Four runs state a sentence of the repository that the code does not keep, or a
failure the code cannot get out of; PROJECT.json quotes the lines.

1. `any port.receive` of the server's `alt` has no `repeat`: a message on any other port
   of the MTC ends the point and releases the clients that were there. `Barrier` and
   `PassIsEarned` therefore speak of undisturbed points, and `SyncBarrier` has a `breach`.
2. The test that would reset the adapter only when its table is empty is commented out: a frame
   in flight when its port is unmapped unmaps every port of every component.
3. Such a reset on the capture thread joins the capture thread, with the monitor held.
4. `TRI_map` clears its buffer after the result; when the first part of the next message
   was read with it, the rest is taken for a header.

The models do what the code does in these places, which have no run of their own:

- `LibCommon_Sync.ttcn`: "sending stop to all clients" (776) sends it to those that
  reported at the point (790); the wait for the shutdown of all clients (1300) ends at the
  first message of a late one (1311); the STOP a server sends to itself may stand behind a
  late client's message that neither its `alt` nor its default takes.
- `Gn6Port.java` sets its timeout (107) after the first `receive` (100): when REGISTER or its
  answer is lost, the thread never looks at `running` again, although "Setting this field to
  false will cause the reception thread to stop its execution" (160), and the unmap request
  waits for it for ever. `DisposeEnds` has this one exception.
- A port whose connection ended without unmap keeps sending beacons nobody can stop:
  `BeaconsWereAsked` leaves such ports out.
- A reset does not wait for a sender, so `sendPacket` may use a closed handle:
  `SendIsSafe` speaks of runs without a reset.
- `IManagementTA.java:54` speaks of the vector of the last beacon; any packet updates the
  table. After a restart of a station's clock the entry of the last turn stays until a
  timestamp of the new turn is greater (`Management.java`, `gnUpdateLocTable`).
- A request to pass beacons is always answered with a failure, which nobody receives: a
  later `f_acGetLongPosVector` takes it as an unexpected response (`TakeResponse`).
- `certgen.c`, a restriction with `type="4294967295"`: the number is accepted (1041), becomes -1
  (1042), and leaves a byte for its size in the default branch (1068) which no closing tag fills
  (1071). The bookmark stays: the size of the enclosing element is then written into its place, a
  second certificate in the profile starts with it, since `root_certificate_tag` does not
  reset the bookmarks, and enough of them end the program as "tooooooo complicated".
  `BookmarksMatch` promises the exact bookmarks for profiles without such types, and for all
  profiles that none is missing.
- `certgen.c` (407, 415) does not look at the result of `ecc_api_key_private_save`, which does not
  open the file, or removes it, when it cannot be written: the certificate of a key that is
  nowhere is there, and the program ends well. `KeysAreKept` has this one exception.
- `certinfo.c` prints no profile for `certgen.c`: with `-n` a region is printed with type 4 (685),
  which the generator takes for an opaque restriction; the attributes are called `algorythm` (548)
  and `symm_alg` (554) where the generator reads `algorithm` (715) and `sym_alg` (739); and
  the `ssp` tags are malformed (618, 626). `ReadBack` is about the fields only.
- `certgen.c`: a second certificate in a profile keeps the name and the keys of the first;
  one missing key file switches reuse off for the rest of the run; the keys are saved even
  when the certificate could not be written (391-411); the end of the file inside an
  element writes nothing and is no error; an `aid` with text instead of a value is
  skipped; an unknown subject type is written as 255 (the test at 599 compares an unsigned
  number with 0). `certinfo.c` reads a name of 128 bytes and more wrongly (one byte of length).

## Proofs

All proofs are for every value of the constants that satisfies the named assumptions.
The types of `TestSync` and `AdapterControl` are proved only (`TypeCorrect`, `AdapterTypes`):
no run repeats them.

**`TestSyncProof`** (`SyncInvariant`, `TypeCorrect`, `BarrierHolds`, `StopExcludes`,
`PassEarned`, `BarrierImplemented`). `Barrier` is not inductive: it says nothing of messages on their way. `SyncInv` adds
what a READY in either queue promises of its sender and of the point (`QueueInv`), how a
client's state fixes the distance of `reached` and `passed` (`ProgressInv`), and what
the server's list and its point say of all clients (`PointInv`). The one place that
needs counting is the end of a point: a list without duplicates that is as long as there
are clients holds all of them, by finiteness of `Client` (`AllCounted`). The refinement
theorem maps each step to a step of `SyncBarrier` or a stutter, with `SyncInv` at hand.
The steps of the server are first described by a few shapes (what changes, what is sent),
so that each conjunct is proved per shape instead of per action.

`PassEarned` needs more (`EarnInv`). A test case ends with a pass when all clients are done or
when the last wait of the server runs out. A client is only done after the last point or with
a spoiled verdict, its own or the server's, because a STOP is only sent once the server's
verdict is inconc (`VerdictInv`). In the last wait every client that still waits has a timer
in `early` and READY in its queue (`DrainInv`), since the last point was opened to all; so
when the wait runs out, `early` is empty and no client is between two points.

**`TriAdapterProof`** (`HandleSafe`, `TriTypes`, `NobodyWaitsInACircle`). `HandleIsSafe` is inductive by itself, once it says that
a capture without clients only exists while somebody holds the monitor: this is the
thread that joins it. The proof goes over the steps that touch the multiplexer; all
others leave its variables alone.

The same module proves the types (`TriTypes`). They are not inductive alone. The thread of a port
object must be new when `createPort` starts it, which needs that a port object has the one
handler that made it (`Fresh`); and the capture thread must not be started inside its own
callback, which is `HandleIsSafe`. The calls a thread may be in follow from what one step of
one thread can do to its call (`CallActs`).

`NobodyWaitsInACircle` is the safety half of `RequestsEnd`, with any connection cut at any moment.
A thread in `join` has told the thread of a port object, which was started, to end
(`Joining`), and nothing makes that thread go on or the port object new again: a port has one
owner, who starts its thread once (`Fresh`). Or it is the one that keeps the monitor of the
multiplexer; then the capture thread was told to leave its loop, and `register`, which alone could
take this back, needs the monitor (`Holding`). Before the first reset a receiving thread removes
no port (`ReceiversNotify`), so that a thread that is waited for waits for nobody. With a reset
this is false, as the run `tri_own_reset` shows, and the property says so by its condition.

**`TriTablesProof`** (`TablesInvariant`, `MappedRegistered`, `NothingLeaks`, `LateAnswers`,
`SendSafe`). `Inv` says nothing of a run once a connection was cut or the adapter was reset:
then the properties do not hold, or are not claimed. Before that (`CalmInv`) the content of
every table can be read off the program counters of the handlers: a port object belongs to
the handler that made it (`Ids`), no two living connections are for the same port and a
component has one request at a time (`Connections`), so a port is in the table of
`ComponentMgr` exactly from the end of its map request to the last step of `removePort`
(`Tables`), its thread listens, or its layers are clients of the multiplexer, from
`createPort` to `dispose` (`Receivers`), and the mapper finds its handler in between
(`Routes`). A receiving thread of an upper tester therefore always finds a handler, which is
why it cannot end the calm itself. That a component disappears from the table only with its
last port needs `Connections` again: nobody else of the component is between `addComponent`
and `addPort` while one of its ports is unmapped.

**`GnBeaconingProof`** (`BeaconInvariant`, `BeaconTypes`, `BeaconsAreAsked`,
`WaitsAreForEnding`). `BeaconsWereAsked`
is not inductive: it says nothing of a thread that has not read its header. The
invariant adds that of the ports in use only the one the management knows is open,
that a port object not yet made has no thread, and that the header the management keeps
was asked for and is null while a stop request is at work. Ports whose connection ended
without unmap are exempt: for them the property is false. `WaitsForEnding` is the safety half of
`RequestsEnd` and has no such exception: a stop or unmap request waits for a thread that was told
to end and that its port still knows. Only a start request sets `running` again, and it is not
made while an unmap request is at work, whatever a reset on another thread does (`ThreadsExist`).

**`Gn6PortProof`** (`PortInvariant`, `PortTypes`, `NothingTwice`, `TwoSwallowed`,
`RegistrationEnds`). A packet is in one place (`OnePlace`), and one that is both delivered and
in the buffer is the last one delivered (`Buffered`), so that a repetition needs a failure, and
`running` is false from then on (`Repeated`). `RemoteForgets` needs that a REGISTER on its way
leaves nothing the thread could take for its answer (`Registration`).

**`TriConnectionProof`** (`ResultTaken`, `ConnectionTypes`, `MessagesDelivered`,
`CallsImplemented`, `RequestsAreNotLost`). The messages of the adapter carry the id 1, which is also the id of the map
request. The adapter finds no handler before the map request was handled, so nothing of the
adapter is on its way before its result is. `Inv` describes what both streams and the queue
hold while the first two requests are out (`Registering`, `Mapping`) and that until then all is
empty of the adapter's messages (`Unmapped`); of later requests it says only that their ids are
greater. This is enough for `ResultIsResult`, and not for the others:

- The refinement needs that the request a port waits for is in one place only: in one of the
  queues, or its result is in the stream (`CallInv`). A handler that handled a request twice, or
  an answer left from an earlier one, would break it.
- `Delivery` has two halves. The order is `OrderInv`: two numbers separate what was got, what
  is in the stream and what is queued, each part being in order. The era is `FreshInv`: a
  message of another mapping that was not held back can stand in the handler's queue only where
  the handler meets it unmapped, because a map request stands behind it, and in the stream only
  while the test is not mapped or in front of the result of a map request, which it waits for.
  This rests on `MapInv`: the test and the handler agree on the mapping, except while the
  request that changes it is on its way.
- The types bound every number in a message. The messages the adapter still holds are counted
  (`BoundInv`), for a message gets its number when it is queued, in whatever order.
- `NoRequestLost` is the safety half of `RequestsReturn`: a waiting port waits for something that
  is on its way. `WaitInv` needs that the stream keeps the two parts of each message together
  (`Framed`), so that a read never takes a result without noticing it, and that the result of the
  last request of a session is the last message of its stream (`ResultOnItsWay`), so that the end
  of the stream is not read in front of it. The buffer is only cleared at the end of a wait, and
  nobody waits for what it loses.

**`AdapterControlProof`** (`AdapterInvariant`, `AdapterTypes`, `TableIsNewest`,
`NoAnswerIsLate`, `BeaconsAreWanted`, `TimingInvariant`, `FailuresAreHonest`,
`OnlyTheDeadTimeOut`, `RegisterImplemented`). The invariant is a conjunction over components:
which states of the test component, its requests, its handler and its lookup go together; that
the polls made and the timer add up to `tc_ac`; that only vectors of the question are in
the queue, but those marked as late; that the thread of an unmapped port is late, whatever it was
doing. The table needs a lemma about quotients and remainders only: within one turn
of the clock the order of timestamps is that of times (`SameTurn`). `Tac > Polls` is used
where an answer would otherwise come after the timer.

Timeouts and failures need the clock of a question (`TimingInv`). Until a thread has it the timer
has not moved, and later every second is one of the thread's sleeps (`Clock`); nobody else marks or
notifies the port, so the response is not lost between `setChanged` and `notifyObservers`
(`Answering`); and a thread that goes to sleep has not seen the neighbour, so a failure
is at most one interval old (`KnownFor`). The refinement has the same need: the answer
to the question in `PositionRegister` is decided when the thread finds the neighbour, or has
looked for the last time, and what the test component gets later is that answer. `Deny` of
`PositionRegister` needs an empty register: the last look is such a moment.

**`CertGenProof`** (`Invariance`, `CertTypes`, `SizesMatch`,
`SignedBytesStay`, `KeysSaved`, `SelfSignedKey`). For any set of profiles, also meaningless ones. The open tags have one
of a few shapes, because each has the tags it may stand in (`Shape`); at most one open tag
has a given name, so a register can speak of it (`Registered`); therefore `Applies`
agrees with `Measured`. For every profile the last bookmarks, one for each open element whose size
is to be written, stand in the certificate one after the other, each at a byte left for a size and
behind every signature (`Placed`): a bookmark that a negative type has left takes the place of one,
whose own then stays below, and none is missing. For profiles without negative types (`Numbered`) the
bookmarks are exactly the open elements with a size (`Matched`). `SignedBytesStay` needs `Placed`
only: a signature stands in no sized element, so every bookmark that will be used lies behind it.

`KeysSaved` follows a generated key to its file, with an invariant of its own (`KeyInv`). A
point is closed in a key attribute (`PointsInside`), and this attribute is the first of its
type, so its key pointer still was 0 when it opened (`Loaded`). The key loaded there is
either given, or reused, or 0; in the last case reuse is off from then on, and it stays off,
so a key generated now will be saved (`KeptKeys`). Hence every generated key in the
certificate is `h->key` or one of the two kept keys, and in a file once the root tag has
closed, or among those that could not be saved (`NoneLost`). The proof attempt showed that the property needs more than an earlier
form of it said: in an attribute of another type with a `<public_key>` in it, `certgen.c`
generates a key, frees it at the closing tag and saves it nowhere. `OneKeyOfAKind` now asks
that every point stands in a key attribute; all profiles of the repository do so, and two
profiles of `MCCertGen` do not.

`SelfSignedKey` joins the generator and the reader: of a certificate that signs itself, every
signature is made with the key that `VerificationKey` reads from the bytes. Its invariant
(`SelfInv`) counts the tags read (`Read`). For the first ten, `HeadRead` gives the open tags and
the cells written so far, up to the byte left for the size of the attributes. From the point on,
`Begins` says where the reader will look: the key's place depends on the length of the name and
on the cells that the size of the attributes takes, one until it is written and perhaps two
afterwards (`BeginsResized`), and nothing else in front of it can still grow. The key there is
`VKeyNow`, the loaded key while its attribute is open and the kept one later; an attribute of
the encryption key and points elsewhere do not change it (`BeginSameKey`, `EndSameKey`). A
signature finds no attribute open and no signer but the certificate itself (`OwnSigner`), so it
is made with `VKeyNow`. Here too the proof attempt corrected the property. An earlier form
claimed it of every certificate whose bytes begin like this; but a second `<signer>` behind the
subject, of type `digest`, changes the register `signer_type` that decides the key of the
signature, and not the byte in front that the reader has passed. `SelfSigned` therefore speaks
of the profile, and of all its signers; that there is only one key of each kind is not needed.
The one profile of `data/profiles` that signs itself, `CERT_TEST_ROOT.xml`, begins with these
ten tags; `MCCertGen` has profiles with two signers, and with texts between the tags.

Only model-checked, besides the runs that expect a violation: liveness of all components, since
liveness under fairness and `ENABLED` are out of this prover's reach (of `RequestsReturn` and both
`RequestsEnd` the proofs have the safety half: nobody waits for what cannot come), and of the certificates
`ReadBack`, which is about what the reader makes of a whole certificate: it reads lists with
recursive functions, and what they return for every list cannot be proved by induction here.

## Abstractions and limits

- The configuration is valid: `createPort` finds its port, addresses resolve, the device
  exists.
- One operation on a table or a queue is one step. The `LinkedHashMap`s are not
  synchronised, so their internal corruption is a hazard outside the model; the
  iteration that fails under a concurrent change is in it (`DispatchFails`).
- Message contents, lengths and codecs are left out. Secured packets the upper tester
  port drops are packets that do not arrive.
- What properties state as an exception they do not catch: the race of `addPort` and
  `removePort` on two connections of a component (`ComponentMgr.java:87`) is excluded by the guard
  `MayRequest`, since `TRI_map` and `TRI_unmap` wait for their replies; a restart of a station's
  clock by `EntryIsNewest`; a dead look-up thread by `OnlyADeadThreadTimesOut`; the lost REGISTER by
  `DisposeEnds`; the negative type by `BookmarksMatch`; the failed saving by `KeysAreKept`.
- `TestSync`: the defaults of the suites are represented by their reception of STOP; their
  other branches concern other ports. Not modelled: intermediate synchronisation, self
  synchronisation of non-concurrent test cases, the state stack.
- `TriConnection`: a port is unmapped before it is stopped, as Titan does when it
  deactivates a port; requests made while cleaning up after an error are left out; a new
  session starts when the handler of the old one has ended.
- `GnBeaconing`: one component. `GnPort.receive` and the secured beacons (commented out in
  the source) are not in it.
- `AdapterControl`: an address is its MID; the ports of a component are mapped together and
  its requests are handled in order. The hash maps of the adapter are resized without a
  lock, a hazard outside the model; the iteration that fails is in it (`ListNext`). That two threads
  answer on one port, where the second `notifyObservers` would find the flag cleared
  (`AdapterControlPort.java:155`), is excluded by the order of the requests: a component that waits
  asks for nothing else. The reset that an answer without a handler causes is in `TriAdapter`.
- `CertGen`: the buffer of 4096 bytes is large enough; the certificate of the signer and
  given key files are there and can be read (the test at 541 compares an unsigned size with
  0); key data in a profile are the coordinates of a point of the curve, and the two
  compressed forms are one. A key whose algorithm is not 0 or 1 is not generated. A point in
  an attribute that is no key attribute leaves `h->key` pointing to a freed key
  (685-687); the model keeps the key. The reader takes the algorithm to be ECDSA and does not
  read opaque restrictions. The coordinate of a key is one cell (`x`), whatever its leading
  bytes: `ecc_api_key_public` (`ecc_openssl.c`, 181-188) writes it without padding on the left, so
  one that begins with a zero byte starts a byte too early in its field, which is below the model. The public
  key files (`.vpkey`, `.epkey`) are left out. A restriction of the types 0 to 2 that is named by its number reads
  uninitialised pointers and is left out; by its name it is in the profiles.
  Dates, angles, entities, the profile's hexadecimal text and the shorter signatures of
  `ecc_sign` are below the model.
- Hazards below the models: the length of a message to Titan is cast to `short`
  (`TitanPortHandler.java:109`), right up to 65535 bytes; `sequenceNumber++` of `GnLayer` (601)
  is not atomic, so two packets may get one number; a `Gn6Port` answers the map request before
  its REGISTER has arrived; a second start request without a stop changes no header on the air
  (`GnPort.java:64`, in the model, but nothing says what it should do).
- Not modelled: what the layers put around a packet, sending by UDP (it changes nothing), the
  BPF filter, `GnLayer` with its beacon thread (the suites start beacons only in components
  whose ports have no such layer), `FsapPort` (no factory makes it), the security of the
  adapter, and everything listed as data above.
- Most lines of the repository are the PER codec that asn1c generated, four copies of the
  same run-time library beside the tables of the messages, and the test suites in TTCN-3. A
  model of the codec would be a model of asn1c, and the suites are stimuli: sequences of
  messages and expected answers that the models take as arbitrary behaviour of the
  environment. The share of mapped lines stays small for that reason.

## Plan

1. Done: `TestSync`, `SyncBarrier`, proofs of safety and of the refinement.
2. Done: `PcapMultiplexer`, `ComponentMgr`, `TriAdapter`, proof of the handle's safety.
3. Done: `GnBeaconing` and the proof of its safety.
4. Done: `TriConnection`, `RequestReply`.
5. Done: `AdapterControl`, `PositionRegister`, proofs of the table, the answers and the
   filters; sending in `TriAdapter`.
6. Done: `CertGen`, `CertInfo`, proofs of the bookmarks and of the signed bytes;
   `TriConnectionProof`; `TriTablesProof`.
7. Done: `Gn6Port` and its proof.
   Then: `GnLayer` with its sequence numbers, self and intermediate
   synchronisation, the state stack.
8. Done: the proofs of `PassIsEarned`, of `Delivery`, of `KeysAreKept`, of
   `SelfSignedVerifies`, and of the refinements of `TriConnection` and `AdapterControl`.
9. Done: `NoCircularWait`, `WaitsForEnding`, `NoRequestLost` and their proofs.
