# A formal model of ReplicacioEpidemica

TLA+ modules for the seven-node replicated system under `src/src`, TLC
configurations that check them on small instances, and TLAPS proofs. Paths below
are relative to `src/src/` unless they begin with `src/`.

## 1. The system

Seven nodes in three layers run in one process. Each is a TCP server on a port
that is also its id, and `Controller::Run` connects them (Controller.cpp:52-55):

    core layer     A1 ---- A2      A1 ---- A3      A2 ---- A3
    layer one               A2 - B1                A3 - B2
    layer two                              B2 - C1, B2 - C2

A user saves a file of transactions. The file watcher's thread reads it and
executes its writes, one after another, on the core node that the file's name
names. That node enters a distributed critical section, sends the write to the
other core nodes and waits until each of them has executed it. After every
tenth write each core node sends its value to its layer-one node; a layer-one
node sends its value to its layer-two nodes every ten seconds.

### Inventory

**LamportMutex, DirectClock** (`mutex/`). State: a clock entry per core node, a
request queue (one entry per node), a condition variable. Operations:
`requestCS`, `releaseCS` on the caller's thread, `HandleMsg` on the thread that
received a message. Hard: the two threads share no lock, except `mtx_RequestQ`
in `okeyCS` and in the RELEASE branch; `notify_all` is called without the mutex
of the condition variable; the clock's read-modify-write is not atomic. Correct
when: no two nodes are inside together, everybody who asks gets in, the queues
of all nodes tell the same story.

**MsgHandler** (`nodes/MsgHandler`). State: a socket per peer, a list of peers
per layer, one ClientService thread per peer. Operations: `SendMsg`,
`BroadcastMsg`, `Connect`, `IncommingConnection`, the ClientService loop. Hard:
a thread per peer, serialised by `mtx_CallbackWait` while a message is handled;
`Connect` and the accept thread change the peers while others read them. Correct
when: frames of one peer are handled in order and whole, and both ends of every
connection know each other on the same layer.

**CoreNode** (`nodes/CoreNode`). State: the value, `m_WriteCount`,
`m_FinishedNodes`. Operations: `ExecuteTransaction` (caller), `HandleMsg`
(writes and READY of the peers, the rest to the mutex). Hard: one counter for
the READYs of all writes, writes that do not commute, `notify_one` without
`mtx_Transaction`, a count of writes kept by every node on its own. Correct
when: the replicas are equal between writes and every write returns.

**Node, Transaction** (`nodes/Node`, `transactions/Transaction`). State: the int
value. Operations: add, subtract, multiply, set, show; a line to the monitor for
each. Hard: the int wraps. Correct when: replicas wrap alike.

**LayerOneNode, LayerTwoNode** (`nodes/`). State: the value; for layer one the
Run thread and `m_Running`. Operations: `Run` (send, wait up to ten seconds),
`HandleMsg` (SET), `Shutdown`. Hard: Run reads the value while a message may set
it; the wait's notify can be missed. Correct when: values only move forward, all
updates arrive, the thread ends.

**Controller** (`Controller`). State: the nodes, the watcher. Operations: `Run`
connects and starts, `FileModifiedCallback` dispatches a file, the destructor
shuts down. Hard: the watcher runs before the connections are made; a write that
never returns blocks the thread that executes all later ones; a read-only file may
hold writes, which are executed on the nodes below the core while their own threads
set and send their versions.

**FileWatcher, TransactionReader** (`transactions/`). State: the time of the end
of the last callback. Hard: the debounce drops events; the file is read later
than it is saved; a file that cannot be opened leaves fields uninitialised and is
not tried again. Correct when: what was saved is executed, or lost for a reason that
can be named.

**Server, Client, Socket** (`sockets/`). The accept loop, connecting, sending
and receiving. Hard: connecting to a node that does not listen yet, a hello that
is not the first thing on its stream, closing while others read.

**WebSocketClient** (`web_socket/`) **and easywsclient** (`src/dependencies/`).
State: two queues between a node and the thread that serves the monitor; the web
socket with its buffers and its ready state. Operations: `Send`, the destructor,
the thread (connect, handshake, then send, poll and dispatch until the end). Hard:
the handshake blocks without looking at `m_Running`; the socket may be closed by
three parties between two steps of the thread; frames arrive in pieces. Correct
when: what a node reports arrives in order and once, messages of the monitor are
put together as they were sent, the handle is closed once, the join returns.

**The end of the program** (`Controller`, and every destructor). The main thread
stops the Run threads and waits for them, joins the watcher and destroys the nodes
one by one, while their ClientService and accept threads still run. Hard: each
destructor waits for threads that return only when an end of a connection is
closed; a frame that comes after the derived part of a node is gone calls a pure
virtual function. Correct when: no write is cut off, no handler runs on half a
node, the program ends.

`Log` and `Commons.h` keep nothing that the program reads.

## 2. The modules

    MsgHandler            frames, streams, peers
      LamportMutex        requestCS, releaseCS, HandleMsg, the clock
        LamportMutexHistory   which of the three races has happened
        CoreLayer  (+ Transaction)   CoreNode on top of the mutex
          implements ReplicatedStore (+ Transaction)   the promise
    Layers  (EXTENDS ReplicatedStore)   layer one and two below that promise
    Connections           how the nodes get connected
    Shutdown              how they are destroyed while their threads still receive
    Monitor               what a node tells the monitor, and hears from it
    FileEvents (+ Transaction)   from saving a file to executing its transactions
    *Proofs               theorems, each about the module it is named for:
      LamportMutexProofs, LamportHistoryProofs, CoreLayerProofs (types, replicas,
      the refinement), ConnectionsProofs, LayersProofs, ShutdownProofs,
      MonitorProofs, FileEventsProofs
    MC*                   instances for TLC

`Layers` is composed with `ReplicatedStore`, not with `CoreLayer`: the core layer
implements that specification (property `ImplementsStore`), so whatever holds of
the layers below the store holds of them below the core layer, and the
interleavings of the mutex need not be multiplied by those of the lower layers.
`CoreLayer!updates`, the SETs a core node has broadcast, is `ReplicatedStore!stream`.

### How state and actions correspond to the code

*MsgHandler.* `channel[s][d]` is the TCP stream from s to d: reliable and in
order. A frame is a record of tag and data; SendMsg appends, ReceiveMsg takes the
first. Frames arrive whole: the five bytes are sent by one call on a loopback
connection. READ changes no state of a node and is not among the tags.

*LamportMutex.* `pc[n]` is the program counter of the thread in requestCS or
releaseCS of n, `handler[n]` that of the ClientService thread that holds n's
`mtx_CallbackWait` (at most one does, MsgHandler.cpp:48). An action is at most
one access to what the other thread writes: `RequestCS`/`Tick` are the read and
the write of `m_Ticks[m_Id]++`, `HandleMsg`/`RecieveAction` the two assignments
of RecieveAction, `CheckQueue`/`CheckClock` the two tests of okeyCS for one peer.
Taking a frame and raising the clock entry of its sender is one action, since
only this handler writes that entry and the caller only reads it. The loops over
peers visit them in any order (the code has a fixed one, which is one of those).
`blocking` is the interval between a false predicate and the sleep, in which a
notify is lost because the notifier does not hold the mutex; `asleep` is the
sleep. Insertions that rehash an unordered_map while another thread looks up are
undefined and not modelled: an access to an entry is atomic here.

*CoreLayer.* `Submit` is the call that Controller's loop makes (Controller.cpp:91);
its guard, that no other transaction is being executed, is there because all of
them come from the file watcher's single thread. `SendWrite`, `ExecuteWrite`,
`CheckFinished`, `SleepFinished` and `Release` follow ExecuteTransaction;
`HandleWrite`, `HandleReady` and `HandleMutex` are the cases of HandleMsg. A
handler's write and its READY are one action: while it runs it holds
`mtx_CallbackWait`, and the writer of the node itself is not active then.
`unsent` is the rest of the loop that sends the write.

*Transaction.* Values are ints of a width given by `IntHalf` (2^31 in the
program) and wrap, which is what MSVC's code does with a signed overflow.

*Layers.* `run[b]` is the thread of LayerOneNode::Run, with the broadcast as a
loop over children and wait_for split like the condition variables above;
`Timeout` is the end of the ten seconds. `Core` is any step of the store. The thread
that writes to the core also executes what a file with the header b1 or b2 holds on
these nodes (Controller.cpp:100-107): `LoadBelow` and `StoreBelow` are the two
accesses of `m_Version.version += value`, between which `SetVersion` on the
ClientService thread may set it. A version carries where it is from, a history that
the program does not keep: the core, a write below on top of that, or a write that
overtook a SET (`HeldVersion`).

*Connections.* `next` and `at` are the controller's thread in Run and Connect,
`listening` and `link` the accept thread of each node and the connections it has
been offered. Connecting is refused while a node does not listen, and may be
when one connection already waits (the backlog is 1, Server.cpp:76). `SendMsg` is
one frame that a write sends on one connection, at any time: its REQUEST or RELEASE
to one peer, the write itself, or its SET to layer one. So the sends of a write come
in any order and at any distance, which includes the order of the code, and some
that are not of the code. Bytes that are no hello are read as one: the level is out
of range, or the layer gets an id that belongs to nobody (`Garbled`). `hasty` is
the history of connections that had a frame sent before their hello.

*FileEvents.* The user's editor empties a file and then writes it, two changes
that efsw reports in order; other changes (a file added, moved, deleted) are
reported too. `at` is efsw's thread in handleFileAction: idle, about to read the
file, or executing what it read. `quiet` says that the 500 microseconds of the
debounce have passed; `Elapse` makes it true at any time while no callback runs.
The text of a file is what its parser makes of it: the digit of the header (or
none) and a sequence of tokens; `Dispatch` is the flat list of who executes what.
A write on a core node changes all core nodes at once, which CoreLayer
implements; or it does not return (`Hang`), before any of them or after all of them
have executed it, which CoreLayer's WriteFinishes shows to be possible. A file may
fail to open at any time: it then yields no transactions, and the fields that were
never set decide between empty loops. `dropped` and `unopened` record for which
files the last event since they were saved was lost, and how.

*Monitor.* `at` is the thread of the client: the three blocking calls of
`from_url` (connect, status line, headers), then the loop, in which `recv` and
`send` are the two loops of `poll` and `dispatch` takes one frame per action. A
frame is a value with its kind and number, of which the socket receives two
halves, so that a frame may be there in part; `rxbuf`, `txbuf` and
`receivedData` are the code's buffers, in frames. `closed` counts the calls of
closesocket; `delivered` is what the system took from the node and `data` the numbers
of the data frames the monitor sent, a history that no step depends on. The
monitor is the environment (`Answer`, `SendHead`, `SendRest`, `Hangup`): it may be absent,
silent, slow, gone, or have reset the connection, and the system takes any part of
what is sent to it. A reset may take what was sent and not yet read, the answer to
the handshake too (`answer = "lost"`). from_url then spins, as recv fails for ever;
or it returns, where a system tells of a reset only once (`ReadReset`).

*Shutdown.* `main` is the main thread in ~Controller and after it in the destructors
of Controller's members; `next` and `stage` say which node it destroys and what is
left of every node. `socket[<<n, m>>]` is n's end of its connection with m and
`service[<<n, m>>]` the ClientService thread that reads there: peeking, receiving,
about to call HandleMsg (it waits for `mtx_CallbackWait`), in it, or ended. A write
is the frames it needs (write, READY, release, set) and the set of peers that have
answered; what it computes is CoreLayer's matter. A callback in progress goes on
writing after removeWatch until the watcher's thread is joined. `DestroyDerived`
ends in the join of the node's monitor client, which may not return, as Monitor
shows (`stalled`). `busy` records whether anything was on its way when the first
node went, `late` that a connection was accepted by a node whose sockets were
cleared already, `aborted` that a pure virtual function was called, after which
there are no more steps.

Operators that a comment calls a mutant are deliberate faults. No specification
uses them: with one put in the place of the definition it varies, TLC finds the
property violated that PROJECT.json names beside it, which shows that the run can
tell a faulty program from this one.

## 3. The runs

| run | instance | what it shows |
|---|---|---|
| lamport_queues | 2 nodes, 2 and 1 entries | `TypeOK`; `QueuesSettle`: the last word on a node's request that a peer has not applied, or else the peer's entry, agrees with the node's own; `MutexUnlessRaced` |
| lamport_progress | 2 nodes, 1 entry each | `EnterUnlessMissed`: requestCS returns, unless a notify_all was missed or the clock went back |
| lamport_mutual_exclusion | 2 nodes, 1 entry each | `MutualExclusion` is violated, see below |
| core_layer | 3 nodes, 2 writes, 3-bit ints | `ReplicasAgree`: between writes the replicas, the counts and the updates are equal; `ReadyAccounting`: every READY is counted for its own write; `ImplementsStore`: the refinement of ReplicatedStore; `WriteFinishesUnlessMissed` |
| core_write_finishes | 2 nodes, 1 write | `WriteFinishes` is violated, see below |
| layers_spread | A2, A3, B2, C1, C2; 2 checkpoints, 2 writes below | `Downhill`: what a node has from the core is a checkpoint no newer than what is above it; `NeverBack`: no version gets smaller, but where a SET replaces what a write below has made of it, or such a write has overtaken a SET; `Spreads`: every checkpoint reaches layer two; `Stops`: Shutdown ends the thread |
| connections_core | A1, A2, A3, B1; 3 early frames | `MeshedUnlessLost`: both ends of every connection agree, unless it was refused or a frame was sent on it before its hello; `Starts` |
| file_saves | 2 files, 3 saves | `SavesRunUnlessDropped`: a save is read and its callback executes it, unless its last event is dropped, the file does not open for that, or an earlier write hangs; `NoSaveForgotten`: until then it is still to be reported, read or written; `WritesOnCoreUnlessAsked`: no version below the core changes while only files without header or for the core (b0) hold writes |
| file_saves_run | 2 files, 1 save each | `SavesRun` is violated, see below |
| file_writes_on_core | 2 files, 1 save each | `WritesOnCoreOnly` is violated, see below |
| monitor_reports | 2 messages, 2 frames of any kind | `ReportedInOrder` and `HeardInOrder`: neither direction loses, repeats or reorders anything before the socket closes; `HandleClosedOnce`; `JoinsUnlessStalled`: the destructor returns unless the handshake waits for a silent monitor or a reset took its answer; `LeavesUnlessAlone`: messages leave the queue |
| shutdown_clean | A1, A3, B2, C1; 2 writes | `CleanUnlessBusy`: no handler is called for, or works on, a half-destroyed node if nothing was on its way; `NoAnswerDue`: no write is cut off; `EndsUnlessStuck`: the program ends, unless a write hangs, a connection came too late, a monitor's client stays in its handshake, or the process was aborted |

Each state machine also has a type invariant, checked by its first passing run.

### Bounds

`MaxCalls` bounds the entries of each node. Two entries of one node, with a
request of another in between, are what lets a message of an old entry meet a
new one; a third would repeat that. Two nodes have every pair of threads that
can interfere, and `MutexUnlessRaced`, which they check, is proved for any number.
The core layer runs with three nodes, the number the program has: its loops have
a second peer, and two writes of different nodes, a difference and a product that
do not commute, are executed one after the other.
`UPDATE_COUNT` is 2 or 1 instead of 10, so that checkpoints happen, and `IntHalf`
8 or 4, so that values wrap.
`MaxCheckpoints` = 2 gives a layer-one node an older and a newer update, and
`MaxBelow` = 2 writes below the core come before, between and after them, on two nodes
or twice on one. The instance has one layer-one node with both its children, below
A3; A2 stands for the core nodes beside it, and B1, which has no children, is left
out: it shares nothing with the others. The theorems are for any tree.
`MaxSets` = 1 is the number of SETs that wait in one stream: ten seconds pass
between two, in which a loopback connection delivers the first.
`MaxEarly` = 3 frames come while the connections are made. The core nodes and B1
have every kind of connection (one end accepting several, one connecting to
several, two layers); B2, C1 and C2 repeat them.
Deadlock is not checked: when the bounded calls are over, or the user saves
nothing more, the system rightly does nothing.
Two saves of one file are what lets an event of the first be handled when the
second is being written; the second file gives a save that falls into the
callback of another. `MaxTouches` = 1 other change can restart the debounce. What
is saved has one header of each kind: none, the core's, layer one's; in file_saves
the last comes with a READ, in file_writes_on_core with a write. The number written
is the least one of an int of four bits, so that two writes wrap.
`MaxPushed` = 2 messages and `MaxFrames` = 2 frames are what order needs: a message
or fragment and the next one, a control frame between or after, each of the five
kinds in either place.
The shutdown is checked with two core nodes and one node of each other layer, so
with every kind of node and of connection; a node is destroyed before its peer in
one connection and after it in another. Two writes let a second one start while
frames of the first are still on their way; one round of a Run thread before the
end and one after it (`MaxRounds` = 1) let it send at any time until it is waited
for.

### Fairness

Every thread that can run does (weak fairness of each thread's steps, of the
receiving of frames and of the timeouts). A handler that waits for
`mtx_RequestQ` gets it although okeyCS takes and frees it again and again
(strong fairness of `HandleRelease`): okeyCS is called once per wakeup and
Windows' locks do not starve. Nothing is assumed of the user, who need not write
or close the program, nor of spurious wakeups, which are possible and promise
nothing; nor, in Monitor, of the other end, which may stay silent for ever, nor of the
system, which need not tell of a reset only once. In FileEvents the watcher's thread
runs, and a write may hang at any time. In
Shutdown every thread that can run does, the network and the timer with them, and
nobody has to write.

### What the runs found

*lamport_mutual_exclusion.* When two nodes request concurrently both may enter.
Between requestCS's Tick and its broadcast (LamportMutex.cpp:20-23) the handler
may answer a peer with a later time, which the peer takes as permission before
it gets the earlier REQUEST. `MutexUnlessRaced` states that this race and two
others (an insertion into the queue while okeyCS is between its two tests of a
peer, and a lost update of the clock) are the only ways. The controller's one
thread never requests concurrently, so CoreLayer is not affected:
`ImplementsStore` holds. The class, and the test code in CoreNode.cpp:20-29 that
calls it on every node, is.

*core_write_finishes.* READY is counted and `cv_Transaction` notified without
`mtx_Transaction` (CoreNode.cpp:87-88), and `cv_Wait` without `mtx_Wait`
(LamportMutex.cpp:101). If the last notify falls between the waiting thread's
look at its predicate and its sleep, the write never returns, nor does the
thread that executes all later files. `WriteFinishesUnlessMissed` and
`EnterUnlessMissed` show that there is no other reason for a write to hang while
the peers stay the same; Shutdown adds one, below. What a hanging write means for
the files saved after it is in FileEvents, for the end of the program in Shutdown.

*file_saves_run.* README.md says that saving a file executes it. The debounce
(FileWatcher.cpp:15) looks at no file name and is restarted by every event: a
save that comes while the callback of another file runs, or whose second event
follows the first, which found the file still empty, is never executed.
In this the file opens and every write returns. `SavesRunUnlessDropped` says that
there are two more ways to lose a save, and no fourth: a file that does not open for
its last event, and a write of an earlier callback that hangs.

*file_writes_on_core.* README.md permits writes on core nodes only; a read-only
file of layer one or two (header b1, b2) that holds a write has it executed
there, on each node alone (Controller.cpp:102-107). What it does to the versions
that come from the core is in Layers: the next SET replaces it, unless it comes
between the load and the store of the write, which then overwrites the SET.

*Met while modelling, at places of which no document says otherwise.* They are
the exceptions that properties name:

- A frame that is on its way when the nodes are destroyed may call the pure
  virtual HandleMsg (MsgHandler.cpp:26-28, 46-49) and abort the process:
  `CleanUnlessBusy`. It is never a write or a READY: `NoAnswerDue`.
- The predicate at CoreNode.cpp:66 compares the READYs with the number of core
  peers there are now. A peer that is accepted during a write makes the writer wait
  for a READY that nobody sends: `writer = Hung` in `EndsUnlessStuck`.
- A connection that is accepted after its node's sockets were cleared is closed by
  nobody, and ~MsgHandler waits for its thread: `late` in `EndsUnlessStuck`.
- The handshake with the monitor has no timeout and takes only 0 for a failed recv
  (easywsclient.cpp:511-519): a silent monitor, or a reset, keeps ~WebSocketClient
  from returning: `Stalled` in `JoinsUnlessStalled`. ~Node joins it (Node.h:32), so
  that the nodes after it are not destroyed: `stalled` in `EndsUnlessStuck`.
- A file that does not open is not tried again (TransactionReader.cpp:27):
  `unopened` in `SavesRunUnlessDropped`.
- A frame that is sent between the lines where Connect makes a peer known and where
  it sends the hello (MsgHandler.cpp:133, 136) is read as the hello, and a connection
  that is refused is only logged: `Lost` in `MeshedUnlessLost`.
- poll closes a handle twice when there was still something to send as the
  connection ended, and never if it cannot be sent before the thread leaves
  (easywsclient.cpp:219, 235): `HandleClosedOnce`.
- A queue of messages whose thread has ended only grows (Node.cpp:77):
  `LeavesUnlessAlone`.

## 4. The proofs

Every theorem is about the full specification and holds for all values of its
constants under their named assumptions: any number of nodes, calls, writes,
connections, checkpoints, files, frames, and streams of any length. All invariants
and action properties of the passing runs are proved, and the refinement.

| theorem | module | states |
|---|---|---|
| TypeCorrect | LamportMutexProofs | `Spec => []TypeOK` |
| QueuesSettled | LamportMutexProofs | `Spec => []QueuesSettle` |
| MutexWithoutRaces | LamportHistoryProofs | `HSpec => []MutexUnlessRaced`, when all three races are watched for |
| CoreTypeCorrect | CoreLayerProofs | `CoreSpec => []CoreTypeOK` |
| ReplicasAlwaysAgree | CoreLayerProofs | `CoreSpec => []ReplicasAgree` |
| ReadyAlwaysAccounted | CoreLayerProofs | `CoreSpec => []ReadyAccounting` |
| CoreImplementsStore | CoreLayerProofs | `CoreSpec => ImplementsStore` |
| ConnectionsTypeCorrect | ConnectionsProofs | `ConnectionsSpec => []ConnectionsTypeOK` |
| MeshedAtTheEnd | ConnectionsProofs | `ConnectionsSpec => []MeshedUnlessLost` |
| LayersTypeCorrect | LayersProofs | `LayersSpec => []LayersTypeOK` |
| AlwaysDownhill | LayersProofs | `LayersSpec => []Downhill` |
| NeverGoesBack | LayersProofs | `LayersSpec => NeverBack`, when the writes only add (`OnlyAdds`) |
| ShutdownTypeCorrect | ShutdownProofs | `ShutdownSpec => []ShutdownTypeOK` |
| CleanWhenIdle | ShutdownProofs | `ShutdownSpec => []CleanUnlessBusy` |
| NothingDue | ShutdownProofs | `ShutdownSpec => []NoAnswerDue` |
| FilesTypeCorrect | FileEventsProofs | `FilesSpec => []FilesTypeOK` |
| SavesNotForgotten | FileEventsProofs | `FilesSpec => []NoSaveForgotten` |
| WritesStayOnCore | FileEventsProofs | `FilesSpec => []WritesOnCoreUnlessAsked` |
| MonitorTypeCorrect | MonitorProofs | `MonitorSpec => []MonitorTypeOK` |
| AlwaysReportedInOrder | MonitorProofs | `MonitorSpec => []ReportedInOrder` |
| AlwaysHeardInOrder | MonitorProofs | `MonitorSpec => []HeardInOrder` |
| ClosedOnce | MonitorProofs | `MonitorSpec => []HandleClosedOnce` |

The assumptions are `NodeAssumption` (at least two nodes, whose ids are numbers), `MaxCallsAssumption`, `WritesAssumption`,
`UpdateCountAssumption`, `IntHalfAssumption`, `ConnectionsAssumption` (no node
connects to itself and no two twice, as in Controller.cpp:52-55),
`LayersAssumption` (no layer-two node has two parents, what is written is an int,
`None` is no node), `ShutdownAssumption`
(the nodes are destroyed once each; no two connect to each other both ways),
`FilesAssumption` (there is a file; the name of a file contains a core node or
none), `MonitorAssumption` and `NoneIsNoFrame`. The runs evaluate them for their
instances. `NeverGoesBack` alone has a hypothesis of its own: `OnlyAdds` says
that every write adds a number from 0 to M and that the writes that
`MaxCheckpoints` and `MaxBelow` allow stay within an int together. Without it a smaller
version need not be an older one. The instance of layers_spread satisfies it with
M = 1.

### The inductive invariants

`TypeOK`, `CoreTypeOK` and `ConnectionsTypeOK` are inductive as they stand; nothing else
is. What each rests on:

*`QueuesInv`* (QueuesSettle). Types, and `FromPeers`: what a handler works on
comes from a peer. What is on its way from m to n has a last REQUEST or RELEASE;
only m adds one, and when it does it is the word that `ToTell` spoke of and agrees
with m's entry; n's handler removes words from the front, so the last one goes to
the handler, and from there to n's entry, with the value unchanged.

*`RaceInv`* (MutexUnlessRaced): QueuesInv and, while no race has happened,
`Unraced`. Without a lost update the clock of a node is monotone and not behind
any time it has sent, on its way or applied (`Clock`). Without an answer between
Tick and the broadcast nothing later than a request overtakes it (`Order`). So
what okeyCS sees of a peer's clock, a time later than the own request, says that
any request that peer has or will have is later than the own one too (`Pass`; `Half`
carries what the first of the two tests saw to the second, which without an
insertion in between is still so). Two nodes that have both passed the other
would each be before the other.

*`ReplicaInv`* (ReplicasAgree, ReadyAccounting). One thread submits, so at most one
node is not idle (`OneWriter`). For each of its peers the write is in exactly one
place: still to be sent, on its way, a READY on its way, or counted (`Place`); hence
the counter and the peers that are still waited for add up to all peers (`Counts`),
and a write that returns has nobody to wait for, so nothing is left of it. The
peers that have executed it are one write ahead of those that have not, and each
group agrees (`Agree`); when the write is over there is one group.

*`StoreInv`* (ImplementsStore): ReplicaInv, and that the committed value can be read
off any node, as its replica or what its replica will be after the pending write
(`Commit`). A write is committed, once, when the first node executes it; each
node's update at its tenth write is then the store's `Forward`; every other step
stutters. The refinement mapping is the one TLC checks.

*`ConnectionsInv`* (MeshedUnlessLost). Connections are made in the order of the plan
(`Made`); one whose Connect has finished has sent something (`Spoken`); who knows
whom follows from the state of each connection (`Known`); and a connection is hasty
exactly if a frame is, or was, what its stream began with (`HastyLost`): a
frame can come first only between Register and Hello, when the stream is empty, so
what is sent later changes nothing.

*`LayersInv`* (Downhill). The versions from a child over its stream to its parent
stand on a ladder of checkpoints (`Ladder`, `Flow`): the child at place p, what is
in the stream between p and s, what the parent is sending at s, and the parent's
own at `taken`, s not after it. A step moves one of them up, appends at the top of
the stream or takes its foot. A version that a write below has made may stand on any
rung, so it stays on that of the one it replaced.

`NeverGoesBack` adds `Rising` and `Bounded` to it: the value of the store is at most
M times the number of writes so far, that of any node M more for each write below,
so nothing wraps; the checkpoints stand in ascending order; and what a write below
has made, while no SET came in between, is not smaller than what it was made from.
A new version from the core is then a checkpoint at a place not before the node's
own, and one from above that was written there is not smaller than the checkpoint at
its place.

*`ShutdownInv`* (CleanUnlessBusy, NoAnswerDue). `Progress` says what main has
waited for at each place, `Protocol` that between a writer and each of its peers
there is at most one write or READY, in a stream or in a handler's hands, and
elsewhere none: nobody waits, so nothing is due. `Peace` says that what was empty
when the first node went stays so: all who could send have been waited for, a
thread that peeks at an empty stream can only end, and no accept is left.

*`FilesInv`* (NoSaveForgotten, WritesOnCoreUnlessAsked). The types need `Bounded`, a
save that has not yet written the file counts as one of those allowed, and
NoSaveForgotten is inductive with the types: a save leaves a Modified event; an event that is taken
is handled, drops the file, or has another one of the file behind it; and a file
that does not open is recorded, unless another event of it is sure. The second needs
`TodoOnCore`: what is still to be executed is on a core node or no write. This
comes from what the reader's loop returns for every file (`ReadsAll`,
`ParsedType`, over the least counterexample of the loop's index) and from the arithmetic by which
ExecuteTransactionsOnLayer walks nodes and transactions (`OnLayerType`).

*`MonitorInv`* (ReportedInOrder, HeardInOrder, HandleClosedOnce). `Places` says at
which of the thread's places the socket may be open, closing or closed, and what
its buffers may then hold; `Handle` how often the handle has been closed, twice
only if there was still something to send. `Reported`: the text frames that were
sent or buffered are numbers 1 to k, the queue has the last of the pushed ones, and
what lies between was popped for a socket that was closing. `Dispatched`: there is
a frame b up to which everything was dispatched; the stream of halves, over the
receive buffer and the network, holds the frames after b as far as the connection
carries them, two halves of each but perhaps of the last; and what was put together
is of frames up to b. `Whole` adds that of these the data frames, and no others,
were put together, and `Marked` that `data` is right about those still to come,
which is what the next dispatched frame needs to keep `Whole` true.

### Only model-checked

Liveness, all of it: fairness and ENABLED are not within the prover's reach. These
are `EnterUnlessMissed`, `WriteFinishesUnlessMissed`, `Spreads`, `Stops`, `Starts`,
`SavesRunUnlessDropped`, `JoinsUnlessStalled`, `LeavesUnlessAlone` and
`EndsUnlessStuck`. The int arithmetic (`Wrap`) is proved to stay in range and to do
nothing to small numbers, but not to be that of the machine.

## 5. Not modelled

- Undefined behaviour of a container that two threads change at once, where its
  outcomes cannot be enumerated: the unordered_maps of the mutex and of the sockets
  (DirectClock.h, MsgHandler.cpp:91 and 104), and the vectors of peers that a write
  walks through while the start adds to them (CoreNode.cpp:49). Every access to an
  entry is atomic in the models. The race of two threads on an int below the core
  (Transaction.cpp:14) is modelled, as a load and a store.
- A write that comes before the core nodes are connected: the nodes that are not
  there yet miss it, and the replicas differ from then on. CoreLayer begins when they
  are connected; Connections has the frames of such a write, not its value.
- That the replicas overflow alike: one `Wrap` stands for all of them and for the
  store.
- A read of part of a frame (MsgHandler.cpp:45): five bytes that one call sends
  over a loopback connection are received whole.
- The efsw library, whose source is not in the repository: it is the environment of
  FileEvents. What its removeWatch waits for decides whether the listener may be
  called after its destruction (Controller.h:27).
- The bytes of the web socket's frames, masks and handshake, and the parts of
  easywsclient the program never calls.
- Failing binds and sends of `sockets/`, which are logged and otherwise ignored,
  the getters, `Log` and `Commons.h`.

## 6. Plan

- `Layers` composed with `Shutdown`: the wait of the Run threads is in both, with
  different detail.
- `FileEvents` with the writes of `CoreLayer` in place of the step that changes all
  core nodes at once, as a refinement of its own.
