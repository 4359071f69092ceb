----------------------------- MODULE FileEvents -----------------------------
(***************************************************************************)
(* From saving a file to the transactions it makes: FileWatcher and        *)
(* TransactionReader (src/src/transactions) and                            *)
(* Controller::FileModifiedCallback with what it calls.                    *)
(*                                                                         *)
(* One thread of the efsw library calls handleFileAction for every change  *)
(* in the directory, one after another.  The callback reads the file as it *)
(* is by then and executes its transactions before it returns.             *)
(***************************************************************************)
EXTENDS Transaction, Sequences, Functions

CONSTANTS
    Node,       \* the nodes of all layers
    Members,    \* Members[l]: the nodes of layer l, in the order of the array
    File,       \* the files of the directory
    Target,     \* the core node that the name of a file contains, or None
    Contents,   \* what users save
    None,
    MaxSaves,   \* bound: saves of each file
    MaxTouches  \* bound: changes that modify no file

Core == Range(Members[0])

\* Parsed tokens: r(...), w(sum|subs|mult,...), and those that are neither.
Token == [type : WriteType \cup {"READ", "UNKOWN"}, value : Version]

\* The header is the digit after the b, or None when there is none.
Header == 0 .. 9 \cup {None}

ASSUME FilesAssumption ==
    /\ File # {}
    /\ Members \in [0 .. 2 -> Seq(Node)]
    /\ Target \in [File -> Core \cup {None}]
    /\ Contents \subseteq [header : Header, body : Seq(Token)]
    /\ MaxSaves \in [File -> Nat] /\ MaxTouches \in Nat

VARIABLES
    contents,   \* what is in each file
    writing,    \* the save that has emptied the file and not yet written it
    saved,      \* how many times a file has been saved
    touches,    \* how many other changes there were
    events,     \* the changes that handleFileAction has not been called for
    at,         \* where the thread is: idle, read, execute; hung in a write
    file,       \* the file of the callback in progress
    todo,       \* the transactions it has still to execute, with their nodes
    quiet,      \* more than 500 microseconds since handleFileAction returned
    version,    \* m_Transaction of every node
    read,       \* the last save of each file that was read as a whole
    dropped,    \* files whose last event since they were saved was not handled
    unopened    \* or was, but the file did not open

userVars == <<contents, writing, saved, touches>>
lostVars == <<dropped, unopened>>
filesVars == <<userVars, events, at, file, todo, quiet, version, read, lostVars>>

Empty == [header |-> None, body |-> <<>>]

FilesTypeOK ==
    /\ contents \in [File -> Contents \cup {Empty}]
    /\ writing \in [File -> Contents \cup {Empty, None}]
    /\ saved \in [File -> Nat] /\ read \in [File -> Nat]
    /\ \A f \in File : read[f] <= saved[f] /\ saved[f] <= MaxSaves[f]
    /\ touches \in 0 .. MaxTouches
    /\ events \in Seq([file : File, action : {"Modified", "Other"}])
    /\ at \in {"idle", "read", "execute", "hung"}
    /\ file \in File
    /\ todo \in Seq([node : Node, trans : Token])
    /\ quiet \in BOOLEAN
    /\ version \in [Node -> Version]
    /\ dropped \subseteq File /\ unopened \subseteq File

FilesInit ==
    /\ contents = [f \in File |-> Empty]
    /\ writing = [f \in File |-> None]
    /\ saved = [f \in File |-> 0]
    /\ touches = 0
    /\ events = <<>>
    /\ at = "idle"
    /\ file = CHOOSE f \in File : TRUE
    /\ todo = <<>>
    /\ quiet = FALSE
    /\ version = [n \in Node |-> 0]
    /\ read = [f \in File |-> 0]
    /\ dropped = {} /\ unopened = {}

-----------------------------------------------------------------------------
(* The editor and the file system *)

Modified(f) == [file |-> f, action |-> "Modified"]

Changed(f, action) == events' = Append(events, [file |-> f, action |-> action])

\* Another change of f will be reported: it is in rest, or the editor is not done.
Awaited(f, rest) == writing[f] # None \/ \E i \in DOMAIN rest : rest[i] = Modified(f)

\* A save empties the file and then writes it, two changes of the directory.
Truncate(f, c) ==
    /\ writing[f] = None
    /\ saved[f] < MaxSaves[f]
    /\ contents' = [contents EXCEPT ![f] = Empty]
    /\ writing' = [writing EXCEPT ![f] = c]
    /\ Changed(f, "Modified")
    /\ UNCHANGED <<saved, touches, at, file, todo, quiet, version, read, lostVars>>

WriteOut(f) ==
    /\ writing[f] # None
    /\ contents' = [contents EXCEPT ![f] = writing[f]]
    /\ writing' = [writing EXCEPT ![f] = None]
    /\ saved' = [saved EXCEPT ![f] = @ + 1]
    /\ dropped' = dropped \ {f} /\ unopened' = unopened \ {f}
    /\ Changed(f, "Modified")
    /\ UNCHANGED <<touches, at, file, todo, quiet, version, read>>

\* Something is added, deleted or moved.
Touch(f) ==
    /\ touches < MaxTouches
    /\ touches' = touches + 1
    /\ Changed(f, "Other")
    /\ UNCHANGED <<contents, writing, saved>>
    /\ UNCHANGED <<at, file, todo, quiet, version, read, lostVars>>

-----------------------------------------------------------------------------
(* TransactionReader *)

\* Mutant: a header without a layer stands for layer one.
parseLayerOne(header) == IF header \in 1 .. 2 THEN header ELSE 1

\* What is not the number of a layer below the core stands for the core.
parseLayer(header) == IF header \in 1 .. 2 THEN header ELSE 0

isReadOnly(header) == header \in 0 .. 2

\* The tokens are pushed one after another, but for those that are UNKOWN.
Parsed(body) ==
    LET first[i \in 0 .. Len(body)] ==
            IF i = 0 THEN <<>>
            ELSE IF body[i].type = "UNKOWN" THEN first[i - 1]
            ELSE Append(first[i - 1], body[i])
    IN  first[Len(body)]

ReadTransactions(c) ==
    [layer        |-> parseLayer(c.header),
     readOnly     |-> isReadOnly(c.header),
     transactions |-> Parsed(c.body)]

-----------------------------------------------------------------------------
(* Controller::FileModifiedCallback *)

\* ExecuteTransactionsOnLayer: each transaction on every node of the layer.
OnLayer(layer, transactions) ==
    LET nodes == Members[layer]
        m == Len(nodes)
    IN  [i \in 1 .. Len(transactions) * m |->
            [node |-> nodes[((i - 1) % m) + 1], trans |-> transactions[((i - 1) \div m) + 1]]]

\* Which node executes what: a file that is not read-only goes to the core node
\* its name contains, if any; a read-only one to all nodes of its layer.
Dispatch(f, r) ==
    IF r.readOnly THEN OnLayer(r.layer, r.transactions)
    ELSE IF Target[f] = None THEN <<>>
    ELSE [i \in DOMAIN r.transactions |->
             [node |-> Target[f], trans |-> r.transactions[i]]]

\* The file is opened and read, as it is now.
ReadFile ==
    /\ at = "read"
    /\ at' = "execute"
    /\ todo' = Dispatch(file, ReadTransactions(contents[file]))
    /\ read' = IF writing[file] = None
               THEN [read EXCEPT ![file] = saved[file]] ELSE read
    /\ UNCHANGED <<userVars, events, file, quiet, version, lostVars>>

\* Or it does not open, at any time: there is then no transaction to execute, on
\* whatever layer was in memory, and nothing is tried again.
ReadFileFails ==
    /\ at = "read"
    /\ at' = "execute"
    /\ todo' = <<>>
    /\ unopened' = IF Awaited(file, events) THEN unopened ELSE unopened \cup {file}
    /\ UNCHANGED <<userVars, events, file, quiet, version, read, dropped>>

\* The transaction t is executed on some nodes.
ExecuteOn(on, t) ==
    version' = [n \in Node |-> IF n \in on THEN ExecuteTransaction(t, version[n])
                                           ELSE version[n]]

\* ExecuteTransaction on the next node.  READ shows the version.  A write on a
\* core node is executed by all of them before the call returns, which is what
\* CoreLayer implements; on the other nodes it is Node::ExecuteTransaction.
Execute ==
    /\ at = "execute"
    /\ todo # <<>>
    /\ todo' = Tail(todo)
    /\ LET n == Head(todo).node
       IN  ExecuteOn(IF n \in Core THEN Core ELSE {n}, Head(todo).trans)
    /\ UNCHANGED <<userVars, events, at, file, quiet, read, lostVars>>

\* The write of a core node does not return: it has missed the last notify before
\* any node executed it, in requestCS, or after all have, while it waits for their
\* READYs (CoreLayer's WriteFinishes).
Hang ==
    /\ at = "execute"
    /\ todo # <<>>
    /\ Head(todo).node \in Core /\ Head(todo).trans.type \in WriteType
    /\ at' = "hung"
    /\ \E on \in {{}, Core} : ExecuteOn(on, Head(todo).trans)
    /\ UNCHANGED <<userVars, events, file, todo, quiet, read, lostVars>>

-----------------------------------------------------------------------------
(* FileWatcher::handleFileAction *)

\* What the debounce does not let through is lost when nothing of it will follow.
Debounced(e) ==
    dropped' = dropped \cup {f \in {e.file} : e.action = "Modified" /\ ~Awaited(f, events')}

\* Mutant: the case of the switch is that of another action.
HandleFileActionOther ==
    /\ at = "idle"
    /\ events # <<>>
    /\ events' = Tail(events)
    /\ LET e == Head(events)
       IN  \/ quiet /\ e.action # "Modified"
              /\ at' = "read" /\ file' = e.file /\ UNCHANGED <<quiet, dropped>>
           \/ quiet /\ e.action = "Modified"
              /\ quiet' = FALSE /\ UNCHANGED <<at, file, dropped>>
           \/ ~quiet /\ Debounced(e) /\ UNCHANGED <<quiet, at, file>>
    /\ UNCHANGED <<userVars, todo, version, read, unopened>>

\* The handler is called for a Modified event that comes more than 500
\* microseconds after the last call returned.  Every other event, one of
\* another kind too, only makes the next wait longer.
HandleFileAction ==
    /\ at = "idle"
    /\ events # <<>>
    /\ events' = Tail(events)
    /\ LET e == Head(events)
       IN  IF quiet /\ e.action = "Modified"
           THEN at' = "read" /\ file' = e.file /\ UNCHANGED <<quiet, dropped>>
           ELSE quiet' = FALSE /\ Debounced(e) /\ UNCHANGED <<at, file>>
    /\ UNCHANGED <<userVars, todo, version, read, unopened>>

\* The handler has returned.
Return ==
    /\ at = "execute"
    /\ todo = <<>>
    /\ at' = "idle"
    /\ quiet' = FALSE
    /\ UNCHANGED <<userVars, events, file, todo, version, read, lostVars>>

\* 500 microseconds pass.
Elapse ==
    /\ at = "idle"
    /\ ~quiet
    /\ quiet' = TRUE
    /\ UNCHANGED <<userVars, events, at, file, todo, version, read, lostVars>>

-----------------------------------------------------------------------------
Watcher == HandleFileAction \/ ReadFile \/ ReadFileFails \/ Execute \/ Hang \/ Return

FilesNext ==
    \/ \E f \in File :
        \/ \E c \in Contents : Truncate(f, c)
        \/ WriteOut(f) \/ Touch(f)
    \/ Watcher \/ Elapse

FilesSpec == FilesInit /\ [][FilesNext]_filesVars

\* The library's thread runs until a write hangs, time passes, and a save that
\* has begun ends.  Nobody has to save.
FilesFairness ==
    /\ WF_filesVars(Watcher) /\ WF_filesVars(Elapse)
    /\ \A f \in File : WF_filesVars(WriteOut(f))

FairFilesSpec == FilesSpec /\ FilesFairness

-----------------------------------------------------------------------------
(* Properties *)

\* "At the moment of saving the file, the filewatch sistem will trigger an
\* interrupt and will execute the command on the specified node"
\* (src/README.md:20): what is saved is read, and then executed, or a newer
\* save is; also if no file fails to open and no write fails to return.
SavesRun ==
    \A f \in File : \A k \in 1 .. MaxSaves[f] :
        saved[f] >= k ~> read[f] >= k \/ f \in unopened \/ at = "hung"

\* It is, but for three ways to lose it: the debounce of FileWatcher.cpp:15 drops
\* the last event of the save; the file does not open for that event, and nothing
\* tries again (TransactionReader.cpp:27); or the thread hangs in a write of an
\* earlier callback (Controller.cpp:91).  No order of saves, of other changes, of
\* files that are read half-written and of callbacks that take long is a fourth.
SavesRunUnlessDropped ==
    \A f \in File : \A k \in 1 .. MaxSaves[f] :
        saved[f] >= k ~> read[f] >= k \/ f \in dropped \/ f \in unopened \/ at = "hung"

\* What that rests on: a save that was neither read, dropped nor met a file that
\* does not open is still to be reported or written, or its callback is about to
\* read it.  The callback reads what the file holds by then, not what was saved
\* when the event was made (FileWatcher.cpp:15-24, TransactionReader.cpp:10).
NoSaveForgotten ==
    \A f \in File :
        read[f] < saved[f] /\ f \notin dropped \cup unopened =>
            Awaited(f, events) \/ (at = "read" /\ file = f)

\* "Write operations are only perimitted on Core Nodes" (src/README.md:20): what
\* the files say changes no version below the core layer.
WritesOnCoreOnly == \A n \in Node \ Core : version[n] = 0

\* It may change them only because a file whose header names one of the lower
\* layers holds a write: then it is on every node of that layer that the write is
\* executed (Controller.cpp:94-107).
AskedBelow ==
    \E c \in Contents : c.header \in {1, 2} /\ \E t \in Range(c.body) : t.type \in WriteType

WritesOnCoreUnlessAsked == AskedBelow \/ WritesOnCoreOnly
=============================================================================
