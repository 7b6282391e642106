------------------------------- MODULE Server -------------------------------
(***************************************************************************)
(* Processes of the memory-guard binary around one socket path and one     *)
(* store file: start-up and its fail-closed configuration (main.go), the   *)
(* socket and its connections (ipc.go), and the one-shot commands.         *)
(* What the verbs decide is MemoryGuard's subject and how a snapshot is    *)
(* written FileStore's; here a verb that mutates reads the whole file and  *)
(* then replaces it, both under the mutex of its process.                  *)
(***************************************************************************)
EXTENDS Naturals, Sequences, FiniteSets

CONSTANTS
    Servers,        \* processes started as `serve`
    OneShots,       \* processes started as `write` or `read`
    Misconfigured,  \* those with an unusable flag or environment variable
    Conns,          \* connections, each for one request
    None,
    FileLimit,      \* descriptors a process has for connections and what follows
    OtherFiles,     \* those that the store, the sidecar and the audit socket may hold
    MaxKills        \* bound: processes killed by a signal or a panic

Procs == Servers \cup OneShots
Verbs == Conns \cup OneShots        \* who may run a verb that mutates

ASSUME ProcessAssumption ==
    /\ Misconfigured \subseteq Procs /\ None \notin Procs \cup Conns
    /\ {FileLimit, OtherFiles, MaxKills} \subseteq Nat /\ OtherFiles < FileLimit

VARIABLES
    pc,         \* of each process: its next step, or how it ended
    path,       \* the process whose socket the path names, None when there is no file
    private,    \* whether that file has mode 0600
    at,         \* of each connection: "none", "queued", "accepted" or "closed"
    peer,       \* the process it is open to
    line,       \* what the client sent on it
    inside,     \* of each process: the connections, or the one-shot, inside g.mu
    snapshot,   \* of each of those: what its verb read from the file
    disk,       \* the entries in the file, named for the request that wrote them
    kills,      \* a bound's count: signals, and panics of the store
    \* History, not in the code:
    truth,      \* what disk would hold if every verb were atomic
    claimed,    \* whether a server took the path since the last kill or failure
    together    \* whether two processes ever used the store at the same time

sock  == <<path, private>>
conns == <<at, peer, line>>
store == <<inside, snapshot, disk, truth>>
history == <<claimed, together>>
vars  == <<pc, sock, conns, store, kills, history>>

ChmodFirst(p) ==        \* mutant: the mode is set before there is a socket
    IF p \in Servers THEN <<"configure", "chmod", "remove", "listen", "accept">>
    ELSE <<"configure", "verb">>

\* The order of main.go.  "configure" stands for the flags, the detector, the store and
\* the key policy, each of which may exit 2 and none of which others can see.
Steps(p) == IF p \in Servers THEN <<"configure", "remove", "listen", "chmod", "accept">>
                              ELSE <<"configure", "verb">>

Ended == {"exit0", "exit1", "exit2", "killed"}

Following(p) ==
    LET i == CHOOSE j \in DOMAIN Steps(p) : Steps(p)[j] = pc[p] IN Steps(p)[i + 1]

HasListened(p) == \E i, j \in DOMAIN Steps(p) :
                      i < j /\ Steps(p)[i] = "listen" /\ Steps(p)[j] = pc[p]

\* A process that has its configuration may use the store until it ends.
UsesStore(p) == pc[p] \in {"remove", "listen", "chmod", "accept", "verb"}

Goto(p, step) ==
    /\ pc' = [pc EXCEPT ![p] = step]
    /\ together' = (together \/ \E q, r \in Procs : q # r /\ UsesStore(q)' /\ UsesStore(r)')

Closed(cs) ==
    /\ at' = [c \in Conns |-> IF c \in cs THEN "closed" ELSE at[c]]
    /\ peer' = [c \in Conns |-> IF c \in cs THEN None ELSE peer[c]]
    /\ line' = [c \in Conns |-> IF c \in cs THEN None ELSE line[c]]

\* The end of a process resets its connections; its verbs stop where they are.
Dies(p, how) ==
    /\ Goto(p, how)
    /\ Closed({c \in Conns : peer[c] = p})
    /\ inside' = [inside EXCEPT ![p] = {}]
    /\ snapshot' = [v \in Verbs |-> IF v \in inside[p] THEN {} ELSE snapshot[v]]
    /\ UNCHANGED <<disk, truth>>

Lines == [op : {"validate_write", "verify_delete", "other"}, id : Verbs \cup {None}]

TypeOK ==
    /\ pc \in [Procs -> {"off", "configure", "remove", "listen", "chmod", "accept", "verb"}
                        \cup Ended]
    /\ \A p \in Procs : /\ pc[p] \in {"remove", "listen", "chmod", "accept"} => p \in Servers
                        /\ pc[p] = "verb" => p \in OneShots
    /\ path \in Servers \cup {None} /\ private \in BOOLEAN
    /\ at \in [Conns -> {"none", "queued", "accepted", "closed"}]
    /\ peer \in [Conns -> Servers \cup {None}]
    /\ line \in [Conns -> Lines \cup {None}]
    /\ \A c \in Conns : at[c] \in {"queued", "accepted"} => peer[c] # None
    /\ inside \in [Procs -> SUBSET Verbs] /\ snapshot \in [Verbs -> SUBSET Verbs]
    /\ disk \subseteq Verbs /\ truth \subseteq Verbs
    /\ kills \in 0..MaxKills /\ claimed \in BOOLEAN /\ together \in BOOLEAN

Init ==
    /\ pc = [p \in Procs |-> "off"]
    /\ path = None /\ private = FALSE
    /\ at = [c \in Conns |-> "none"] /\ peer = [c \in Conns |-> None]
    /\ line = [c \in Conns |-> None]
    /\ inside = [p \in Procs |-> {}] /\ snapshot = [v \in Verbs |-> {}]
    /\ disk = {} /\ truth = {} /\ kills = 0
    /\ claimed = FALSE /\ together = FALSE

-----------------------------------------------------------------------------
(* Start-up *)

Start(p) ==
    /\ pc[p] = "off"
    /\ Goto(p, Steps(p)[1])
    /\ UNCHANGED <<sock, conns, store, kills, claimed>>

Configure(p) ==
    /\ pc[p] = "configure" /\ p \notin Misconfigured
    /\ Goto(p, Following(p))
    /\ UNCHANGED <<sock, conns, store, kills, claimed>>

Refuse(p) ==
    /\ pc[p] = "configure" /\ p \in Misconfigured
    /\ Dies(p, "exit2")
    /\ UNCHANGED <<sock, kills, claimed>>

KeepSocket(p) ==        \* mutant: a stale file stays
    /\ pc[p] = "remove"
    /\ claimed' = TRUE
    /\ Goto(p, Following(p))
    /\ UNCHANGED <<sock, conns, store, kills>>

\* os.Remove takes whatever file is there, in use or stale.
Remove(p) ==
    /\ pc[p] = "remove"
    /\ path' = None
    /\ claimed' = TRUE
    /\ Goto(p, Following(p))
    /\ UNCHANGED <<private, conns, store, kills>>

Listen(p) ==
    /\ pc[p] = "listen" /\ path = None
    /\ path' = p /\ private' = FALSE
    /\ claimed' = TRUE
    /\ Goto(p, Following(p))
    /\ UNCHANGED <<conns, store, kills>>

CleanUpAfterBind(p) ==      \* mutant: the loser removes the winner's socket
    /\ pc[p] = "listen" /\ path # None
    /\ path' = None
    /\ Dies(p, "exit1")
    /\ UNCHANGED <<private, kills, claimed>>

\* Another process bound the path since Remove.
AddressInUse(p) ==
    /\ pc[p] = "listen" /\ path # None
    /\ Dies(p, "exit1")
    /\ UNCHANGED <<sock, kills, claimed>>

\* By path: it reaches whatever socket is there now.
Chmod(p) ==
    /\ pc[p] = "chmod"
    /\ private' = (private \/ path # None)
    /\ Goto(p, Following(p))
    /\ UNCHANGED <<path, conns, store, kills, claimed>>

-----------------------------------------------------------------------------
(* Connections *)

Connect(c) ==
    /\ at[c] = "none" /\ path # None /\ HasListened(path)
    /\ at' = [at EXCEPT ![c] = "queued"]
    /\ peer' = [peer EXCEPT ![c] = path]
    /\ UNCHANGED <<pc, sock, line, store, kills, history>>

\* Clients delete by the ids they were given.
Requests == {[op |-> "validate_write", id |-> None], [op |-> "other", id |-> None]}
               \cup {[op |-> "verify_delete", id |-> i] : i \in truth}

\* The first line, complete or cut short by the end of the stream.
Send(c) ==
    /\ at[c] \in {"queued", "accepted"} /\ line[c] = None
    /\ \E r \in Requests : line' = [line EXCEPT ![c] = r]
    /\ UNCHANGED <<pc, sock, at, peer, store, kills, history>>

\* Nothing but the end of the stream: no answer.
HangUp(c) ==
    /\ at[c] = "accepted" /\ line[c] = None
    /\ Closed({c})
    /\ UNCHANGED <<pc, sock, store, kills, history>>

OpenAt(p) == {c \in Conns : peer[c] = p /\ at[c] = "accepted"}

Accept(c) ==
    LET p == peer[c]
    IN  /\ at[c] = "queued" /\ pc[p] = "accept"
        /\ Cardinality(OpenAt(p)) < FileLimit
        /\ at' = [at EXCEPT ![c] = "accepted"]
        /\ UNCHANGED <<pc, sock, peer, line, store, kills, history>>

\* Out of descriptors: serve returns, and its deferred Close unlinks the path,
\* whosever socket that is by now.
AcceptFails(c) ==
    LET p == peer[c]
    IN  /\ at[c] = "queued" /\ pc[p] = "accept"
        /\ Cardinality(OpenAt(p)) + OtherFiles >= FileLimit
        /\ path' = None
        /\ claimed' = FALSE
        /\ Dies(p, "exit1")
        /\ UNCHANGED <<private, kills>>

-----------------------------------------------------------------------------
(* Requests *)

Busy(c) == at[c] = "accepted" /\ line[c] # None

EnterUnlocked(p, v) ==      \* mutant: a verb does not wait for the mutex
    /\ inside' = [inside EXCEPT ![p] = @ \cup {v}]
    /\ snapshot' = [snapshot EXCEPT ![v] = disk]
    /\ UNCHANGED <<pc, sock, conns, disk, truth, kills, history>>

Enter(p, v) ==
    /\ inside[p] = {}
    /\ inside' = [inside EXCEPT ![p] = {v}]
    /\ snapshot' = [snapshot EXCEPT ![v] = disk]
    /\ UNCHANGED <<pc, sock, conns, disk, truth, kills, history>>

Applied(entries, v) ==
    IF v \in Conns /\ line[v].op = "verify_delete" THEN entries \ {line[v].id}
    ELSE entries \cup {v}

SaveKeepsLock(p, v) ==      \* mutant: a return without Unlock
    /\ v \in inside[p]
    /\ disk' = Applied(snapshot[v], v)
    /\ truth' = Applied(truth, v)
    /\ snapshot' = [snapshot EXCEPT ![v] = {}]
    /\ UNCHANGED <<sock, inside, kills, claimed>>

Save(p, v) ==
    /\ v \in inside[p]
    /\ disk' = Applied(snapshot[v], v)
    /\ truth' = Applied(truth, v)
    /\ inside' = [inside EXCEPT ![p] = @ \ {v}]
    /\ snapshot' = [snapshot EXCEPT ![v] = {}]
    /\ UNCHANGED <<sock, kills, claimed>>

\* Load and replace, both under g.mu; then the answer is sent and the connection closed.
HandleMutation(c) ==
    /\ Busy(c) /\ line[c].op # "other"
    /\ \/ c \notin inside[peer[c]] /\ Enter(peer[c], c)
       \/ Save(peer[c], c) /\ Closed({c}) /\ UNCHANGED <<pc, together>>

\* Reads, reviews, ping, rejected writes, an unknown op and a line that does not parse.
HandleOther(c) ==
    /\ Busy(c) /\ line[c].op = "other"
    /\ Closed({c})
    /\ UNCHANGED <<pc, sock, store, kills, history>>

\* `write`, and `read`, which first writes what it then looks for.
OneShot(p) ==
    /\ pc[p] = "verb"
    /\ \/ p \notin inside[p] /\ Enter(p, p)
       \/ Save(p, p) /\ Goto(p, "exit0") /\ UNCHANGED conns

Kill(p) ==
    /\ kills < MaxKills /\ pc[p] \in {"remove", "listen", "chmod", "accept", "verb"}
    /\ kills' = kills + 1
    /\ claimed' = FALSE
    /\ Dies(p, "killed")
    /\ UNCHANGED sock

-----------------------------------------------------------------------------
Run(p) == Configure(p) \/ Refuse(p) \/ Remove(p) \/ Listen(p) \/ AddressInUse(p) \/ Chmod(p)
             \/ OneShot(p)
Serve(c) == Accept(c) \/ AcceptFails(c) \/ HandleMutation(c) \/ HandleOther(c)
Client(c) == Connect(c) \/ Send(c) \/ HangUp(c)

Next ==
    \/ \E p \in Procs : Start(p) \/ Run(p) \/ Kill(p)
    \/ \E c \in Conns : Serve(c) \/ Client(c)

Spec == Init /\ [][Next]_vars

\* Processes and their goroutines are scheduled; a goroutine gets its mutex in the end.
\* Nobody has to start or kill a process, or to send anything.
FairSpec == Spec /\ (\A p \in Procs : WF_vars(Run(p))) /\ (\A c \in Conns : SF_vars(Serve(c)))

-----------------------------------------------------------------------------
(***************************************************************************)
(* A server that accepts connections through the path does so through a    *)
(* socket of mode 0600, although others may remove, bind and chmod the     *)
(* same path meanwhile (ipc.go serve, docs/spec/behaviors.md B-004).       *)
(***************************************************************************)
ServedPathIsPrivate == path # None /\ pc[path] = "accept" => private

(***************************************************************************)
(* However the starts of several servers race for the path, one of them    *)
(* serves on it in the end: when one has claimed the path since the last   *)
(* kill or failure, then once every start has run its course the path      *)
(* names an accepting server (ipc.go:13-19).  Neither a stale socket nor a *)
(* running server prevents it.                                             *)
(***************************************************************************)
Settled == \A p \in Servers : pc[p] \in Ended \cup {"off", "accept"}

RacingStartsLeaveAServer == Settled /\ claimed => path # None /\ pc[path] = "accept"

(***************************************************************************)
(* The store file loses an entry, or gets a deleted one back, only when    *)
(* two processes used it at the same time, which ADR-012 rules out: the    *)
(* connections of one process never overwrite each other's updates,        *)
(* whichever process is killed in between (guard.go g.mu, store_file.go).  *)
(***************************************************************************)
LostUpdatesNeedTwoProcesses == disk # truth => together

(***************************************************************************)
(* A request that was sent is answered, or its connection is reset when    *)
(* the server ends, whatever the other clients do: a silent one keeps its  *)
(* own goroutine waiting and no other (ipc.go:25, handleConn).             *)
(***************************************************************************)
SentRequestEnds ==
    \A c \in Conns : line[c] # None ~> at[c] = "closed"
=============================================================================
