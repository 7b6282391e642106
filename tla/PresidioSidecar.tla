-------------------------- MODULE PresidioSidecar --------------------------
(***************************************************************************)
(* The Presidio detector's sidecar (detector_presidio.go): a Python        *)
(* process spoken to over two pipes, one request line and one answer line  *)
(* at a time under d.mu.  It is started lazily by the first analysis or by *)
(* Start, marked dead by a broken exchange, and stopped by Close.  Every   *)
(* blocking system call is a step of its own; the process                  *)
(* (presidio/sidecar.py) runs, fails and dies between them.                *)
(***************************************************************************)
EXTENDS Naturals, Sequences, FiniteSets

CONSTANTS Callers,      \* goroutines calling the detector
          Texts,        \* texts to redact
          Procs,        \* sidecar processes that may be spawned
          MaxCalls,     \* bound: calls made
          MaxNoise,     \* bound: stray lines on a sidecar's stdout
          None

ASSUME NoneAssumption == None \notin Callers \cup Texts \cup Procs
ASSUME BoundAssumption == {MaxCalls, MaxNoise} \subseteq Nat
ASSUME TextsAssumption == Texts # {}

Ops == {"RedactPII", "Start", "Close"}
Lines == [kind : {"ready", "error", "noise"}] \cup [kind : {"entities"}, of : Texts]
ProcStates == {"unborn", "loading", "serving", "dead"}

\* What a call returns.  A redaction is the native one alone, or with the entities of a text.
Native == [kind |-> "native"]
Overlay(t) == [kind |-> "overlay", of |-> t]
Redactions == {Native} \cup {Overlay(t) : t \in Texts}
Results(o) == {None} \cup (IF o = "RedactPII" THEN Redactions ELSE [kind : {"ok", "failed"}])

ASSUME ResultAssumption == None \notin Redactions

VARIABLES
    mu,          \* the caller that holds d.mu, or None
    started, dead,
    cmd,         \* d.cmd: the sidecar last started, or None; d.stdin and d.stdout are its pipes
    op, text, pc, result,     \* of each caller: its call, where it is, what it returned
    spawned,     \* the process startLocked is starting, or None
    state,       \* of each process
    stdin, stdout,            \* of each process: lines written and not read
    calls, noise,             \* calls made, stray lines printed
    troubled     \* history: some exchange or start has failed

detector == <<started, dead, cmd, spawned>>
procs == <<state, stdin, stdout, noise>>
caller == <<op, text, pc, result, calls>>
vars == <<mu, detector, caller, procs, troubled>>

TypeOK ==
    /\ mu \in Callers \cup {None}
    /\ started \in BOOLEAN /\ dead \in BOOLEAN /\ troubled \in BOOLEAN
    /\ cmd \in Procs \cup {None} /\ spawned \in Procs \cup {None}
    /\ op \in [Callers -> Ops] /\ text \in [Callers -> Texts]
    /\ pc \in [Callers -> {"idle", "lock", "ready", "write", "read"}]
    /\ DOMAIN result = Callers /\ \A c \in Callers : result[c] \in Results(op[c])
    /\ state \in [Procs -> ProcStates]
    /\ stdin \in [Procs -> Seq(Texts)] /\ stdout \in [Procs -> Seq(Lines)]
    /\ calls \in 0..MaxCalls /\ noise \in 0..MaxNoise

Init ==
    /\ mu = None /\ started = FALSE /\ dead = FALSE /\ cmd = None /\ spawned = None
    /\ op \in [Callers -> {"RedactPII"}] /\ text \in [Callers -> {CHOOSE t \in Texts : TRUE}]
    /\ pc = [c \in Callers |-> "idle"] /\ result = [c \in Callers |-> None]
    /\ state = [p \in Procs |-> "unborn"]
    /\ stdin = [p \in Procs |-> <<>>] /\ stdout = [p \in Procs |-> <<>>]
    /\ calls = 0 /\ noise = 0 /\ troubled = FALSE

-----------------------------------------------------------------------------
(* Calls. *)

Call(c, o, t) ==
    /\ pc[c] = "idle" /\ calls < MaxCalls
    /\ calls' = calls + 1
    /\ op' = [op EXCEPT ![c] = o] /\ text' = [text EXCEPT ![c] = t]
    /\ pc' = [pc EXCEPT ![c] = "lock"] /\ result' = [result EXCEPT ![c] = None]
    /\ UNCHANGED <<mu, detector, procs, troubled>>

\* The call returns r and frees the lock.
Finish(c, r) ==
    /\ pc' = [pc EXCEPT ![c] = "idle"] /\ result' = [result EXCEPT ![c] = r]
    /\ mu' = None
    /\ UNCHANGED <<op, text, calls>>

Goto(c, l) == pc' = [pc EXCEPT ![c] = l] /\ mu' = c /\ UNCHANGED <<op, text, calls, result>>

\* A redaction whose analysis failed is the native one; Start returns the error.
Fallback(c) == IF op[c] = "RedactPII" THEN Native ELSE [kind |-> "failed"]

Fail(c) == Finish(c, Fallback(c)) /\ dead' = TRUE /\ troubled' = TRUE

(***************************************************************************)
(* The first step of a call under the lock.  startLocked returns at once   *)
(* when started is set, a dead sidecar included.                           *)
(***************************************************************************)
Enter(c) == pc[c] = "lock" /\ mu = None

AnalyzeWhenDead(c) ==
    /\ Enter(c) /\ op[c] = "RedactPII" /\ dead
    /\ Finish(c, Native)
    /\ UNCHANGED <<detector, procs, troubled>>

AnalyzeWhenStarted(c) ==
    /\ Enter(c) /\ op[c] = "RedactPII" /\ ~dead /\ started
    /\ Goto(c, "write")
    /\ UNCHANGED <<detector, procs, troubled>>

StartWhenStarted(c) ==
    /\ Enter(c) /\ op[c] = "Start" /\ started
    /\ Finish(c, [kind |-> "ok"])
    /\ UNCHANGED <<detector, procs, troubled>>

Starts(c) == Enter(c) /\ ~started /\ (op[c] = "Start" \/ (op[c] = "RedactPII" /\ ~dead))

\* A pipe or the process cannot be created.
SpawnFails(c) ==
    /\ Starts(c)
    /\ Fail(c)
    /\ UNCHANGED <<started, cmd, spawned, procs>>

Spawn(c, p) ==
    /\ Starts(c) /\ state[p] = "unborn"
    /\ state' = [state EXCEPT ![p] = "loading"] /\ spawned' = p
    /\ Goto(c, "ready")
    /\ UNCHANGED <<started, dead, cmd, stdin, stdout, noise, troubled>>

CloseNothing(c) ==
    /\ Enter(c) /\ op[c] = "Close" /\ cmd = None
    /\ Finish(c, [kind |-> "ok"])
    /\ UNCHANGED <<detector, procs, troubled>>

Killed(p) == [state EXCEPT ![p] = "dead"]

CloseMarksDead(c) ==                \* mutant: a closed sidecar counts as a dead one
    /\ Enter(c) /\ op[c] = "Close" /\ cmd # None
    /\ state' = Killed(cmd) /\ cmd' = None /\ started' = FALSE /\ dead' = TRUE
    /\ Finish(c, [kind |-> "ok"])
    /\ UNCHANGED <<spawned, stdin, stdout, noise, troubled>>

Close(c) ==
    /\ Enter(c) /\ op[c] = "Close" /\ cmd # None
    /\ state' = Killed(cmd) /\ cmd' = None /\ started' = FALSE
    /\ Finish(c, [kind |-> "ok"])
    /\ UNCHANGED <<dead, spawned, stdin, stdout, noise, troubled>>

-----------------------------------------------------------------------------
(* startLocked waits for the readiness line. *)

AtReady(c) == pc[c] = "ready" /\ mu = c

\* The end of the pipe, or a line that is not the readiness line.
NotReadyNotKilled(c) ==             \* mutant: the failed process is left running
    /\ AtReady(c)
    /\ \/ stdout[spawned] = <<>> /\ state[spawned] = "dead"
       \/ stdout[spawned] # <<>> /\ Head(stdout[spawned]).kind # "ready"
    /\ spawned' = None
    /\ Fail(c)
    /\ UNCHANGED <<started, cmd, state, stdin, stdout, noise>>

NotReady(c) ==
    /\ AtReady(c)
    /\ \/ stdout[spawned] = <<>> /\ state[spawned] = "dead"
       \/ stdout[spawned] # <<>> /\ Head(stdout[spawned]).kind # "ready"
    /\ state' = Killed(spawned) /\ spawned' = None
    /\ Fail(c)
    /\ UNCHANGED <<started, cmd, stdin, stdout, noise>>

Ready(c) ==
    /\ AtReady(c)
    /\ stdout[spawned] # <<>> /\ Head(stdout[spawned]).kind = "ready"
    /\ stdout' = [stdout EXCEPT ![spawned] = Tail(@)]
    /\ cmd' = spawned /\ spawned' = None /\ started' = TRUE /\ dead' = FALSE
    /\ IF op[c] = "Start" THEN Finish(c, [kind |-> "ok"]) ELSE Goto(c, "write")
    /\ UNCHANGED <<state, stdin, noise, troubled>>

-----------------------------------------------------------------------------
(* analyze exchanges one line for another. *)

WriteFails(c) ==
    /\ pc[c] = "write" /\ mu = c
    /\ state[cmd] = "dead"
    /\ Fail(c)
    /\ UNCHANGED <<started, cmd, spawned, procs>>

\* The kernel takes the line, even when the process is about to die.
Write(c) ==
    /\ pc[c] = "write" /\ mu = c
    /\ state[cmd] # "dead"
    /\ stdin' = [stdin EXCEPT ![cmd] = Append(@, text[c])]
    /\ Goto(c, "read")
    /\ UNCHANGED <<detector, state, stdout, noise, troubled>>

AtRead(c) == pc[c] = "read" /\ mu = c

MissEndOfPipe(c) == FALSE           \* mutant: the end of the pipe is not noticed

ReadFails(c) ==
    /\ AtRead(c)
    /\ stdout[cmd] = <<>> /\ state[cmd] = "dead"
    /\ Fail(c)
    /\ UNCHANGED <<started, cmd, spawned, procs>>

\* A line that is no answer at all; the answer may come after it.
SkipUndecodable(c) ==               \* mutant: the line is dropped and the sidecar kept
    /\ AtRead(c)
    /\ stdout[cmd] # <<>> /\ Head(stdout[cmd]).kind = "noise"
    /\ stdout' = [stdout EXCEPT ![cmd] = Tail(@)]
    /\ Finish(c, Native) /\ troubled' = TRUE
    /\ UNCHANGED <<detector, state, stdin, noise>>

Undecodable(c) ==
    /\ AtRead(c)
    /\ stdout[cmd] # <<>> /\ Head(stdout[cmd]).kind = "noise"
    /\ stdout' = [stdout EXCEPT ![cmd] = Tail(@)]
    /\ Fail(c)
    /\ UNCHANGED <<started, cmd, spawned, state, stdin, noise>>

\* The sidecar reports an error on this text and goes on serving.
ReadError(c) ==
    /\ AtRead(c)
    /\ stdout[cmd] # <<>> /\ Head(stdout[cmd]).kind = "error"
    /\ stdout' = [stdout EXCEPT ![cmd] = Tail(@)]
    /\ Finish(c, Native) /\ troubled' = TRUE
    /\ UNCHANGED <<detector, state, stdin, noise>>

ReadEntities(c) ==
    /\ AtRead(c)
    /\ stdout[cmd] # <<>> /\ Head(stdout[cmd]).kind = "entities"
    /\ stdout' = [stdout EXCEPT ![cmd] = Tail(@)]
    /\ Finish(c, Overlay(Head(stdout[cmd]).of))
    /\ UNCHANGED <<detector, state, stdin, noise, troubled>>

CallerStep(c) ==
    \/ AnalyzeWhenDead(c) \/ AnalyzeWhenStarted(c) \/ StartWhenStarted(c)
    \/ SpawnFails(c) \/ (\E p \in Procs : Spawn(c, p))
    \/ CloseNothing(c) \/ Close(c)
    \/ NotReady(c) \/ Ready(c)
    \/ WriteFails(c) \/ Write(c) \/ ReadFails(c) \/ Undecodable(c) \/ ReadError(c) \/ ReadEntities(c)

-----------------------------------------------------------------------------
(* The sidecar process, presidio/sidecar.py. *)

Says(p, l) == stdout' = [stdout EXCEPT ![p] = Append(@, l)]

Loaded(p) ==
    /\ state[p] = "loading"
    /\ state' = [state EXCEPT ![p] = "serving"]
    /\ Says(p, [kind |-> "ready"])
    /\ UNCHANGED <<mu, detector, caller, stdin, noise, troubled>>

ImportFails(p) ==
    /\ state[p] = "loading"
    /\ state' = Killed(p)
    /\ Says(p, [kind |-> "error"])
    /\ UNCHANGED <<mu, detector, caller, stdin, noise, troubled>>

\* One answer for each request line: the entities, or what went wrong with them.
Answer(p) ==
    /\ state[p] = "serving" /\ stdin[p] # <<>>
    /\ stdin' = [stdin EXCEPT ![p] = Tail(@)]
    /\ \/ Says(p, [kind |-> "entities", of |-> Head(stdin[p])])
       \/ Says(p, [kind |-> "error"])
    /\ UNCHANGED <<mu, detector, caller, state, noise, troubled>>

\* A library prints on stdout.
Noise(p) ==
    /\ state[p] \in {"loading", "serving"} /\ noise < MaxNoise
    /\ noise' = noise + 1
    /\ Says(p, [kind |-> "noise"])
    /\ UNCHANGED <<mu, detector, caller, state, stdin, troubled>>

Die(p) ==
    /\ state[p] \in {"loading", "serving"}
    /\ state' = Killed(p)
    /\ UNCHANGED <<mu, detector, caller, stdin, stdout, noise, troubled>>

Sidecar(p) == Loaded(p) \/ ImportFails(p) \/ Answer(p)

Next ==
    \/ \E c \in Callers : \E o \in Ops, t \in Texts : Call(c, o, t)
    \/ \E c \in Callers : CallerStep(c)
    \/ \E p \in Procs : Sidecar(p) \/ Noise(p) \/ Die(p)

(***************************************************************************)
(* A mutex starves no goroutine for ever, and a sidecar that runs loads    *)
(* and answers in the end: nothing in the detector bounds that wait.       *)
(***************************************************************************)
Fairness ==
    /\ \A c \in Callers : SF_vars(CallerStep(c))
    /\ \A p \in Procs : WF_vars(Sidecar(p))

Spec == Init /\ [][Next]_vars /\ Fairness

-----------------------------------------------------------------------------
(***************************************************************************)
(* A redaction is never overlaid with the entities of another text, though *)
(* a failed exchange may leave an answer in the pipe                       *)
(* (detector_presidio.go analyze: dead is set on every broken exchange).   *)
(***************************************************************************)
AnswersMatch ==
    \A c \in Callers :
        (result[c] # None /\ result[c].kind = "overlay") => result[c].of = text[c]

(***************************************************************************)
(* A sidecar that runs can be stopped: it is d.cmd, which Close kills, or  *)
(* the one being started (detector_presidio.go startLocked, Close).  It    *)
(* need not be in use: after a line that does not decode the process runs  *)
(* on, refused by every call, until an explicit Close.                     *)
(***************************************************************************)
RunningIsClosable ==
    \A p \in Procs : state[p] \in {"loading", "serving"} => p \in {cmd, spawned}

(***************************************************************************)
(* The detector falls back to the native redaction only when something has *)
(* failed: Close and a restart in between do not degrade it                *)
(* (detector_presidio.go analyze, Close).                                  *)
(***************************************************************************)
DegradedForAReason ==
    \A c \in Callers : result[c] = Native => troubled

\* Every call returns (detector_presidio.go: the sidecar's failures end every wait).
EveryCallReturns == \A c \in Callers : pc[c] = "lock" ~> pc[c] = "idle"
=============================================================================
