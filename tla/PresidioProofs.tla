--------------------------- MODULE PresidioProofs ---------------------------
(***************************************************************************)
(* Proofs about the Presidio sidecar, for any number of callers, texts and *)
(* processes.                                                              *)
(***************************************************************************)
EXTENDS PresidioSidecar, TLAPS

\* Who holds d.mu, what it is doing, and which process it may speak to.
LockInv ==
    /\ \A c \in Callers : pc[c] \in {"ready", "write", "read"} <=> mu = c
    /\ \A c \in Callers : pc[c] \in {"write", "read"} => op[c] = "RedactPII" /\ started
    /\ \A c \in Callers : pc[c] = "ready" => op[c] # "Close" /\ ~started /\ spawned # None
    /\ spawned # None => mu # None /\ pc[mu] = "ready"
    /\ started <=> cmd # None

-----------------------------------------------------------------------------
(* Type correctness *)

LEMMA ResultTypes ==
    /\ \A o \in Ops : None \in Results(o)
    /\ Native \in Results("RedactPII")
    /\ \A t \in Texts : Overlay(t) \in Results("RedactPII")
    /\ \A o \in {"Start", "Close"}, k \in {"ok", "failed"} : [kind |-> k] \in Results(o)
BY DEF Results, Redactions, Ops

\* What a call that returns leaves, given what it returns.
LEMMA FinishType ==
    ASSUME TypeOK, NEW c \in Callers, NEW r \in Results(op[c]), Finish(c, r)
    PROVE  /\ mu' \in Callers \cup {None} /\ calls' \in 0..MaxCalls
           /\ op' \in [Callers -> Ops] /\ text' \in [Callers -> Texts]
           /\ pc' \in [Callers -> {"idle", "lock", "ready", "write", "read"}]
           /\ DOMAIN result' = Callers /\ \A d \in Callers : result'[d] \in Results(op'[d])
<1>1. \A d \in Callers : result'[d] = IF d = c THEN r ELSE result[d]
    BY DEF Finish, TypeOK
<1> QED BY <1>1 DEF Finish, TypeOK

LEMMA GotoKeepsType ==
    ASSUME TypeOK, NEW c \in Callers, NEW l \in {"ready", "write", "read"}, Goto(c, l)
    PROVE  /\ mu' \in Callers \cup {None} /\ calls' \in 0..MaxCalls
           /\ op' \in [Callers -> Ops] /\ text' \in [Callers -> Texts]
           /\ pc' \in [Callers -> {"idle", "lock", "ready", "write", "read"}]
           /\ DOMAIN result' = Callers /\ \A d \in Callers : result'[d] \in Results(op'[d])
BY DEF Goto, TypeOK

LEMMA FallbackType ==
    ASSUME NEW c, op[c] \in {"RedactPII", "Start"}
    PROVE  Fallback(c) \in Results(op[c])
BY ResultTypes DEF Fallback

LEMMA SaysType ==
    ASSUME TypeOK, NEW p \in Procs, NEW l \in Lines, Says(p, l)
    PROVE  stdout' \in [Procs -> Seq(Lines)]
<1>1. Append(stdout[p], l) \in Seq(Lines)
    BY DEF TypeOK
<1> QED BY <1>1 DEF TypeOK, Says

\* Reading a line.
LEMMA TailType ==
    ASSUME TypeOK, NEW p \in Procs, stdout[p] # <<>>
    PROVE  /\ [stdout EXCEPT ![p] = Tail(@)] \in [Procs -> Seq(Lines)]
           /\ Head(stdout[p]) \in Lines
<1>1. stdout[p] \in Seq(Lines)
    BY DEF TypeOK
<1>2. Tail(stdout[p]) \in Seq(Lines) /\ Head(stdout[p]) \in Lines
    BY <1>1
<1> QED BY <1>2 DEF TypeOK

LEMMA TypeInductive == TypeOK /\ LockInv /\ [Next]_vars => TypeOK'
<1> SUFFICES ASSUME TypeOK, LockInv, [Next]_vars PROVE TypeOK'
    OBVIOUS
<1>1. ASSUME NEW c \in Callers, NEW o \in Ops, NEW t \in Texts, Call(c, o, t) PROVE TypeOK'
    <2>1. \A d \in Callers : /\ op'[d] = IF d = c THEN o ELSE op[d]
                             /\ result'[d] = IF d = c THEN None ELSE result[d]
        BY <1>1 DEF Call, TypeOK
    <2>2. \A d \in Callers : result'[d] \in Results(op'[d])
        BY <2>1, ResultTypes DEF TypeOK
    <2>3. calls' \in 0..MaxCalls
        <3>1. calls' = calls + 1 /\ calls < MaxCalls
            BY <1>1 DEF Call
        <3> QED BY <3>1, BoundAssumption DEF TypeOK
    <2> QED BY <1>1, <2>2, <2>3 DEF Call, TypeOK, detector, procs
<1>2. ASSUME NEW c \in Callers, NEW r \in Results(op[c]), Finish(c, r),
             stdout' \in [Procs -> Seq(Lines)],
             dead' \in BOOLEAN, troubled' \in BOOLEAN, UNCHANGED <<started, cmd, stdin, noise>>,
             spawned' \in {spawned, None}, state' \in [Procs -> ProcStates]
      PROVE  TypeOK'
    BY <1>2, FinishType DEF TypeOK
<1>3. ASSUME NEW c \in Callers,
             AnalyzeWhenDead(c) \/ StartWhenStarted(c) \/ CloseNothing(c) PROVE TypeOK'
    <2>1. PICK r \in Results(op[c]) : Finish(c, r)
        BY <1>3, ResultTypes DEF AnalyzeWhenDead, StartWhenStarted, CloseNothing
    <2>2. UNCHANGED <<detector, procs, troubled>>
        BY <1>3 DEF AnalyzeWhenDead, StartWhenStarted, CloseNothing
    <2> QED BY <1>2, <2>1, <2>2 DEF TypeOK, detector, procs
<1>4. ASSUME NEW c \in Callers, Close(c) PROVE TypeOK'
    <2>1. [kind |-> "ok"] \in Results(op[c]) /\ Finish(c, [kind |-> "ok"])
        BY <1>4, ResultTypes DEF Close, Enter
    <2>2. state' \in [Procs -> ProcStates] /\ cmd' = None /\ started' = FALSE
        BY <1>4 DEF Close, Killed, TypeOK, ProcStates
    <2> QED BY <1>4, <2>1, <2>2, FinishType DEF Close, TypeOK
<1>5. ASSUME NEW c \in Callers,
             SpawnFails(c) \/ NotReady(c) \/ WriteFails(c) \/ ReadFails(c)
      PROVE  TypeOK'
    <2>1. op[c] \in {"RedactPII", "Start"}
        BY <1>5 DEF SpawnFails, Starts, NotReady, AtReady, WriteFails, ReadFails, AtRead, LockInv,
                    TypeOK, Ops
    <2>2. Fail(c)
        BY <1>5 DEF SpawnFails, NotReady, WriteFails, ReadFails
    <2>3. Fallback(c) \in Results(op[c]) /\ Finish(c, Fallback(c)) /\ dead' /\ troubled'
        BY <2>1, <2>2, FallbackType DEF Fail
    <2>4. UNCHANGED <<started, cmd, stdin, stdout, noise>> /\ spawned' \in {spawned, None}
        BY <1>5 DEF SpawnFails, NotReady, WriteFails, ReadFails, procs
    <2>5. state' \in [Procs -> ProcStates]
        BY <1>5 DEF SpawnFails, NotReady, WriteFails, ReadFails, procs, Killed, TypeOK, ProcStates
    <2>6. dead' \in BOOLEAN /\ troubled' \in BOOLEAN /\ stdout' \in [Procs -> Seq(Lines)]
        BY <2>2, <2>4 DEF Fail, TypeOK
    <2> QED BY <1>2, <2>3, <2>4, <2>5, <2>6
<1>6. ASSUME NEW c \in Callers, AnalyzeWhenStarted(c) PROVE TypeOK'
    BY <1>6, GotoKeepsType DEF AnalyzeWhenStarted, TypeOK, detector, procs
<1>7. ASSUME NEW c \in Callers, NEW p \in Procs, Spawn(c, p) PROVE TypeOK'
    <2>1. state' \in [Procs -> ProcStates]
        BY <1>7 DEF Spawn, TypeOK, ProcStates
    <2> QED BY <1>7, <2>1, GotoKeepsType DEF Spawn, TypeOK
<1>8. ASSUME NEW c \in Callers, Ready(c) PROVE TypeOK'
    <2>1. op[c] = "Start" => [kind |-> "ok"] \in Results(op[c])
        BY ResultTypes
    <2>2. /\ mu' \in Callers \cup {None} /\ calls' \in 0..MaxCalls
          /\ op' \in [Callers -> Ops] /\ text' \in [Callers -> Texts]
          /\ pc' \in [Callers -> {"idle", "lock", "ready", "write", "read"}]
          /\ DOMAIN result' = Callers /\ \A d \in Callers : result'[d] \in Results(op'[d])
        BY <1>8, <2>1, FinishType, GotoKeepsType DEF Ready
    <2>3. spawned \in Procs
        BY <1>8 DEF Ready, AtReady, LockInv, TypeOK
    <2>4. stdout' \in [Procs -> Seq(Lines)]
        BY <1>8, <2>3, TailType DEF Ready
    <2> QED BY <1>8, <2>2, <2>4 DEF Ready, TypeOK
<1>9. ASSUME NEW c \in Callers, Write(c) PROVE TypeOK'
    <2>1. cmd \in Procs
        BY <1>9 DEF Write, LockInv, TypeOK
    <2>2. Append(stdin[cmd], text[c]) \in Seq(Texts)
        BY <2>1 DEF TypeOK
    <2> QED BY <1>9, <2>1, <2>2, GotoKeepsType DEF Write, TypeOK, detector
<1>10. ASSUME NEW c \in Callers, Undecodable(c) \/ ReadError(c) \/ ReadEntities(c)
       PROVE  TypeOK'
    <2>1. /\ AtRead(c) /\ stdout[cmd] # <<>> /\ stdout' = [stdout EXCEPT ![cmd] = Tail(@)]
          /\ UNCHANGED <<started, cmd, spawned, state, stdin, noise>>
        BY <1>10 DEF Undecodable, ReadError, ReadEntities, detector
    <2>2. cmd \in Procs /\ op[c] = "RedactPII"
        BY <2>1 DEF AtRead, LockInv, TypeOK
    <2>3. stdout' \in [Procs -> Seq(Lines)] /\ Head(stdout[cmd]) \in Lines
        BY <2>1, <2>2, TailType
    <2>4. ReadEntities(c) => Head(stdout[cmd]).of \in Texts
        BY <2>3 DEF ReadEntities, Lines
    <2>5. PICK r \in Results(op[c]) : Finish(c, r)
        BY <1>10, <2>2, <2>4, ResultTypes
        DEF Undecodable, ReadError, ReadEntities, Fail, Fallback
    <2>6. dead' \in BOOLEAN /\ troubled' \in BOOLEAN
        BY <1>10 DEF Undecodable, ReadError, ReadEntities, Fail, TypeOK, detector
    <2>7. state' \in [Procs -> ProcStates] /\ spawned' \in {spawned, None}
        BY <2>1 DEF TypeOK
    <2> QED BY <1>2, <2>1, <2>3, <2>5, <2>6, <2>7
<1>11. ASSUME NEW p \in Procs, Sidecar(p) \/ Noise(p) \/ Die(p) PROVE TypeOK'
    <2>1. UNCHANGED <<mu, detector, caller, troubled>>
        BY <1>11 DEF Sidecar, Loaded, ImportFails, Answer, Noise, Die
    <2>2. state' \in [Procs -> ProcStates]
        BY <1>11 DEF Sidecar, Loaded, ImportFails, Answer, Noise, Die, Killed, TypeOK, ProcStates
    <2>3. stdin' \in [Procs -> Seq(Texts)] /\ (Answer(p) => Head(stdin[p]) \in Texts)
        <3>1. stdin[p] \in Seq(Texts)
            BY DEF TypeOK
        <3>2. stdin[p] # <<>> => Tail(stdin[p]) \in Seq(Texts) /\ Head(stdin[p]) \in Texts
            BY <3>1
        <3> QED BY <1>11, <3>2 DEF Sidecar, Loaded, ImportFails, Answer, Noise, Die, TypeOK
    <2>4. stdout' \in [Procs -> Seq(Lines)]
        <3>1. [kind |-> "ready"] \in Lines /\ [kind |-> "error"] \in Lines /\ [kind |-> "noise"] \in Lines
            BY DEF Lines
        <3>2. \A t \in Texts : [kind |-> "entities", of |-> t] \in Lines
            BY DEF Lines
        <3>3. Die(p) \/ \E l \in Lines : Says(p, l)
            BY <1>11, <2>3, <3>1, <3>2 DEF Sidecar, Loaded, ImportFails, Answer, Noise
        <3> QED BY <3>3, SaysType DEF Die, TypeOK
    <2>5. noise' \in 0..MaxNoise
        <3>1. noise' = noise \/ (noise' = noise + 1 /\ noise < MaxNoise)
            BY <1>11 DEF Sidecar, Loaded, ImportFails, Answer, Noise, Die
        <3> QED BY <3>1, BoundAssumption DEF TypeOK
    <2> QED BY <2>1, <2>2, <2>3, <2>4, <2>5 DEF TypeOK, detector, caller
<1>12. ASSUME UNCHANGED vars PROVE TypeOK'
    BY <1>12 DEF vars, TypeOK, detector, procs, caller
<1> QED BY <1>1, <1>3, <1>4, <1>5, <1>6, <1>7, <1>8, <1>9, <1>10, <1>11, <1>12
        DEF Next, CallerStep
-----------------------------------------------------------------------------
(* The lock *)

\* The caller that holds the lock goes on or returns; nobody else moves.
LEMMA HolderMoves ==
    ASSUME TypeOK, LockInv, NEW c \in Callers, mu \in {c, None},
           NEW l \in {"idle", "ready", "write", "read"},
           pc' = [pc EXCEPT ![c] = l], mu' = IF l = "idle" THEN None ELSE c, op' = op,
           l \in {"write", "read"} => op[c] = "RedactPII" /\ started',
           l = "ready" => op[c] # "Close" /\ ~started' /\ spawned' # None,
           spawned' # None => l = "ready",
           started' <=> cmd' # None
    PROVE  LockInv'
<1>1. \A d \in Callers : pc'[d] = IF d = c THEN l ELSE pc[d]
    BY DEF TypeOK
<1>2. \A d \in Callers : d # c => pc[d] \notin {"ready", "write", "read"}
    BY NoneAssumption DEF LockInv
<1> QED BY <1>1, <1>2, NoneAssumption DEF LockInv

LEMMA LockInductive == TypeOK /\ LockInv /\ [Next]_vars => LockInv'
<1> SUFFICES ASSUME TypeOK, LockInv, [Next]_vars PROVE LockInv'
    OBVIOUS
<1> USE NoneAssumption
<1>1. ASSUME NEW c \in Callers, NEW o \in Ops, NEW t \in Texts, Call(c, o, t) PROVE LockInv'
    <2>1. /\ mu' = mu /\ cmd' = cmd /\ spawned' = spawned /\ started' = started
          /\ \A d \in Callers : d # c => pc'[d] = pc[d] /\ op'[d] = op[d]
          /\ pc[c] = "idle" /\ pc'[c] = "lock"
        BY <1>1 DEF Call, TypeOK, detector
    <2>2. mu \in Callers \cup {None} /\ mu # c
        BY <2>1 DEF TypeOK, LockInv
    <2> QED BY <2>1, <2>2 DEF LockInv
<1>2. ASSUME NEW c \in Callers, mu \in {c, None}, NEW r, Finish(c, r),
             spawned' = None, started' <=> cmd' # None
      PROVE  LockInv'
    BY <1>2, HolderMoves DEF Finish
<1>3. ASSUME NEW c \in Callers,
             AnalyzeWhenDead(c) \/ StartWhenStarted(c) \/ CloseNothing(c) \/ Close(c)
             \/ SpawnFails(c) \/ NotReady(c) \/ WriteFails(c) \/ ReadFails(c)
             \/ Undecodable(c) \/ ReadError(c) \/ ReadEntities(c)
      PROVE  LockInv'
    <2>1. mu \in {c, None} /\ \E r : Finish(c, r)
        <3>1. mu \in {c, None}
            BY <1>3 DEF AnalyzeWhenDead, StartWhenStarted, CloseNothing, Close, SpawnFails, Starts,
                        Enter, NotReady, AtReady, WriteFails, ReadFails, Undecodable, ReadError,
                        ReadEntities, AtRead
        <3>2. Fail(c) \/ Finish(c, Native) \/ Finish(c, [kind |-> "ok"])
              \/ Finish(c, Overlay(Head(stdout[cmd]).of))
            BY <1>3 DEF AnalyzeWhenDead, StartWhenStarted, CloseNothing, Close, SpawnFails,
                        NotReady, WriteFails, ReadFails, Undecodable, ReadError, ReadEntities
        <3>3. Fail(c) => Finish(c, Fallback(c))
            BY DEF Fail
        <3> QED BY <3>1, <3>2, <3>3
    <2>2. (started' <=> cmd' # None)
        BY <1>3 DEF AnalyzeWhenDead, StartWhenStarted, CloseNothing, Close, SpawnFails,
                    NotReady, WriteFails, ReadFails, Undecodable, ReadError, ReadEntities, Fail,
                    LockInv, detector
    <2>3. CASE NotReady(c)
        BY <1>2, <2>1, <2>2, <2>3 DEF NotReady
    <2>4. CASE ~NotReady(c)
        <3>1. mu = None \/ pc[c] # "ready"
            BY <1>3, <2>4 DEF AnalyzeWhenDead, StartWhenStarted, CloseNothing, Close, SpawnFails,
                Starts, Enter, WriteFails, ReadFails, Undecodable, ReadError, ReadEntities, AtRead
        <3>2. spawned' = spawned
            BY <1>3, <2>4 DEF AnalyzeWhenDead, StartWhenStarted, CloseNothing, Close, SpawnFails,
                WriteFails, ReadFails, Undecodable, ReadError, ReadEntities, detector
        <3>3. spawned = None
            BY <2>1, <3>1 DEF LockInv
        <3> QED BY <1>2, <2>1, <2>2, <3>2, <3>3
    <2> QED BY <2>3, <2>4
<1>4. ASSUME NEW c \in Callers, AnalyzeWhenStarted(c) \/ Write(c) PROVE LockInv'
    <2>1. PICK l \in {"write", "read"} : Goto(c, l)
        BY <1>4 DEF AnalyzeWhenStarted, Write
    <2>2. mu \in {c, None} /\ op[c] = "RedactPII" /\ started /\ pc[c] # "ready"
        BY <1>4 DEF AnalyzeWhenStarted, Enter, Write, LockInv
    <2>3. spawned = None
        BY <2>2 DEF LockInv
    <2>4. UNCHANGED <<started, cmd, spawned>>
        BY <1>4 DEF AnalyzeWhenStarted, Write, detector
    <2> QED BY <2>1, <2>2, <2>3, <2>4, HolderMoves DEF Goto, LockInv
<1>5. ASSUME NEW c \in Callers, NEW p \in Procs, Spawn(c, p) PROVE LockInv'
    <2>1. /\ mu = None /\ ~started /\ op[c] # "Close" /\ Goto(c, "ready")
          /\ started' = started /\ cmd' = cmd /\ spawned' = p
        BY <1>5 DEF Spawn, Starts, Enter
    <2> QED BY <2>1, HolderMoves DEF Goto, LockInv
<1>6. ASSUME NEW c \in Callers, Ready(c) PROVE LockInv'
    <2>1. /\ mu = c /\ op[c] \in {"RedactPII", "Start"} /\ spawned # None
          /\ cmd' = spawned /\ spawned' = None /\ started' = TRUE
        BY <1>6 DEF Ready, AtReady, LockInv, TypeOK, Ops
    <2>2. CASE op[c] = "Start"
        BY <1>2, <1>6, <2>1, <2>2 DEF Ready
    <2>3. CASE op[c] = "RedactPII"
        <3>1. Goto(c, "write")
            BY <1>6, <2>3 DEF Ready
        <3> QED BY <2>1, <2>3, <3>1, HolderMoves DEF Goto
    <2> QED BY <2>1, <2>2, <2>3
<1>7. ASSUME UNCHANGED <<mu, detector, caller>> PROVE LockInv'
    BY <1>7 DEF LockInv, detector, caller
<1>8. ASSUME NEW p \in Procs, Sidecar(p) \/ Noise(p) \/ Die(p) PROVE LockInv'
    BY <1>7, <1>8 DEF Sidecar, Loaded, ImportFails, Answer, Noise, Die
<1>9. ASSUME UNCHANGED vars PROVE LockInv'
    BY <1>7, <1>9 DEF vars
<1> QED BY <1>1, <1>3, <1>4, <1>5, <1>6, <1>8, <1>9 DEF Next, CallerStep

LEMMA InitTypeLock == Init => TypeOK /\ LockInv
<1> SUFFICES ASSUME Init PROVE TypeOK /\ LockInv
    OBVIOUS
<1>1. /\ op \in [Callers -> {"RedactPII"}] /\ text \in [Callers -> {CHOOSE t \in Texts : TRUE}]
      /\ result = [c \in Callers |-> None] /\ stdin = [p \in Procs |-> <<>>]
      /\ stdout = [p \in Procs |-> <<>>] /\ calls = 0 /\ noise = 0
    BY DEF Init
<1>2. \A c \in Callers : result[c] \in Results(op[c])
    BY <1>1, ResultTypes DEF Ops
<1>3. op \in [Callers -> Ops]
    BY <1>1 DEF Ops
<1>4. text \in [Callers -> Texts]
    BY <1>1, TextsAssumption
<1>5. stdin \in [Procs -> Seq(Texts)] /\ stdout \in [Procs -> Seq(Lines)]
    BY <1>1
<1>6. calls \in 0..MaxCalls /\ noise \in 0..MaxNoise
    BY <1>1, BoundAssumption
<1>7. TypeOK
    BY <1>1, <1>2, <1>3, <1>4, <1>5, <1>6 DEF Init, TypeOK, ProcStates
<1>8. LockInv
    BY NoneAssumption DEF Init, LockInv
<1> QED BY <1>7, <1>8

(***************************************************************************)
(* Every reachable state is well typed, and what a caller returns is a     *)
(* result of the call it made (detector_presidio.go).                      *)
(***************************************************************************)
THEOREM TypeCorrect == Spec => []TypeOK
BY InitTypeLock, TypeInductive, LockInductive, PTL DEF Spec
-----------------------------------------------------------------------------
(* Processes and fallbacks *)

LEMMA ClosableInductive == TypeOK /\ LockInv /\ RunningIsClosable /\ [Next]_vars => RunningIsClosable'
<1> SUFFICES ASSUME TypeOK, LockInv, RunningIsClosable, [Next]_vars PROVE RunningIsClosable'
    OBVIOUS
<1> USE NoneAssumption
<1>1. ASSUME UNCHANGED <<state, cmd, spawned>> PROVE RunningIsClosable'
    BY <1>1 DEF RunningIsClosable
<1>2. ASSUME NEW c \in Callers, NEW o \in Ops, NEW t \in Texts, Call(c, o, t) PROVE RunningIsClosable'
    BY <1>1, <1>2 DEF Call, detector, procs
<1>3. ASSUME NEW c \in Callers,
             AnalyzeWhenDead(c) \/ AnalyzeWhenStarted(c) \/ StartWhenStarted(c) \/ SpawnFails(c)
             \/ CloseNothing(c) \/ WriteFails(c) \/ Write(c) \/ ReadFails(c)
             \/ Undecodable(c) \/ ReadError(c) \/ ReadEntities(c)
      PROVE  RunningIsClosable'
    BY <1>1, <1>3 DEF AnalyzeWhenDead, AnalyzeWhenStarted, StartWhenStarted, SpawnFails,
        CloseNothing, WriteFails, Write, ReadFails, Undecodable, ReadError, ReadEntities,
        detector, procs
<1>4. ASSUME NEW c \in Callers, NEW p \in Procs, Spawn(c, p) PROVE RunningIsClosable'
    <2>1. /\ mu = None /\ ~started /\ state' = [state EXCEPT ![p] = "loading"]
          /\ spawned' = p /\ cmd' = cmd
        BY <1>4 DEF Spawn, Starts, Enter
    <2>2. cmd = None /\ spawned = None
        BY <2>1 DEF LockInv
    <2> QED BY <2>1, <2>2 DEF RunningIsClosable, TypeOK
<1>5. ASSUME NEW c \in Callers, Close(c) PROVE RunningIsClosable'
    <2>1. mu = None /\ state' = [state EXCEPT ![cmd] = "dead"] /\ spawned' = spawned
        BY <1>5 DEF Close, Enter, Killed
    <2>2. spawned = None
        BY <2>1 DEF LockInv
    <2> QED BY <2>1, <2>2 DEF RunningIsClosable, TypeOK
<1>6. ASSUME NEW c \in Callers, NotReady(c) PROVE RunningIsClosable'
    <2>1. state' = [state EXCEPT ![spawned] = "dead"] /\ cmd' = cmd /\ spawned' = None
        BY <1>6 DEF NotReady, Killed
    <2> QED BY <2>1 DEF RunningIsClosable, TypeOK
<1>7. ASSUME NEW c \in Callers, Ready(c) PROVE RunningIsClosable'
    <2>1. cmd = None /\ cmd' = spawned /\ state' = state
        BY <1>7 DEF Ready, AtReady, LockInv
    <2> QED BY <2>1 DEF RunningIsClosable
<1>8. ASSUME NEW p \in Procs, Sidecar(p) \/ Noise(p) \/ Die(p) PROVE RunningIsClosable'
    <2>1. cmd' = cmd /\ spawned' = spawned
        BY <1>8 DEF Sidecar, Loaded, ImportFails, Answer, Noise, Die, detector
    <2>2. state' = state \/ (/\ state[p] \in {"loading", "serving"}
                            /\ \E st : state' = [state EXCEPT ![p] = st])
        BY <1>8 DEF Sidecar, Loaded, ImportFails, Answer, Noise, Die, Killed
    <2> QED BY <2>1, <2>2 DEF RunningIsClosable, TypeOK
<1>9. ASSUME UNCHANGED vars PROVE RunningIsClosable'
    BY <1>1, <1>9 DEF vars, detector, procs
<1> QED BY <1>2, <1>3, <1>4, <1>5, <1>6, <1>7, <1>8, <1>9 DEF Next, CallerStep

(***************************************************************************)
(* However calls, failures and deaths interleave, a sidecar that runs is   *)
(* d.cmd, which Close kills, or the one being started (startLocked).       *)
(***************************************************************************)
THEOREM RunningSidecarsAreClosable == Spec => []RunningIsClosable
<1>1. Init => RunningIsClosable
    BY DEF Init, RunningIsClosable
<1> QED BY <1>1, InitTypeLock, TypeInductive, LockInductive, ClosableInductive, PTL DEF Spec

\* dead is the memory of a failure.
ReasonInv == DegradedForAReason /\ (dead => troubled)

LEMMA ReasonInductive == TypeOK /\ LockInv /\ ReasonInv /\ [Next]_vars => ReasonInv'
<1> SUFFICES ASSUME TypeOK, LockInv, ReasonInv, [Next]_vars PROVE ReasonInv'
    OBVIOUS
<1>0. None # Native /\ [kind |-> "ok"] # Native /\ \A t : Overlay(t) # Native
    BY ResultAssumption DEF Native, Overlay, Redactions
<1>1. ASSUME UNCHANGED <<dead, troubled, result>> PROVE ReasonInv'
    BY <1>1 DEF ReasonInv, DegradedForAReason
<1>2. ASSUME troubled' PROVE ReasonInv'
    BY <1>2 DEF ReasonInv, DegradedForAReason
<1>3. ASSUME NEW c \in Callers, NEW r, Finish(c, r), r # Native, troubled' = troubled,
             dead' => dead
      PROVE  ReasonInv'
    BY <1>3 DEF Finish, ReasonInv, DegradedForAReason, TypeOK
<1>4. ASSUME NEW c \in Callers, NEW o \in Ops, NEW t \in Texts, Call(c, o, t) PROVE ReasonInv'
    BY <1>0, <1>4 DEF Call, ReasonInv, DegradedForAReason, TypeOK, detector
<1>5. ASSUME NEW c \in Callers, AnalyzeWhenDead(c) PROVE ReasonInv'
    BY <1>2, <1>5 DEF AnalyzeWhenDead, ReasonInv
<1>6. ASSUME NEW c \in Callers, SpawnFails(c) \/ NotReady(c) \/ WriteFails(c) \/ ReadFails(c)
                                \/ Undecodable(c) \/ ReadError(c)
      PROVE  ReasonInv'
    BY <1>2, <1>6 DEF SpawnFails, NotReady, WriteFails, ReadFails, Undecodable, ReadError, Fail
<1>7. ASSUME NEW c \in Callers, StartWhenStarted(c) \/ CloseNothing(c) \/ Close(c)
      PROVE  ReasonInv'
    BY <1>0, <1>3, <1>7 DEF StartWhenStarted, CloseNothing, Close, detector
<1>8. ASSUME NEW c \in Callers, ReadEntities(c) PROVE ReasonInv'
    BY <1>0, <1>3, <1>8 DEF ReadEntities, detector
<1>9. ASSUME NEW c \in Callers,
             AnalyzeWhenStarted(c) \/ (\E p \in Procs : Spawn(c, p)) \/ Write(c)
      PROVE  ReasonInv'
    BY <1>1, <1>9 DEF AnalyzeWhenStarted, Spawn, Write, Goto, detector
<1>10. ASSUME NEW c \in Callers, Ready(c) PROVE ReasonInv'
    <2>1. CASE op[c] = "Start"
        BY <1>0, <1>3, <1>10, <2>1 DEF Ready
    <2>2. CASE op[c] # "Start"
        BY <1>10, <2>2 DEF Ready, Goto, ReasonInv, DegradedForAReason
    <2> QED BY <2>1, <2>2
<1>11. ASSUME NEW p \in Procs, Sidecar(p) \/ Noise(p) \/ Die(p) PROVE ReasonInv'
    BY <1>1, <1>11 DEF Sidecar, Loaded, ImportFails, Answer, Noise, Die, detector, caller
<1>12. ASSUME UNCHANGED vars PROVE ReasonInv'
    BY <1>1, <1>12 DEF vars, detector, caller
<1> QED BY <1>4, <1>5, <1>6, <1>7, <1>8, <1>9, <1>10, <1>11, <1>12 DEF Next, CallerStep

(***************************************************************************)
(* The native redaction is returned only after some exchange or start has  *)
(* failed (analyze, Close).                                                *)
(***************************************************************************)
THEOREM FallbackHasAReason == Spec => []DegradedForAReason
<1>1. Init => ReasonInv
    BY ResultAssumption DEF Init, ReasonInv, DegradedForAReason, Redactions
<1>2. ReasonInv => DegradedForAReason
    BY DEF ReasonInv
<1> QED BY <1>1, <1>2, InitTypeLock, TypeInductive, LockInductive, ReasonInductive, PTL DEF Spec
-----------------------------------------------------------------------------
(* The pipes *)

NoiseLine == [kind |-> "noise"]
AllNoise(s) == \A i \in 1..Len(s) : s[i].kind = "noise"

\* One line of lines, and noise around it.
OneOf(s, lines) ==
    \E i \in 1..Len(s) : s[i] \in lines /\ \A j \in 1..Len(s) : j # i => s[j].kind = "noise"

Greetings == {[kind |-> "ready"], [kind |-> "error"]}
AnswersTo(t) == {[kind |-> "error"], [kind |-> "entities", of |-> t]}

LEMMA NoiseAppended ==
    ASSUME NEW s \in Seq(Lines), NEW lines
    PROVE  /\ AllNoise(s) => AllNoise(Append(s, NoiseLine))
           /\ OneOf(s, lines) => OneOf(Append(s, NoiseLine), lines)
<1>1. /\ Len(Append(s, NoiseLine)) = Len(s) + 1 /\ Len(s) \in Nat
      /\ \A i \in 1..Len(s) : Append(s, NoiseLine)[i] = s[i]
      /\ Append(s, NoiseLine)[Len(s) + 1] = NoiseLine
    BY DEF NoiseLine, Lines
<1>2. NoiseLine.kind = "noise"
    BY DEF NoiseLine
<1>3. \A j \in 1..(Len(s) + 1) : j \in 1..Len(s) \/ j = Len(s) + 1
    BY <1>1
<1>4. AllNoise(s) => AllNoise(Append(s, NoiseLine))
    BY <1>1, <1>2, <1>3 DEF AllNoise
<1>5. ASSUME NEW i \in 1..Len(s), s[i] \in lines, \A j \in 1..Len(s) : j # i => s[j].kind = "noise"
      PROVE  OneOf(Append(s, NoiseLine), lines)
    <2>1. i \in 1..Len(Append(s, NoiseLine)) /\ Append(s, NoiseLine)[i] \in lines
        BY <1>1, <1>5
    <2>2. \A j \in 1..Len(Append(s, NoiseLine)) : j # i => Append(s, NoiseLine)[j].kind = "noise"
        BY <1>1, <1>2, <1>3, <1>5
    <2> QED BY <2>1, <2>2 DEF OneOf
<1> QED BY <1>4, <1>5 DEF OneOf

LEMMA LineAppended ==
    ASSUME NEW s \in Seq(Lines), NEW lines, NEW l \in lines, AllNoise(s), l \in Lines
    PROVE  OneOf(Append(s, l), lines)
<1>1. /\ Len(Append(s, l)) = Len(s) + 1 /\ Len(s) \in Nat
      /\ \A i \in 1..Len(s) : Append(s, l)[i] = s[i]
      /\ Append(s, l)[Len(s) + 1] = l
    OBVIOUS
<1>2. \A j \in 1..(Len(s) + 1) : j # Len(s) + 1 => j \in 1..Len(s)
    BY <1>1
<1>3. Len(s) + 1 \in 1..(Len(s) + 1)
    BY <1>1
<1> QED BY <1>1, <1>2, <1>3 DEF AllNoise, OneOf

\* A first line that is not noise is the one line; behind it is noise.
LEMMA LineTaken ==
    ASSUME NEW s \in Seq(Lines), NEW lines, s # <<>>, Head(s).kind # "noise",
           AllNoise(s) \/ OneOf(s, lines)
    PROVE  OneOf(s, lines) /\ Head(s) \in lines /\ AllNoise(Tail(s))
<1>1. /\ Len(s) \in Nat /\ 1 \in 1..Len(s) /\ Head(s) = s[1] /\ Len(Tail(s)) = Len(s) - 1
      /\ \A i \in 1..(Len(s) - 1) : Tail(s)[i] = s[i + 1] /\ i + 1 \in 1..Len(s) /\ i + 1 # 1
    OBVIOUS
<1>2. OneOf(s, lines)
    BY <1>1 DEF AllNoise
<1>3. s[1] \in lines /\ \A j \in 1..Len(s) : j # 1 => s[j].kind = "noise"
    BY <1>1, <1>2 DEF OneOf
<1> QED BY <1>1, <1>2, <1>3 DEF AllNoise

\* What the pipes of p hold between exchanges, during one about t, and during a start.
Quiet(p) == stdin[p] = <<>> /\ AllNoise(stdout[p])
Asked(p, t) ==
    \/ stdin[p] = <<t>> /\ AllNoise(stdout[p])
    \/ stdin[p] = <<>> /\ OneOf(stdout[p], AnswersTo(t))
Starting(p) ==
    /\ stdin[p] = <<>>
    /\ \/ AllNoise(stdout[p])
       \/ state[p] # "loading" /\ OneOf(stdout[p], Greetings)

\* A broken exchange leaves the pipes in any state, but sets dead, and nobody reads them again.
PipeInv ==
    /\ \A p \in Procs : state[p] = "unborn" => Quiet(p)
    /\ \A p \in Procs : p = spawned => state[p] # "unborn" /\ Starting(p)
    /\ \A p \in Procs : p = cmd => state[p] \notin {"unborn", "loading"}
    /\ \A c \in Callers : pc[c] \in {"write", "read"} => ~dead
    /\ \A p \in Procs : p = cmd /\ ~dead /\ (\A c \in Callers : pc[c] # "read") => Quiet(p)
    /\ \A p \in Procs, c \in Callers : p = cmd /\ pc[c] = "read" => Asked(p, text[c])

\* The holder of the lock, between exchanges or with a broken one, moves on.
LEMMA CallerKeepsPipes ==
    ASSUME TypeOK, LockInv, PipeInv, NEW c \in Callers, mu \in {c, None},
           NEW l \in {"idle", "write"}, pc' = [pc EXCEPT ![c] = l], text' = text,
           UNCHANGED <<cmd, spawned, state, stdin>>,
           \A p \in Procs : p # cmd => stdout'[p] = stdout[p],
           dead' \/ (dead' = dead /\ stdout' = stdout /\ pc[c] # "read"), l = "write" => ~dead'
    PROVE  PipeInv'
<1>1. \A d \in Callers : pc'[d] = IF d = c THEN l ELSE pc[d]
    BY DEF TypeOK
<1>2. \A d \in Callers : pc[d] \in {"write", "read"} => d = c
    BY NoneAssumption DEF LockInv
<1>3. \A d \in Callers : pc'[d] # "read" /\ (pc'[d] = "write" => ~dead')
    BY <1>1, <1>2
<1>4. \A p \in Procs : p = spawned => p # cmd
    BY NoneAssumption DEF LockInv
<1>5. \A p \in Procs : p = spawned' => state'[p] # "unborn" /\ Starting(p)'
    BY <1>4 DEF PipeInv, Starting
<1>6. \A p \in Procs : state'[p] = "unborn" => Quiet(p)'
    BY DEF PipeInv, Quiet
<1>7. \A p \in Procs : p = cmd' => state'[p] \notin {"unborn", "loading"}
    BY DEF PipeInv
<1>8. ~dead' => \A d \in Callers : pc[d] # "read"
    BY <1>2
<1>9. \A p \in Procs : p = cmd' /\ ~dead' => Quiet(p)'
    BY <1>8 DEF PipeInv, Quiet
<1> QED BY <1>3, <1>5, <1>6, <1>7, <1>9 DEF PipeInv

\* The reader takes an answer, the only one there is.
LEMMA AnswerIsOwn ==
    ASSUME TypeOK, LockInv, PipeInv, NEW c \in Callers, AtRead(c),
           stdout[cmd] # <<>>, Head(stdout[cmd]).kind # "noise"
    PROVE  /\ cmd \in Procs /\ stdin[cmd] = <<>> /\ AllNoise(Tail(stdout[cmd]))
           /\ Head(stdout[cmd]) \in AnswersTo(text[c])
<1>1. cmd \in Procs /\ stdout[cmd] \in Seq(Lines)
    BY DEF AtRead, LockInv, TypeOK
<1>2. Asked(cmd, text[c])
    BY <1>1 DEF PipeInv, AtRead
<1>3. AllNoise(stdout[cmd]) \/ OneOf(stdout[cmd], AnswersTo(text[c]))
    BY <1>2 DEF Asked
<1>4. AllNoise(stdout[cmd]) => Head(stdout[cmd]).kind = "noise"
    BY <1>1 DEF AllNoise
<1> QED BY <1>1, <1>2, <1>3, <1>4, LineTaken DEF Asked

LEMMA PipesInductive == TypeOK /\ LockInv /\ PipeInv /\ [Next]_vars => PipeInv'
<1> SUFFICES ASSUME TypeOK, LockInv, PipeInv, [Next]_vars PROVE PipeInv'
    OBVIOUS
<1> USE NoneAssumption
<1>0. ASSUME UNCHANGED <<dead, cmd, spawned, state, stdin, stdout, pc, text>> PROVE PipeInv'
    BY <1>0 DEF PipeInv, Quiet, Starting, Asked
<1>1. ASSUME NEW c \in Callers, NEW o \in Ops, NEW t \in Texts, Call(c, o, t) PROVE PipeInv'
    <2>1. \A d \in Callers : pc'[d] = (IF d = c THEN "lock" ELSE pc[d])
                             /\ text'[d] = (IF d = c THEN t ELSE text[d])
        BY <1>1 DEF Call, TypeOK
    <2>2. pc[c] = "idle" /\ UNCHANGED <<dead, cmd, spawned, state, stdin, stdout>>
        BY <1>1 DEF Call, detector, procs
    <2>3. \A d \in Callers : /\ pc'[d] = "read" <=> pc[d] = "read"
                             /\ pc'[d] = "write" <=> pc[d] = "write"
                             /\ pc[d] = "read" => text'[d] = text[d]
        BY <2>1, <2>2
    <2> QED BY <2>2, <2>3 DEF PipeInv, Quiet, Starting, Asked
<1>2. ASSUME NEW c \in Callers,
             AnalyzeWhenDead(c) \/ AnalyzeWhenStarted(c) \/ StartWhenStarted(c) \/ CloseNothing(c)
      PROVE  PipeInv'
    <2>1. /\ mu = None /\ pc[c] = "lock" /\ text' = text
          /\ UNCHANGED <<cmd, spawned, state, stdin, stdout, dead>>
        BY <1>2 DEF AnalyzeWhenDead, AnalyzeWhenStarted, StartWhenStarted, CloseNothing, Enter,
                    Finish, Goto, detector, procs
    <2>2. \/ pc' = [pc EXCEPT ![c] = "idle"]
          \/ pc' = [pc EXCEPT ![c] = "write"] /\ ~dead
        BY <1>2 DEF AnalyzeWhenDead, AnalyzeWhenStarted, StartWhenStarted, CloseNothing, Finish, Goto
    <2> QED BY <2>1, <2>2, CallerKeepsPipes
<1>3. ASSUME NEW c \in Callers, SpawnFails(c) \/ WriteFails(c) \/ ReadFails(c) \/ Undecodable(c)
      PROVE  PipeInv'
    <2>1. /\ mu \in {c, None} /\ UNCHANGED <<cmd, spawned, state, stdin>>
        BY <1>3 DEF SpawnFails, Starts, Enter, WriteFails, ReadFails, Undecodable, AtRead, procs
    <2>2. Fail(c)
        BY <1>3 DEF SpawnFails, WriteFails, ReadFails, Undecodable
    <2>3. stdout' = stdout \/ stdout' = [stdout EXCEPT ![cmd] = Tail(@)]
        BY <1>3 DEF SpawnFails, WriteFails, ReadFails, Undecodable, procs
    <2>4. \A p \in Procs : p # cmd => stdout'[p] = stdout[p]
        BY <2>3 DEF TypeOK
    <2>5. dead' /\ text' = text /\ pc' = [pc EXCEPT ![c] = "idle"]
        BY <2>2 DEF Fail, Finish
    <2> QED BY <2>1, <2>4, <2>5, CallerKeepsPipes
<1>4. ASSUME NEW c \in Callers, ReadError(c) \/ ReadEntities(c) PROVE PipeInv'
    <2>1. /\ AtRead(c) /\ stdout[cmd] # <<>> /\ Head(stdout[cmd]).kind # "noise"
          /\ stdout' = [stdout EXCEPT ![cmd] = Tail(@)]
          /\ UNCHANGED <<cmd, spawned, dead, state, stdin, text>>
          /\ pc' = [pc EXCEPT ![c] = "idle"]
        BY <1>4 DEF ReadError, ReadEntities, Finish, detector
    <2>2. cmd \in Procs /\ stdin[cmd] = <<>> /\ AllNoise(Tail(stdout[cmd]))
        BY <2>1, AnswerIsOwn
    <2>3. /\ \A p \in Procs : stdout'[p] = IF p = cmd THEN Tail(stdout[p]) ELSE stdout[p]
          /\ \A d \in Callers : pc'[d] = IF d = c THEN "idle" ELSE pc[d]
        BY <2>1 DEF TypeOK
    <2>4. \A d \in Callers : pc[d] \in {"write", "read"} => d = c
        BY <2>1 DEF AtRead, LockInv
    <2>5. \A d \in Callers : pc'[d] \notin {"write", "read"}
        BY <2>3, <2>4
    <2>6. \A p \in Procs : p = cmd' => Quiet(p)'
        <3>1. cmd' = cmd /\ stdin'[cmd] = <<>> /\ stdout'[cmd] = Tail(stdout[cmd])
            BY <2>1, <2>2, <2>3
        <3>2. \A p \in Procs : p = cmd' => stdin'[p] = <<>> /\ AllNoise(stdout'[p])
            BY <2>2, <3>1
        <3> QED BY <3>2 DEF Quiet, AllNoise
    <2>7. cmd # spawned
        BY <2>1, <2>2 DEF AtRead, LockInv
    <2>8. \A p \in Procs : p = spawned' => state'[p] # "unborn" /\ Starting(p)'
        BY <2>1, <2>3, <2>7 DEF PipeInv, Starting
    <2>9. \A p \in Procs : state'[p] = "unborn" => Quiet(p)'
        BY <2>1, <2>3 DEF PipeInv, Quiet
    <2> QED BY <2>1, <2>5, <2>6, <2>8, <2>9 DEF PipeInv
<1>5. ASSUME NEW c \in Callers, Write(c) PROVE PipeInv'
    <2>1. /\ mu = c /\ pc[c] = "write" /\ stdin' = [stdin EXCEPT ![cmd] = Append(@, text[c])]
          /\ UNCHANGED <<cmd, spawned, dead, state, stdout, text>>
          /\ pc' = [pc EXCEPT ![c] = "read"]
        BY <1>5 DEF Write, Goto, detector
    <2>2. cmd \in Procs
        BY <2>1 DEF LockInv, TypeOK
    <2>3. \A d \in Callers : pc[d] \in {"write", "read"} => d = c
        BY <2>1 DEF LockInv
    <2>4. \A d \in Callers : /\ pc'[d] = IF d = c THEN "read" ELSE pc[d]
                             /\ pc[d] # "read"
        BY <2>1, <2>3 DEF TypeOK
    <2>5. ~dead /\ Quiet(cmd)
        BY <2>1, <2>2, <2>4 DEF PipeInv
    <2>6. \A p \in Procs : stdin'[p] = IF p = cmd THEN <<text[c]>> ELSE stdin[p]
        BY <2>1, <2>5 DEF TypeOK, Quiet
    <2>7. \A p \in Procs : p = cmd' => Asked(p, text[c])'
        <3>1. stdin'[cmd] = <<text[c]>> /\ AllNoise(stdout[cmd])
            BY <2>2, <2>5, <2>6 DEF Quiet
        <3>2. cmd' = cmd /\ stdout' = stdout /\ text' = text
            BY <2>1
        <3> QED BY <3>1, <3>2 DEF Asked, AllNoise
    <2>8. cmd # spawned /\ state[cmd] # "unborn"
        BY <2>1, <2>2 DEF LockInv, PipeInv
    <2>9. \A p \in Procs : p = spawned' => state'[p] # "unborn" /\ Starting(p)'
        BY <2>1, <2>6, <2>8 DEF PipeInv, Starting
    <2>10. \A p \in Procs : state'[p] = "unborn" => Quiet(p)'
        BY <2>1, <2>6, <2>8 DEF PipeInv, Quiet
    <2>11. \A d \in Callers : pc'[d] \in {"write", "read"} => d = c
        BY <2>3, <2>4
    <2> QED BY <2>1, <2>4, <2>5, <2>7, <2>9, <2>10, <2>11 DEF PipeInv
<1>6. ASSUME NEW c \in Callers, NEW p \in Procs, Spawn(c, p) PROVE PipeInv'
    <2>1. /\ mu = None /\ ~started /\ state[p] = "unborn" /\ spawned' = p
          /\ state' = [state EXCEPT ![p] = "loading"]
          /\ UNCHANGED <<cmd, dead, stdin, stdout, text>>
          /\ pc' = [pc EXCEPT ![c] = "ready"]
        BY <1>6 DEF Spawn, Starts, Enter, Goto
    <2>2. cmd = None
        BY <2>1 DEF LockInv
    <2>3. \A d \in Callers : pc'[d] \notin {"write", "read"}
        BY <2>1 DEF LockInv, TypeOK
    <2>4. Starting(p)' /\ state'[p] # "unborn"
        BY <2>1 DEF PipeInv, Quiet, Starting, TypeOK
    <2>5. \A q \in Procs : state'[q] = "unborn" => Quiet(q)'
        BY <2>1 DEF PipeInv, Quiet, TypeOK
    <2> QED BY <2>1, <2>2, <2>3, <2>4, <2>5 DEF PipeInv
<1>7. ASSUME NEW c \in Callers, Close(c) \/ NotReady(c) PROVE PipeInv'
    <2>1. /\ mu \in {c, None} /\ pc[c] \notin {"write", "read"}
          /\ cmd' \in {cmd, None} /\ (Close(c) => cmd' = None)
          /\ spawned' \in {spawned, None} /\ (NotReady(c) => spawned' = None)
          /\ UNCHANGED <<stdin, stdout>>
        BY <1>7 DEF Close, Enter, NotReady, AtReady
    <2>2. NotReady(c) => cmd = None
        BY DEF NotReady, AtReady, LockInv
    <2>3. Close(c) => spawned = None
        BY DEF Close, Enter, LockInv
    <2>4. cmd' = None /\ spawned' = None
        BY <1>7, <2>1, <2>2, <2>3
    <2>5. pc' = [pc EXCEPT ![c] = "idle"]
        BY <1>7 DEF Close, NotReady, Fail, Finish
    <2>6. \A d \in Callers : pc'[d] \notin {"write", "read"}
        BY <2>1, <2>5 DEF LockInv, TypeOK
    <2>7. \E r : state' = [state EXCEPT ![r] = "dead"]
        BY <1>7 DEF Close, NotReady, Killed
    <2>8. \A q \in Procs : state'[q] = "unborn" => Quiet(q)'
        BY <2>1, <2>7 DEF PipeInv, Quiet, TypeOK
    <2> QED BY <2>4, <2>6, <2>8 DEF PipeInv
<1>8. ASSUME NEW c \in Callers, Ready(c) PROVE PipeInv'
    <2>1. /\ mu = c /\ pc[c] = "ready" /\ cmd' = spawned /\ spawned' = None /\ ~dead'
          /\ stdout[spawned] # <<>> /\ Head(stdout[spawned]).kind = "ready"
          /\ stdout' = [stdout EXCEPT ![spawned] = Tail(@)] /\ UNCHANGED <<state, stdin>>
        BY <1>8 DEF Ready, AtReady
    <2>2. spawned \in Procs /\ stdout[spawned] \in Seq(Lines)
        BY <2>1 DEF LockInv, TypeOK
    <2>3. state[spawned] # "unborn" /\ Starting(spawned)
        BY <2>2 DEF PipeInv
    <2>4. AllNoise(stdout[spawned]) \/ OneOf(stdout[spawned], Greetings)
        BY <2>3 DEF Starting
    <2>5. AllNoise(stdout[spawned]) => Head(stdout[spawned]).kind = "noise"
        BY <2>1, <2>2 DEF AllNoise
    <2>6. AllNoise(Tail(stdout[spawned])) /\ state[spawned] # "loading"
        BY <2>1, <2>2, <2>3, <2>4, <2>5, LineTaken DEF Starting
    <2>7. \A q \in Procs : stdout'[q] = IF q = spawned THEN Tail(stdout[q]) ELSE stdout[q]
        BY <2>1 DEF TypeOK
    <2>8. \A q \in Procs : q = cmd' => Quiet(q)'
        <3>1. stdin[spawned] = <<>>
            BY <2>3 DEF Starting
        <3> QED BY <2>1, <2>6, <2>7, <3>1 DEF Quiet
    <2>9. \E l \in {"idle", "write"} : pc' = [pc EXCEPT ![c] = l]
        BY <1>8 DEF Ready, Finish, Goto
    <2>10. \A d \in Callers : pc'[d] # "read"
        BY <2>1, <2>9 DEF LockInv, TypeOK
    <2>11. \A q \in Procs : state'[q] = "unborn" => Quiet(q)'
        BY <2>1, <2>3, <2>7 DEF PipeInv, Quiet
    <2> QED BY <2>1, <2>2, <2>3, <2>6, <2>8, <2>10, <2>11 DEF PipeInv
<1>9. ASSUME NEW p \in Procs, UNCHANGED <<mu, detector, caller, troubled>>,
             \A q \in Procs : q # p => /\ state'[q] = state[q] /\ stdin'[q] = stdin[q]
                                      /\ stdout'[q] = stdout[q],
             state[p] \in {"loading", "serving"}, state'[p] # "unborn",
             p = cmd => state'[p] # "loading",
             p = spawned => Starting(p)',
             p = cmd /\ (\A c \in Callers : pc[c] # "read") /\ Quiet(p) => Quiet(p)',
             \A t \in Texts : p = cmd /\ Asked(p, t) => Asked(p, t)'
      PROVE  PipeInv'
    <2>1. UNCHANGED <<dead, cmd, spawned, pc, text>>
        BY <1>9 DEF detector, caller
    <2>2. \A q \in Procs : q # p => /\ Quiet(q)' <=> Quiet(q)
                                    /\ Starting(q)' <=> Starting(q)
                                    /\ \A t : Asked(q, t)' <=> Asked(q, t)
        BY <1>9 DEF Quiet, Starting, Asked
    <2>3. \A q \in Procs : state'[q] = "unborn" => Quiet(q)'
        BY <1>9, <2>2 DEF PipeInv
    <2>4. \A q \in Procs : q = spawned' => state'[q] # "unborn" /\ Starting(q)'
        BY <1>9, <2>1, <2>2 DEF PipeInv
    <2>5. \A q \in Procs : q = cmd' => state'[q] \notin {"unborn", "loading"}
        BY <1>9, <2>1 DEF PipeInv
    <2>6. \A q \in Procs : q = cmd' /\ ~dead' /\ (\A c \in Callers : pc'[c] # "read") => Quiet(q)'
        BY <1>9, <2>1, <2>2 DEF PipeInv
    <2>7. \A q \in Procs, c \in Callers : q = cmd' /\ pc'[c] = "read" => Asked(q, text[c])'
        <3> SUFFICES ASSUME NEW q \in Procs, NEW c \in Callers, q = cmd', pc'[c] = "read"
                     PROVE  Asked(q, text[c])'
            BY <2>1
        <3>1. Asked(q, text[c]) /\ text[c] \in Texts
            BY <2>1 DEF PipeInv, TypeOK
        <3>2. \A t \in Texts : Asked(q, t) => Asked(q, t)'
            BY <1>9, <2>1, <2>2
        <3> DEFINE t == text[c]
        <3>3. Asked(q, t) /\ t \in Texts /\ text'[c] = t
            BY <2>1, <3>1
        <3> QED BY <3>2, <3>3 DEF Asked
    <2>8. \A c \in Callers : pc'[c] \in {"write", "read"} => ~dead'
        BY <2>1 DEF PipeInv
    <2> QED BY <2>3, <2>4, <2>5, <2>6, <2>7, <2>8 DEF PipeInv
<1>10. ASSUME NEW p \in Procs, Loaded(p) \/ ImportFails(p) PROVE PipeInv'
    <2>1. PICK l \in Greetings : Says(p, l)
        BY <1>10 DEF Loaded, ImportFails, Greetings
    <2>2. /\ UNCHANGED <<mu, detector, caller, stdin, troubled>> /\ state[p] = "loading"
          /\ \E st \in {"serving", "dead"} : state' = [state EXCEPT ![p] = st]
        BY <1>10 DEF Loaded, ImportFails, Killed
    <2>3. /\ \A q \in Procs : q # p => stdout'[q] = stdout[q] /\ state'[q] = state[q]
          /\ stdout'[p] = Append(stdout[p], l) /\ state'[p] \in {"serving", "dead"}
        BY <2>1, <2>2 DEF Says, TypeOK
    <2>4. p # cmd
        BY <2>2 DEF PipeInv
    <2>5. ASSUME p = spawned PROVE Starting(p)'
        <3>1. stdin[p] = <<>> /\ AllNoise(stdout[p])
            BY <2>2, <2>5 DEF PipeInv, Starting
        <3>2. OneOf(Append(stdout[p], l), Greetings)
            BY <2>1, <3>1, LineAppended DEF Greetings, Lines, TypeOK
        <3> QED BY <2>2, <2>3, <3>1, <3>2 DEF Starting
    <2> QED BY <1>9, <2>2, <2>3, <2>4, <2>5
<1>11. ASSUME NEW p \in Procs, Answer(p) PROVE PipeInv'
    <2>1. /\ UNCHANGED <<mu, detector, caller, state, troubled>> /\ state[p] = "serving"
          /\ stdin[p] # <<>> /\ stdin' = [stdin EXCEPT ![p] = Tail(@)]
        BY <1>11 DEF Answer
    <2>2. stdin[p] \in Seq(Texts) /\ Head(stdin[p]) \in Texts /\ stdout[p] \in Seq(Lines)
        <3>1. stdin[p] \in Seq(Texts) /\ stdout[p] \in Seq(Lines)
            BY DEF TypeOK
        <3> QED BY <2>1, <3>1
    <2>3. PICK l \in AnswersTo(Head(stdin[p])) : Says(p, l)
        BY <1>11 DEF Answer, AnswersTo
    <2>4. l \in Lines
        BY <2>2, <2>3 DEF AnswersTo, Lines
    <2>5. /\ \A q \in Procs : q # p => stdout'[q] = stdout[q] /\ stdin'[q] = stdin[q]
          /\ stdout'[p] = Append(stdout[p], l) /\ stdin'[p] = Tail(stdin[p])
        BY <2>1, <2>3 DEF Says, TypeOK
    <2>6. p # spawned
        BY <2>1 DEF PipeInv, Starting
    <2>7. ~Quiet(p)
        BY <2>1 DEF Quiet
    <2>8. ASSUME NEW t \in Texts, Asked(p, t) PROVE Asked(p, t)'
        <3>1. stdin[p] = <<t>> /\ AllNoise(stdout[p])
            BY <2>1, <2>8 DEF Asked
        <3>2. l \in AnswersTo(t) /\ Tail(stdin[p]) = <<>>
            BY <2>3, <3>1
        <3>3. OneOf(Append(stdout[p], l), AnswersTo(t))
            BY <2>2, <2>4, <3>1, <3>2, LineAppended
        <3> QED BY <2>5, <3>2, <3>3 DEF Asked
    <2>9. state'[p] \notin {"unborn", "loading"}
        BY <2>1
    <2> QED BY <1>9, <2>1, <2>5, <2>6, <2>7, <2>8, <2>9
<1>12. ASSUME NEW p \in Procs, Noise(p) PROVE PipeInv'
    <2>1. /\ UNCHANGED <<mu, detector, caller, state, stdin, troubled>>
          /\ state[p] \in {"loading", "serving"} /\ Says(p, NoiseLine)
        BY <1>12 DEF Noise, NoiseLine
    <2>2. /\ \A q \in Procs : q # p => stdout'[q] = stdout[q]
          /\ stdout'[p] = Append(stdout[p], NoiseLine) /\ stdout[p] \in Seq(Lines)
        BY <2>1 DEF Says, TypeOK
    <2>3. Quiet(p) => Quiet(p)'
        BY <2>1, <2>2, NoiseAppended DEF Quiet
    <2>4. \A t \in Texts : Asked(p, t) => Asked(p, t)'
        BY <2>1, <2>2, NoiseAppended DEF Asked
    <2>5. Starting(p) => Starting(p)'
        BY <2>1, <2>2, NoiseAppended DEF Starting
    <2>6. /\ p = spawned => Starting(p)
          /\ p = cmd => state[p] # "loading"
        BY DEF PipeInv
    <2> QED BY <1>9, <2>1, <2>2, <2>3, <2>4, <2>5, <2>6
<1>13. ASSUME NEW p \in Procs, Die(p) PROVE PipeInv'
    <2>1. /\ UNCHANGED <<mu, detector, caller, stdin, stdout, troubled>>
          /\ state[p] \in {"loading", "serving"} /\ state' = [state EXCEPT ![p] = "dead"]
        BY <1>13 DEF Die, Killed
    <2>2. /\ \A q \in Procs : q # p => state'[q] = state[q]
          /\ state'[p] = "dead"
        BY <2>1 DEF TypeOK
    <2>3. /\ Quiet(p) => Quiet(p)'
          /\ \A t \in Texts : Asked(p, t) => Asked(p, t)'
          /\ Starting(p) => Starting(p)'
        BY <2>1, <2>2 DEF Quiet, Asked, Starting
    <2>4. p = spawned => Starting(p)
        BY DEF PipeInv
    <2> QED BY <1>9, <2>1, <2>2, <2>3, <2>4
<1>14. ASSUME UNCHANGED vars PROVE PipeInv'
    BY <1>0, <1>14 DEF vars, detector, procs, caller
<1> QED BY <1>1, <1>2, <1>3, <1>4, <1>5, <1>6, <1>7, <1>8, <1>10, <1>11, <1>12, <1>13, <1>14
        DEF Next, CallerStep, Sidecar

LEMMA AnswersInductive ==
    TypeOK /\ LockInv /\ PipeInv /\ AnswersMatch /\ [Next]_vars => AnswersMatch'
<1> SUFFICES ASSUME TypeOK, LockInv, PipeInv, AnswersMatch, [Next]_vars PROVE AnswersMatch'
    OBVIOUS
<1>1. ASSUME UNCHANGED <<result, text>> PROVE AnswersMatch'
    BY <1>1 DEF AnswersMatch
<1>2. ASSUME NEW c \in Callers, NEW r, Finish(c, r), r.kind # "overlay" \/ r.of = text[c]
      PROVE  AnswersMatch'
    BY <1>2 DEF Finish, AnswersMatch, TypeOK
<1>3. ASSUME NEW c \in Callers, NEW o \in Ops, NEW t \in Texts, Call(c, o, t)
      PROVE  AnswersMatch'
    BY <1>3 DEF Call, AnswersMatch, TypeOK
<1>4. Native.kind # "overlay" /\ \A k \in {"ok", "failed"} : [kind |-> k].kind # "overlay"
    BY DEF Native
<1>5. \A c : Fallback(c).kind # "overlay"
    BY <1>4 DEF Fallback
<1>6. ASSUME NEW c \in Callers,
             AnalyzeWhenDead(c) \/ StartWhenStarted(c) \/ CloseNothing(c) \/ Close(c)
             \/ SpawnFails(c) \/ NotReady(c) \/ WriteFails(c) \/ ReadFails(c)
             \/ Undecodable(c) \/ ReadError(c)
      PROVE  AnswersMatch'
    <2>1. Fail(c) \/ Finish(c, Native) \/ Finish(c, [kind |-> "ok"])
        BY <1>6 DEF AnalyzeWhenDead, StartWhenStarted, CloseNothing, Close, SpawnFails,
                    NotReady, WriteFails, ReadFails, Undecodable, ReadError
    <2>2. Fail(c) => Finish(c, Fallback(c))
        BY DEF Fail
    <2> QED BY <1>2, <1>4, <1>5, <2>1, <2>2
<1>7. ASSUME NEW c \in Callers, ReadEntities(c) PROVE AnswersMatch'
    <2>1. /\ AtRead(c) /\ stdout[cmd] # <<>> /\ Head(stdout[cmd]).kind = "entities"
          /\ Finish(c, Overlay(Head(stdout[cmd]).of))
        BY <1>7 DEF ReadEntities
    <2>2. Head(stdout[cmd]) \in AnswersTo(text[c])
        BY <2>1, AnswerIsOwn
    <2>3. Head(stdout[cmd]).of = text[c]
        BY <2>1, <2>2 DEF AnswersTo
    <2> QED BY <1>2, <2>1, <2>3 DEF Overlay
<1>8. ASSUME NEW c \in Callers,
             AnalyzeWhenStarted(c) \/ (\E p \in Procs : Spawn(c, p)) \/ Write(c)
      PROVE  AnswersMatch'
    BY <1>1, <1>8 DEF AnalyzeWhenStarted, Spawn, Write, Goto
<1>9. ASSUME NEW c \in Callers, Ready(c) PROVE AnswersMatch'
    BY <1>1, <1>2, <1>4, <1>9 DEF Ready, Goto
<1>10. ASSUME NEW p \in Procs, Sidecar(p) \/ Noise(p) \/ Die(p) PROVE AnswersMatch'
    BY <1>1, <1>10 DEF Sidecar, Loaded, ImportFails, Answer, Noise, Die, caller
<1>11. ASSUME UNCHANGED vars PROVE AnswersMatch'
    BY <1>1, <1>11 DEF vars, caller
<1> QED BY <1>3, <1>6, <1>7, <1>8, <1>9, <1>10, <1>11 DEF Next, CallerStep

(***************************************************************************)
(* A redaction is never overlaid with the entities of another text: while  *)
(* the sidecar is not marked dead the pipes hold no answer between         *)
(* exchanges, and only the reader's own during one (analyze).              *)
(***************************************************************************)
THEOREM AnswersAlwaysMatch == Spec => []AnswersMatch
<1>1. Init => PipeInv /\ AnswersMatch
    BY NoneAssumption DEF Init, PipeInv, AnswersMatch, Quiet, AllNoise
<1> QED BY <1>1, InitTypeLock, TypeInductive, LockInductive, PipesInductive, AnswersInductive, PTL
        DEF Spec
=============================================================================
