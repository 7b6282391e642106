---------------------------- MODULE MemoryGuard ----------------------------
(***************************************************************************)
(* `memory-guard serve`: one goroutine per connection (a handler) carries  *)
(* one request through the guard (guard.go, keys.go, ipc.go).  A handler   *)
(* is interleaved with the others wherever the code does not hold g.mu.    *)
(* A critical section that is one store or registry operation is one step, *)
(* enabled when g.mu is free; VerifyDelete holds g.mu over several steps.  *)
(* Events go through the bounded AsyncSink; the process may crash and      *)
(* restart, keeping the store only when it is the FileStore.               *)
(***************************************************************************)
EXTENDS GuardData, Naturals, Sequences, FiniteSets

CONSTANTS
    Handlers,     \* connections served at the same time
    Free,         \* nobody holds g.mu
    MaxRequests,  \* bound: requests accepted over the whole behaviour
    MaxCrashes,   \* bound: crashes of the process
    AuditCap,     \* AsyncSink's buffer; 0 when emission is disabled
    InspectorFlags, \* what the WriteInspector may add; {} when it is nil
    Durable       \* TRUE for MEMGUARD_STORE=file

ASSUME ServerAssumption ==
    /\ Free \notin Handlers
    /\ MaxRequests \in Nat /\ MaxCrashes \in Nat /\ AuditCap \in Nat
    /\ Durable \in BOOLEAN
    /\ InspectorFlags \subseteq {"behavioral"}
    /\ IsFiniteSet(Ids) /\ MaxRequests <= Cardinality(Ids)

VARIABLES
    pc,         \* where each handler is
    req,        \* the request it carries
    flags,      \* the write flags gathered so far
    held,       \* the entries it copied out of the store, by id
    resp,       \* the answer it has computed
    mu,         \* the holder of g.mu
    store,      \* MemoryStore: id -> entry, None when absent
    baselines,  \* g.baselines: key -> hash of the content (the content itself)
    queue,      \* AsyncSink.ch
    forwarded,  \* events the drain goroutine took out, in order
    \* History, not in the code:
    written,    \* who minted each id, and in which process lifetime
    acked,      \* ids clients were given
    gone,       \* ids whose deletion was confirmed to a client
    seen,       \* acked and gone when each handler's request arrived
    sent,       \* requests accepted so far
    epoch       \* restarts so far

handlerVars == <<pc, req, flags, held, resp>>
guardVars   == <<mu, store, baselines>>
auditVars   == <<queue, forwarded>>
ghostVars   == <<written, acked, gone, seen, sent, epoch>>
vars        == <<handlerVars, guardVars, auditVars, ghostVars>>

-----------------------------------------------------------------------------
Steps == {"idle", "gate", "protected", "baseline", "inspect", "put", "emit",
          "scan", "filter", "lookup", "review", "lock", "fetch", "delete", "verify", "reply"}

Holding == {"fetch", "delete", "verify"}   \* VerifyDelete between Lock and Unlock

InjectionRejected == [type : {"injection_rejected"}, flags : SUBSET Flags, source : SourceClasses]
PIIRedaction      == [type : {"pii_redaction"}, id : Ids, flags : SUBSET Flags, source : SourceClasses]
Deletion          == [type : {"deletion"}, residue : BOOLEAN,
                      hash : (Ids \cup BogusIds) \X (Contents \cup {None})]
Event             == InjectionRejected \cup PIIRedaction \cup Deletion

Author == [who : Principals, text : Texts, key : Keys \cup {None}, epoch : Nat]

\* The absent value is none of the records it stands in for.
ASSUME AbsenceAssumption == None \notin Author \cup Request \cup Answer

TypeOK ==
    /\ pc \in [Handlers -> Steps]
    /\ req \in [Handlers -> Request \cup {None}]
    /\ flags \in [Handlers -> SUBSET Flags]
    /\ held \in [Handlers -> [Ids -> Entry \cup {None}]]
    /\ resp \in [Handlers -> Answer \cup {None}]
    /\ mu \in Handlers \cup {Free}
    /\ store \in [Ids -> Entry \cup {None}]
    /\ baselines \in [Keys -> Contents \cup {None}]
    /\ queue \in Seq(Event) /\ forwarded \in Seq(Event)
    /\ written \in [Ids -> Author \cup {None}]
    /\ acked \subseteq Ids /\ gone \subseteq Ids \cup BogusIds
    /\ seen \in [Handlers -> [acked : SUBSET Ids, gone : SUBSET (Ids \cup BogusIds)]]
    /\ sent \in Nat /\ epoch \in Nat

Nothing == [i \in Ids |-> None]

Init ==
    /\ pc = [h \in Handlers |-> "idle"]
    /\ req = [h \in Handlers |-> None]
    /\ flags = [h \in Handlers |-> {}]
    /\ held = [h \in Handlers |-> Nothing]
    /\ resp = [h \in Handlers |-> None]
    /\ mu = Free
    /\ store = Nothing
    /\ baselines = [k \in Keys |-> None]
    /\ queue = <<>> /\ forwarded = <<>>
    /\ written = Nothing
    /\ acked = {} /\ gone = {}
    /\ seen = [h \in Handlers |-> [acked |-> {}, gone |-> {}]]
    /\ sent = 0 /\ epoch = 0
-----------------------------------------------------------------------------
(***************************************************************************)
(* ipc.go: a request arrives on a new connection.  Clients name an id they *)
(* were given, or one nobody was given.                                    *)
(***************************************************************************)
Begins(h, r, step) ==
    /\ req' = [req EXCEPT ![h] = r]
    /\ pc' = [pc EXCEPT ![h] = step]

Accept(h) ==
    /\ pc[h] = "idle"
    /\ sent < MaxRequests
    /\ \/ \E r \in WriteRequests : Begins(h, r, "gate")
       \/ \E r \in ReadRequests : Begins(h, r, "scan")
       \/ \E i \in acked \cup BogusIds :
             \/ Begins(h, [op |-> "review_quarantine", id |-> i], "lookup")
             \/ Begins(h, [op |-> "verify_delete", id |-> i], "lock")
    /\ seen' = [seen EXCEPT ![h] = [acked |-> acked, gone |-> gone]]
    /\ sent' = sent + 1
    /\ UNCHANGED <<flags, held, resp, guardVars, auditVars,
                   written, acked, gone, epoch>>

Goto(h, step) == pc' = [pc EXCEPT ![h] = step]

\* The handler has computed answer a and writes it next.
Answers(h, a) == resp' = [resp EXCEPT ![h] = a] /\ Goto(h, "reply")

-----------------------------------------------------------------------------
(***************************************************************************)
(* Audit emission: emitSafe swallows every error, AsyncSink.Emit drops the *)
(* event when the buffer is full.                                          *)
(***************************************************************************)
OfferNewestFirst(q, e) == IF Len(q) < AuditCap THEN <<e>> \o q ELSE q    \* mutant

Offer(q, e) == IF Len(q) < AuditCap THEN Append(q, e) ELSE q

Emit(e) == queue' = Offer(queue, e) /\ UNCHANGED forwarded

\* AsyncSink.drain takes one event and hands it to the transport.  Whether and
\* when it reaches the trail is the AsyncSink module's: it may be lost, or late.
Drain ==
    /\ queue # <<>>
    /\ queue' = Tail(queue)
    /\ forwarded' = Append(forwarded, Head(queue))
    /\ UNCHANGED <<handlerVars, guardVars, ghostVars>>

-----------------------------------------------------------------------------
(***************************************************************************)
(* ValidateWrite.  The detectors and the gate run before any lock.         *)
(***************************************************************************)
Blocked(fs) == [op |-> "validate_write", allow |-> FALSE, id |-> None,
                state |-> "block", flags |-> fs]

Text(h)     == req[h].text
Key(h)      == req[h].key
Writer(h)   == req[h].who
Redacted(h) == Redact[Text(h)]

RejectInjection(h) ==
    /\ pc[h] = "gate"
    /\ "injection_suspected" \in DetectorFlags(Text(h))
    /\ Emit([type |-> "injection_rejected", flags |-> DetectorFlags(Text(h)),
             source |-> SourceClass(Writer(h))])
    /\ Answers(h, Blocked(DetectorFlags(Text(h))))
    /\ UNCHANGED <<req, flags, held, guardVars, ghostVars>>

PassGate(h) ==
    /\ pc[h] = "gate"
    /\ "injection_suspected" \notin DetectorFlags(Text(h))
    /\ flags' = [flags EXCEPT ![h] = DetectorFlags(Text(h))]
    /\ Goto(h, IF Key(h) = None THEN "inspect" ELSE "protected")
    /\ UNCHANGED <<req, held, resp, guardVars, auditVars, ghostVars>>

\* evaluateKeyPolicy, first half: write authorization, no shared state.
Unauthorized(h) == Key(h) \in ReservedKeys \cup ProtectedKeys /\ ~Writer(h).attested

AddFlags(h, fs) == flags' = [flags EXCEPT ![h] = @ \cup fs]

\* Mutant: the baseline is established before the rejection is decided.
RejectUnattestedAfterBaseline(h) ==
    /\ pc[h] = "protected"
    /\ Unauthorized(h) /\ Key(h) \in ReservedKeys
    /\ mu = Free
    /\ baselines' = [baselines EXCEPT ![Key(h)] = IF @ = None THEN Redacted(h) ELSE @]
    /\ Answers(h, Blocked(flags[h] \cup {"protected_key_violation"}))
    /\ UNCHANGED <<req, flags, held, mu, store, auditVars, ghostVars>>

RejectUnattested(h) ==
    /\ pc[h] = "protected"
    /\ Unauthorized(h) /\ Key(h) \in ReservedKeys
    /\ Answers(h, Blocked(flags[h] \cup {"protected_key_violation"}))
    /\ UNCHANGED <<req, flags, held, guardVars, auditVars, ghostVars>>

PassProtected(h) ==
    /\ pc[h] = "protected"
    /\ ~(Unauthorized(h) /\ Key(h) \in ReservedKeys)
    /\ AddFlags(h, IF Unauthorized(h) THEN {"protected_key_violation"} ELSE {})
    /\ Goto(h, IF Key(h) \in ReservedKeys \cup ImmutableKeys THEN "baseline" ELSE "inspect")
    /\ UNCHANGED <<req, held, resp, guardVars, auditVars, ghostVars>>

\* Second half: value drift, one critical section on g.mu.
EstablishBaselineAlways(h) ==       \* mutant: the first-seen value is not pinned
    /\ pc[h] = "baseline" /\ mu = Free
    /\ baselines' = [baselines EXCEPT ![Key(h)] = Redacted(h)]
    /\ Goto(h, "inspect")
    /\ UNCHANGED <<req, flags, held, resp, mu, store, auditVars, ghostVars>>

EstablishBaseline(h) ==
    /\ pc[h] = "baseline" /\ mu = Free
    /\ baselines[Key(h)] = None
    /\ baselines' = [baselines EXCEPT ![Key(h)] = Redacted(h)]
    /\ Goto(h, "inspect")
    /\ UNCHANGED <<req, flags, held, resp, mu, store, auditVars, ghostVars>>

Drifts(h) == baselines[Key(h)] \notin {None, Redacted(h)}

MatchBaseline(h) ==
    /\ pc[h] = "baseline" /\ mu = Free
    /\ baselines[Key(h)] = Redacted(h)
    /\ Goto(h, "inspect")
    /\ UNCHANGED <<req, flags, held, resp, guardVars, auditVars, ghostVars>>

FlagDrift(h) ==
    /\ pc[h] = "baseline" /\ mu = Free
    /\ Drifts(h) /\ Key(h) \notin ReservedKeys
    /\ AddFlags(h, {"immutable_mismatch"})
    /\ Goto(h, "inspect")
    /\ UNCHANGED <<req, held, resp, guardVars, auditVars, ghostVars>>

RejectDriftByWaiting(h) ==      \* mutant: wait until the value is the baseline's
    /\ pc[h] = "baseline" /\ mu = Free
    /\ Drifts(h) /\ Key(h) \in ReservedKeys
    /\ UNCHANGED vars

RejectDrift(h) ==
    /\ pc[h] = "baseline" /\ mu = Free
    /\ Drifts(h) /\ Key(h) \in ReservedKeys
    /\ Answers(h, Blocked(flags[h] \cup {"immutable_mismatch"}))
    /\ UNCHANGED <<req, flags, held, guardVars, auditVars, ghostVars>>

\* The WriteInspector seam: additive flags that depend on a history kept elsewhere.
Inspect(h) ==
    /\ pc[h] = "inspect"
    /\ \E fs \in SUBSET InspectorFlags : AddFlags(h, fs)
    /\ Goto(h, "put")
    /\ UNCHANGED <<req, held, resp, guardVars, auditVars, ghostVars>>

FreshIds == {i \in Ids : written[i] = None}

EntryOf(h) == [content       |-> Redacted(h),
               boundIdentity |-> BoundKeyFor(Writer(h)),
               sourceClass   |-> SourceClass(Writer(h)),
               flags         |-> flags[h],
               quarantined   |-> "borderline_suspected" \in flags[h]]

Stored(h, id) == [op |-> "validate_write", allow |-> TRUE, id |-> id,
                  state |-> IF EntryOf(h).quarantined THEN "quarantine" ELSE "allow",
                  flags |-> flags[h]]

\* Lock, mint the id, Put, Unlock; the answer is fixed here.
Put(h) ==
    /\ pc[h] = "put" /\ mu = Free
    /\ \E id \in FreshIds :
        /\ store' = [store EXCEPT ![id] = EntryOf(h)]
        /\ written' = [written EXCEPT ![id] =
               [who |-> Writer(h), text |-> Text(h), key |-> Key(h), epoch |-> epoch]]
        /\ resp' = [resp EXCEPT ![h] = Stored(h, id)]
    /\ Goto(h, IF "pii" \in flags[h] THEN "emit" ELSE "reply")
    /\ UNCHANGED <<req, flags, held, mu, baselines, auditVars,
                   acked, gone, seen, sent, epoch>>

\* The pii_redaction event leaves after Unlock and before the response.
EmitPII(h) ==
    /\ pc[h] = "emit"
    /\ Emit([type |-> "pii_redaction", id |-> resp[h].id, flags |-> flags[h],
             source |-> SourceClass(Writer(h))])
    /\ Goto(h, "reply")
    /\ UNCHANGED <<req, flags, held, resp, guardVars, ghostVars>>

-----------------------------------------------------------------------------
(***************************************************************************)
(* ValidateRead: one ScanScoped under g.mu, then quarantined entries are   *)
(* dropped and the rest redacted from the handler's own copy.              *)
(***************************************************************************)
ScanScoped(query, visible) ==
    [i \in Ids |-> IF /\ store[i] # None
                      /\ store[i].content \in query
                      /\ store[i].boundIdentity \in visible
                   THEN store[i] ELSE None]

Scan(h) ==
    /\ pc[h] = "scan" /\ mu = Free
    /\ held' = [held EXCEPT ![h] = ScanScoped(req[h].query, VisibleKeys(req[h].who))]
    /\ Goto(h, "filter")
    /\ UNCHANGED <<req, flags, resp, guardVars, auditVars, ghostVars>>

Readable(entries) ==
    {<<i, Redact[entries[i].content]>> :
        i \in {j \in Ids : entries[j] # None /\ ~entries[j].quarantined}}

Filter(h) ==
    /\ pc[h] = "filter"
    /\ Answers(h, [op |-> "validate_read", hits |-> Readable(held[h])])
    /\ UNCHANGED <<req, flags, held, guardVars, auditVars, ghostVars>>

-----------------------------------------------------------------------------
(***************************************************************************)
(* ReviewQuarantine: Get under g.mu, the decision on the copy.             *)
(***************************************************************************)
Get(id) == IF id \in Ids THEN store[id] ELSE None

\* What Get copied for the id the request of h names.
Copy(h) == IF req[h].id \in Ids THEN held[h][req[h].id] ELSE None

Fetched(h) == [i \in Ids |-> IF i = req[h].id THEN Get(i) ELSE None]

Lookup(h) ==
    /\ pc[h] = "lookup" /\ mu = Free
    /\ held' = [held EXCEPT ![h] = Fetched(h)]
    /\ Goto(h, "review")
    /\ UNCHANGED <<req, flags, resp, guardVars, auditVars, ghostVars>>

NotFound == [op |-> "review_quarantine", found |-> FALSE, content |-> None, flags |-> {}]

Reviewed(e) ==
    IF e = None THEN NotFound
    ELSE IF ~e.quarantined THEN NotFound
    ELSE [op |-> "review_quarantine", found |-> TRUE,
          content |-> Redact[e.content], flags |-> e.flags]

ReviewWritesBack(h) ==              \* mutant: the copy is put back after the unlock
    /\ pc[h] = "review"
    /\ Answers(h, Reviewed(Copy(h)))
    /\ store' = [i \in Ids |-> IF held[h][i] # None THEN held[h][i] ELSE store[i]]
    /\ UNCHANGED <<req, flags, held, mu, baselines, auditVars, ghostVars>>

Review(h) ==
    /\ pc[h] = "review"
    /\ Answers(h, Reviewed(Copy(h)))
    /\ UNCHANGED <<req, flags, held, guardVars, auditVars, ghostVars>>
-----------------------------------------------------------------------------
(***************************************************************************)
(* VerifyDelete holds g.mu from Lock to the deferred Unlock: Get, Delete,  *)
(* the absence proof by a second Get, the residue scan over the survivors, *)
(* and the deletion event.                                                 *)
(***************************************************************************)
LockWithoutWaiting(h) ==            \* mutant: VerifyDelete takes no lock
    /\ pc[h] = "lock"
    /\ mu' = IF mu = Free THEN h ELSE mu
    /\ Goto(h, "fetch")
    /\ UNCHANGED <<req, flags, held, resp, store, baselines, auditVars, ghostVars>>

Lock(h) ==
    /\ pc[h] = "lock" /\ mu = Free
    /\ mu' = h
    /\ Goto(h, "fetch")
    /\ UNCHANGED <<req, flags, held, resp, store, baselines, auditVars, ghostVars>>

Fetch(h) ==
    /\ pc[h] = "fetch"
    /\ held' = [held EXCEPT ![h] = Fetched(h)]
    /\ Goto(h, "delete")
    /\ UNCHANGED <<req, flags, resp, guardVars, auditVars, ghostVars>>

Delete(h) ==
    /\ pc[h] = "delete"
    /\ store' = [i \in Ids |-> IF i = req[h].id THEN None ELSE store[i]]
    /\ Goto(h, "verify")
    /\ UNCHANGED <<req, flags, held, resp, mu, baselines, auditVars, ghostVars>>

ReadableSurvivors == {i \in Ids : store[i] # None /\ ~store[i].quarantined}   \* mutant

Survivors == {i \in Ids : store[i] # None}

\* residueScanIndexes, run only when the entry existed.
ResidueOf(deleted) ==
    /\ deleted # None
    /\ \E i \in Survivors : <<deleted.content, store[i].content>> \in Residual

\* Of an entry that is absent the code digests (id, ""), which it also does of
\* one whose content is empty: the contents here are not empty.
DeletionHash(h) ==
    <<req[h].id, IF Copy(h) = None THEN None ELSE Copy(h).content>>

Deleted(h) == [op        |-> "verify_delete",
               confirmed |-> Get(req[h].id) = None,
               residue   |-> ResidueOf(Copy(h)),
               hash      |-> DeletionHash(h)]

Verify(h) ==
    /\ pc[h] = "verify"
    /\ Emit([type |-> "deletion", residue |-> Deleted(h).residue, hash |-> Deleted(h).hash])
    /\ Answers(h, Deleted(h))
    /\ mu' = Free
    /\ UNCHANGED <<req, flags, held, store, baselines, ghostVars>>

-----------------------------------------------------------------------------
\* What the client learns when it receives a.
LearnedIds(a) == {i \in Ids : a.op = "validate_write" /\ a.id = i}
LearnedGone(r, a) == {i \in Ids \cup BogusIds :
                        a.op = "verify_delete" /\ a.confirmed /\ r.id = i}

\* The handler's goroutine ends and its locals with it.
Ends(h) ==
    /\ Goto(h, "idle")
    /\ req' = [req EXCEPT ![h] = None]
    /\ flags' = [flags EXCEPT ![h] = {}]
    /\ held' = [held EXCEPT ![h] = Nothing]
    /\ resp' = [resp EXCEPT ![h] = None]
    /\ seen' = [seen EXCEPT ![h] = [acked |-> {}, gone |-> {}]]

\* writeJSON, and the client reads the line.
Reply(h) ==
    /\ pc[h] = "reply"
    /\ acked' = acked \cup LearnedIds(resp[h])
    /\ gone' = gone \cup LearnedGone(req[h], resp[h])
    /\ Ends(h)
    /\ UNCHANGED <<guardVars, auditVars, written, sent, epoch>>

\* writeJSON ignores the error of a Write to a client that has gone.
ReplyLost(h) ==
    /\ pc[h] = "reply"
    /\ Ends(h)
    /\ UNCHANGED <<guardVars, auditVars, written, acked, gone, sent, epoch>>

-----------------------------------------------------------------------------
\* A FileStore outlives the process, an in-memory store does not.  NewFileStore
\* refuses a file it cannot read: then nothing serves, and no step follows.
Reopened == IF Durable THEN store ELSE Nothing

\* The process dies (a FileStore I/O panic, a kill) and is started again.
Crash ==
    /\ epoch < MaxCrashes
    /\ epoch' = epoch + 1
    /\ pc' = [h \in Handlers |-> "idle"]
    /\ req' = [h \in Handlers |-> None]
    /\ flags' = [h \in Handlers |-> {}]
    /\ held' = [h \in Handlers |-> Nothing]
    /\ resp' = [h \in Handlers |-> None]
    /\ seen' = [h \in Handlers |-> [acked |-> {}, gone |-> {}]]
    /\ mu' = Free
    /\ store' = Reopened
    /\ baselines' = [k \in Keys |-> None]
    /\ queue' = <<>>
    /\ UNCHANGED <<forwarded, written, acked, gone, sent>>

\* No client has anything left to ask.
Quiescent ==
    /\ sent = MaxRequests /\ queue = <<>>
    /\ \A h \in Handlers : pc[h] = "idle"
    /\ UNCHANGED vars

ValidateWrite(h) ==
    \/ RejectInjection(h) \/ PassGate(h)
    \/ RejectUnattested(h) \/ PassProtected(h)
    \/ EstablishBaseline(h) \/ MatchBaseline(h) \/ FlagDrift(h) \/ RejectDrift(h)
    \/ Inspect(h) \/ Put(h) \/ EmitPII(h)
ValidateRead(h)     == Scan(h) \/ Filter(h)
ReviewQuarantine(h) == Lookup(h) \/ Review(h)
VerifyDelete(h)     == Lock(h) \/ Fetch(h) \/ Delete(h) \/ Verify(h)

Serve(h) ==
    \/ ValidateWrite(h) \/ ValidateRead(h) \/ ReviewQuarantine(h) \/ VerifyDelete(h)
    \/ Reply(h) \/ ReplyLost(h)

Next ==
    \/ \E h \in Handlers : Accept(h) \/ Serve(h)
    \/ Drain
    \/ Crash
    \/ Quiescent

Spec == Init /\ [][Next]_vars

(***************************************************************************)
(* The Go scheduler runs every runnable goroutine, and sync.Mutex hands    *)
(* itself to a waiter starved for a millisecond, hence strong fairness of  *)
(* a handler.  The transport's two-second deadlines bound each forward.    *)
(***************************************************************************)
FairSpec == Spec /\ (\A h \in Handlers : SF_vars(Serve(h))) /\ WF_vars(Drain)
=============================================================================
