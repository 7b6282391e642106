---------------------------- MODULE GuardProofs ----------------------------
(***************************************************************************)
(* Theorems about MemoryGuard for every value of its constants: the types  *)
(* of its variables, the named-key policy, the entries from their write to *)
(* their deletion, what readers, reviewers and the audit trail are told of *)
(* them, and that MemoryGuard implements GuardContract.                    *)
(***************************************************************************)
EXTENDS GuardProperties, TLAPS

WriteSteps  == {"gate", "protected", "baseline", "inspect", "put", "emit"}
PolicySteps == {"protected", "baseline"}
DeleteSteps == {"lock", "fetch", "delete", "verify"}

\* Every handler carries the kind of request its step belongs to.
StepFits(h) ==
    /\ pc[h] \in WriteSteps => req[h] \in WriteRequest
    /\ pc[h] \in PolicySteps => req[h].key \in Keys
    /\ pc[h] \in {"scan", "filter"} => req[h] \in ReadRequest
    /\ pc[h] \in DeleteSteps => req[h] \in IdRequest /\ req[h].op = "verify_delete"
    /\ pc[h] \in {"lookup", "review"} => req[h] \in IdRequest /\ req[h].op = "review_quarantine"
    /\ pc[h] = "emit" => resp[h].id \in Ids
    /\ pc[h] \in {"emit", "reply"} => resp[h] \in Answer

TypeInv == TypeOK /\ \A h \in Handlers : StepFits(h)

\* What a handler computes from its own request has the declared type.
LEMMA FlagsType == \A t : DetectorFlags(t) \subseteq Flags
  BY DEF DetectorFlags, Flags

LEMMA BoundKeyType == ASSUME NEW p \in Principals PROVE BoundKeyFor(p) \in BoundKeys
  BY DEF BoundKeyFor, BoundKeys, Principals

LEMMA SourceType == ASSUME NEW p \in Principals PROVE SourceClass(p) \in SourceClasses
  BY DEF SourceClass, SourceClasses

LEMMA EntryType ==
  ASSUME NEW h \in Handlers, req[h] \in WriteRequest, flags[h] \subseteq Flags
  PROVE  EntryOf(h) \in Entry
  BY BoundKeyType, SourceType, DetectorAssumption
  DEF EntryOf, Entry, Redacted, Text, Writer, WriteRequest

LEMMA OfferType ==
  ASSUME NEW q \in Seq(Event), NEW e \in Event
  PROVE  Offer(q, e) \in Seq(Event)
  BY DEF Offer

LEMMA InitType == Init => TypeInv
  BY DEF Init, TypeInv, TypeOK, StepFits, Nothing, Steps, WriteSteps, PolicySteps, DeleteSteps

\* The kinds of request a handler may begin at a step with.
Suits(r, step) ==
    \/ step = "gate" /\ r \in WriteRequest
    \/ step = "scan" /\ r \in ReadRequest
    \/ step = "lookup" /\ r \in IdRequest /\ r.op = "review_quarantine"
    \/ step = "lock" /\ r \in IdRequest /\ r.op = "verify_delete"

LEMMA AcceptType ==
  ASSUME TypeInv, NEW h \in Handlers, Accept(h) PROVE TypeInv'
  <1>1. PICK r, step : Begins(h, r, step) /\ Suits(r, step)
    <2>1. ASSUME NEW r \in WriteRequests, Begins(h, r, "gate")
          PROVE  \E q, s : Begins(h, q, s) /\ Suits(q, s)
      BY <2>1, RequestAssumption DEF Suits
    <2>2. ASSUME NEW r \in ReadRequests, Begins(h, r, "scan")
          PROVE  \E q, s : Begins(h, q, s) /\ Suits(q, s)
      BY <2>2, RequestAssumption DEF Suits
    <2>3. ASSUME NEW i \in acked \cup BogusIds,
                 Begins(h, [op |-> "review_quarantine", id |-> i], "lookup")
          PROVE  \E q, s : Begins(h, q, s) /\ Suits(q, s)
      <3>1. [op |-> "review_quarantine", id |-> i] \in IdRequest
        BY DEF IdRequest, TypeInv, TypeOK
      <3> QED BY <2>3, <3>1 DEF Suits
    <2>4. ASSUME NEW i \in acked \cup BogusIds,
                 Begins(h, [op |-> "verify_delete", id |-> i], "lock")
          PROVE  \E q, s : Begins(h, q, s) /\ Suits(q, s)
      <3>1. [op |-> "verify_delete", id |-> i] \in IdRequest
        BY DEF IdRequest, TypeInv, TypeOK
      <3> QED BY <2>4, <3>1 DEF Suits
    <2> QED BY <2>1, <2>2, <2>3, <2>4 DEF Accept
  <1>2. r \in Request
    BY <1>1 DEF Suits, Request
  <1>3. TypeOK'
    BY <1>1, <1>2 DEF Accept, Begins, Suits, TypeInv, TypeOK, Steps, handlerVars, guardVars, auditVars
  <1>4. ASSUME NEW k \in Handlers PROVE StepFits(k)'
    BY <1>1 DEF Accept, Begins, Suits, TypeInv, TypeOK, StepFits, WriteSteps, PolicySteps,
       DeleteSteps
  <1> QED BY <1>3, <1>4 DEF TypeInv

LEMMA RejectInjectionType ==
  ASSUME TypeInv, NEW h \in Handlers, RejectInjection(h) PROVE TypeInv'
  <1>1. \A fs \in SUBSET Flags : Blocked(fs) \in Answer
    BY DEF Blocked, Answer, WriteAnswer
  <1>2. Offer(queue, [type |-> "injection_rejected", flags |-> DetectorFlags(Text(h)),
                      source |-> SourceClass(Writer(h))]) \in Seq(Event)
    BY OfferType, SourceType, FlagsType
    DEF RejectInjection, TypeInv, TypeOK, StepFits, WriteSteps, WriteRequest, Writer, Event,
        InjectionRejected
  <1>8. TypeOK'
    BY <1>1, <1>2, FlagsType
    DEF RejectInjection, Answers, Emit, TypeInv, TypeOK, StepFits, Steps, Goto,
        handlerVars, guardVars, auditVars, ghostVars, WriteSteps, PolicySteps, DeleteSteps
  <1>9. ASSUME NEW k \in Handlers PROVE StepFits(k)'
    BY <1>1, <1>2, FlagsType
    DEF RejectInjection, Answers, Emit, TypeInv, TypeOK, StepFits, Goto, handlerVars, guardVars, ghostVars,
        WriteSteps, PolicySteps, DeleteSteps
  <1> QED BY <1>8, <1>9 DEF TypeInv

LEMMA PassGateType ==
  ASSUME TypeInv, NEW h \in Handlers, PassGate(h) PROVE TypeInv'
  <1>8. TypeOK'
    BY FlagsType
    DEF PassGate, Key, WriteRequest, TypeInv, TypeOK, StepFits, Steps, Goto,
        handlerVars, guardVars, auditVars, ghostVars, WriteSteps, PolicySteps, DeleteSteps
  <1>9. ASSUME NEW k \in Handlers PROVE StepFits(k)'
    BY FlagsType
    DEF PassGate, Key, WriteRequest, TypeInv, TypeOK, StepFits, Goto, handlerVars, guardVars, ghostVars,
        WriteSteps, PolicySteps, DeleteSteps
  <1> QED BY <1>8, <1>9 DEF TypeInv

LEMMA RejectUnattestedType ==
  ASSUME TypeInv, NEW h \in Handlers, RejectUnattested(h) PROVE TypeInv'
  <1>0. {"protected_key_violation", "immutable_mismatch"} \subseteq Flags
    BY DEF Flags
  <1>1. \A fs \in SUBSET Flags : Blocked(fs) \in Answer
    BY DEF Blocked, Answer, WriteAnswer
  <1>8. TypeOK'
    BY <1>0, <1>1
    DEF RejectUnattested, Answers, TypeInv, TypeOK, StepFits, Steps, Goto,
        handlerVars, guardVars, auditVars, ghostVars, WriteSteps, PolicySteps, DeleteSteps
  <1>9. ASSUME NEW k \in Handlers PROVE StepFits(k)'
    BY <1>0, <1>1
    DEF RejectUnattested, Answers, TypeInv, TypeOK, StepFits, Goto, handlerVars, guardVars, ghostVars,
        WriteSteps, PolicySteps, DeleteSteps
  <1> QED BY <1>8, <1>9 DEF TypeInv

LEMMA PassProtectedType ==
  ASSUME TypeInv, NEW h \in Handlers, PassProtected(h) PROVE TypeInv'
  <1>0. {"protected_key_violation", "immutable_mismatch"} \subseteq Flags
    BY DEF Flags
  <1>8. TypeOK'
    BY <1>0
    DEF PassProtected, AddFlags, Key, TypeInv, TypeOK, StepFits, Steps, Goto,
        handlerVars, guardVars, auditVars, ghostVars, WriteSteps, PolicySteps, DeleteSteps
  <1>9. ASSUME NEW k \in Handlers PROVE StepFits(k)'
    BY <1>0
    DEF PassProtected, AddFlags, Key, TypeInv, TypeOK, StepFits, Goto, handlerVars, guardVars, ghostVars,
        WriteSteps, PolicySteps, DeleteSteps
  <1> QED BY <1>8, <1>9 DEF TypeInv

LEMMA EstablishBaselineType ==
  ASSUME TypeInv, NEW h \in Handlers, EstablishBaseline(h) PROVE TypeInv'
  <1>8. TypeOK'
    BY DetectorAssumption
    DEF EstablishBaseline, Key, Redacted, Text, WriteRequest, TypeInv, TypeOK, StepFits, Steps, Goto,
        handlerVars, guardVars, auditVars, ghostVars, WriteSteps, PolicySteps, DeleteSteps
  <1>9. ASSUME NEW k \in Handlers PROVE StepFits(k)'
    BY DetectorAssumption
    DEF EstablishBaseline, Key, Redacted, Text, WriteRequest, TypeInv, TypeOK, StepFits, Goto, handlerVars, guardVars, ghostVars,
        WriteSteps, PolicySteps, DeleteSteps
  <1> QED BY <1>8, <1>9 DEF TypeInv

LEMMA MatchBaselineType ==
  ASSUME TypeInv, NEW h \in Handlers, MatchBaseline(h) PROVE TypeInv'
  <1>8. TypeOK'
    BY DetectorAssumption
    DEF MatchBaseline, Key, TypeInv, TypeOK, StepFits, Steps, Goto,
        handlerVars, guardVars, auditVars, ghostVars, WriteSteps, PolicySteps, DeleteSteps
  <1>9. ASSUME NEW k \in Handlers PROVE StepFits(k)'
    BY DetectorAssumption
    DEF MatchBaseline, Key, TypeInv, TypeOK, StepFits, Goto, handlerVars, guardVars, ghostVars,
        WriteSteps, PolicySteps, DeleteSteps
  <1> QED BY <1>8, <1>9 DEF TypeInv

LEMMA FlagDriftType ==
  ASSUME TypeInv, NEW h \in Handlers, FlagDrift(h) PROVE TypeInv'
  <1>0. {"protected_key_violation", "immutable_mismatch"} \subseteq Flags
    BY DEF Flags
  <1>8. TypeOK'
    BY <1>0
    DEF FlagDrift, AddFlags, TypeInv, TypeOK, StepFits, Steps, Goto,
        handlerVars, guardVars, auditVars, ghostVars, WriteSteps, PolicySteps, DeleteSteps
  <1>9. ASSUME NEW k \in Handlers PROVE StepFits(k)'
    BY <1>0
    DEF FlagDrift, AddFlags, TypeInv, TypeOK, StepFits, Goto, handlerVars, guardVars, ghostVars,
        WriteSteps, PolicySteps, DeleteSteps
  <1> QED BY <1>8, <1>9 DEF TypeInv

LEMMA RejectDriftType ==
  ASSUME TypeInv, NEW h \in Handlers, RejectDrift(h) PROVE TypeInv'
  <1>0. {"protected_key_violation", "immutable_mismatch"} \subseteq Flags
    BY DEF Flags
  <1>1. \A fs \in SUBSET Flags : Blocked(fs) \in Answer
    BY DEF Blocked, Answer, WriteAnswer
  <1>8. TypeOK'
    BY <1>0, <1>1
    DEF RejectDrift, Answers, TypeInv, TypeOK, StepFits, Steps, Goto,
        handlerVars, guardVars, auditVars, ghostVars, WriteSteps, PolicySteps, DeleteSteps
  <1>9. ASSUME NEW k \in Handlers PROVE StepFits(k)'
    BY <1>0, <1>1
    DEF RejectDrift, Answers, TypeInv, TypeOK, StepFits, Goto, handlerVars, guardVars, ghostVars,
        WriteSteps, PolicySteps, DeleteSteps
  <1> QED BY <1>8, <1>9 DEF TypeInv

LEMMA InspectType ==
  ASSUME TypeInv, NEW h \in Handlers, Inspect(h) PROVE TypeInv'
  <1>0. \A fs \in SUBSET InspectorFlags : fs \subseteq Flags
    BY ServerAssumption DEF Flags
  <1>8. TypeOK'
    BY <1>0
    DEF Inspect, AddFlags, TypeInv, TypeOK, StepFits, Steps, Goto,
        handlerVars, guardVars, auditVars, ghostVars, WriteSteps, PolicySteps, DeleteSteps
  <1>9. ASSUME NEW k \in Handlers PROVE StepFits(k)'
    BY <1>0
    DEF Inspect, AddFlags, TypeInv, TypeOK, StepFits, Goto, handlerVars, guardVars, ghostVars,
        WriteSteps, PolicySteps, DeleteSteps
  <1> QED BY <1>8, <1>9 DEF TypeInv

LEMMA PutType ==
  ASSUME TypeInv, NEW h \in Handlers, Put(h) PROVE TypeInv'
  <1>1. EntryOf(h) \in Entry
    BY EntryType DEF Put, TypeInv, TypeOK, StepFits, WriteSteps
  <1>2. \A id \in Ids : Stored(h, id) \in Answer /\ Stored(h, id).id \in Ids
    BY DEF Stored, Answer, WriteAnswer, TypeInv, TypeOK
  <1>3. [who |-> Writer(h), text |-> Text(h), key |-> Key(h), epoch |-> epoch] \in Author
    BY DEF Put, TypeInv, TypeOK, StepFits, WriteSteps, WriteRequest, Author, Writer, Text, Key
  <1>8. TypeOK'
    BY <1>1, <1>2, <1>3
    DEF Put, FreshIds, TypeInv, TypeOK, StepFits, Steps, Goto,
        handlerVars, guardVars, auditVars, ghostVars, WriteSteps, PolicySteps, DeleteSteps
  <1>9. ASSUME NEW k \in Handlers PROVE StepFits(k)'
    BY <1>1, <1>2, <1>3
    DEF Put, FreshIds, TypeInv, TypeOK, StepFits, Goto, handlerVars, guardVars, ghostVars,
        WriteSteps, PolicySteps, DeleteSteps
  <1> QED BY <1>8, <1>9 DEF TypeInv

LEMMA EmitPIIType ==
  ASSUME TypeInv, NEW h \in Handlers, EmitPII(h) PROVE TypeInv'
  <1>1. Offer(queue, [type |-> "pii_redaction", id |-> resp[h].id, flags |-> flags[h],
                      source |-> SourceClass(Writer(h))]) \in Seq(Event)
    BY OfferType, SourceType
    DEF EmitPII, TypeInv, TypeOK, StepFits, WriteSteps, WriteRequest, Writer, Event, PIIRedaction
  <1>8. TypeOK'
    BY <1>1
    DEF EmitPII, Emit, TypeInv, TypeOK, StepFits, Steps, Goto,
        handlerVars, guardVars, auditVars, ghostVars, WriteSteps, PolicySteps, DeleteSteps
  <1>9. ASSUME NEW k \in Handlers PROVE StepFits(k)'
    BY <1>1
    DEF EmitPII, Emit, TypeInv, TypeOK, StepFits, Goto, handlerVars, guardVars, ghostVars,
        WriteSteps, PolicySteps, DeleteSteps
  <1> QED BY <1>8, <1>9 DEF TypeInv

LEMMA ScanType ==
  ASSUME TypeInv, NEW h \in Handlers, Scan(h) PROVE TypeInv'
  <1>1. \A q, v : ScanScoped(q, v) \in [Ids -> Entry \cup {None}]
    BY DEF ScanScoped, TypeInv, TypeOK
  <1>8. TypeOK'
    BY <1>1
    DEF Scan, TypeInv, TypeOK, StepFits, Steps, Goto,
        handlerVars, guardVars, auditVars, ghostVars, WriteSteps, PolicySteps, DeleteSteps
  <1>9. ASSUME NEW k \in Handlers PROVE StepFits(k)'
    BY <1>1
    DEF Scan, TypeInv, TypeOK, StepFits, Goto, handlerVars, guardVars, ghostVars,
        WriteSteps, PolicySteps, DeleteSteps
  <1> QED BY <1>8, <1>9 DEF TypeInv

LEMMA FilterType ==
  ASSUME TypeInv, NEW h \in Handlers, Filter(h) PROVE TypeInv'
  <1>1. [op |-> "validate_read", hits |-> Readable(held[h])] \in Answer
    <2>1. ASSUME NEW i \in Ids, held[h][i] # None PROVE Redact[held[h][i].content] \in Contents
      BY <2>1, DetectorAssumption DEF TypeInv, TypeOK, Entry
    <2>2. Readable(held[h]) \subseteq Ids \X Contents
      BY <2>1 DEF Readable
    <2> QED BY <2>2 DEF Answer, ReadAnswer
  <1>8. TypeOK'
    BY <1>1
    DEF Filter, Answers, TypeInv, TypeOK, StepFits, Steps, Goto,
        handlerVars, guardVars, auditVars, ghostVars, WriteSteps, PolicySteps, DeleteSteps
  <1>9. ASSUME NEW k \in Handlers PROVE StepFits(k)'
    BY <1>1
    DEF Filter, Answers, TypeInv, TypeOK, StepFits, Goto, handlerVars, guardVars, ghostVars,
        WriteSteps, PolicySteps, DeleteSteps
  <1> QED BY <1>8, <1>9 DEF TypeInv

LEMMA LookupType ==
  ASSUME TypeInv, NEW h \in Handlers, Lookup(h) PROVE TypeInv'
  <1>1. Fetched(h) \in [Ids -> Entry \cup {None}]
    BY DEF Fetched, Get, TypeInv, TypeOK
  <1>8. TypeOK'
    BY <1>1
    DEF Lookup, TypeInv, TypeOK, StepFits, Steps, Goto,
        handlerVars, guardVars, auditVars, ghostVars, WriteSteps, PolicySteps, DeleteSteps
  <1>9. ASSUME NEW k \in Handlers PROVE StepFits(k)'
    BY <1>1
    DEF Lookup, TypeInv, TypeOK, StepFits, Goto, handlerVars, guardVars, ghostVars,
        WriteSteps, PolicySteps, DeleteSteps
  <1> QED BY <1>8, <1>9 DEF TypeInv

LEMMA ReviewType ==
  ASSUME TypeInv, NEW h \in Handlers, Review(h) PROVE TypeInv'
  <1>1. Reviewed(Copy(h)) \in Answer
    <2>1. Copy(h) \in Entry \cup {None}
      BY DEF Copy, TypeInv, TypeOK
    <2> QED BY <2>1, DetectorAssumption DEF Reviewed, NotFound, Answer, ReviewAnswer, Entry
  <1>8. TypeOK'
    BY <1>1
    DEF Review, Answers, TypeInv, TypeOK, StepFits, Steps, Goto,
        handlerVars, guardVars, auditVars, ghostVars, WriteSteps, PolicySteps, DeleteSteps
  <1>9. ASSUME NEW k \in Handlers PROVE StepFits(k)'
    BY <1>1
    DEF Review, Answers, TypeInv, TypeOK, StepFits, Goto, handlerVars, guardVars, ghostVars,
        WriteSteps, PolicySteps, DeleteSteps
  <1> QED BY <1>8, <1>9 DEF TypeInv

LEMMA LockType ==
  ASSUME TypeInv, NEW h \in Handlers, Lock(h) PROVE TypeInv'
  <1>8. TypeOK'
    BY ServerAssumption
    DEF Lock, TypeInv, TypeOK, StepFits, Steps, Goto,
        handlerVars, guardVars, auditVars, ghostVars, WriteSteps, PolicySteps, DeleteSteps
  <1>9. ASSUME NEW k \in Handlers PROVE StepFits(k)'
    BY ServerAssumption
    DEF Lock, TypeInv, TypeOK, StepFits, Goto, handlerVars, guardVars, ghostVars,
        WriteSteps, PolicySteps, DeleteSteps
  <1> QED BY <1>8, <1>9 DEF TypeInv

LEMMA FetchType ==
  ASSUME TypeInv, NEW h \in Handlers, Fetch(h) PROVE TypeInv'
  <1>1. Fetched(h) \in [Ids -> Entry \cup {None}]
    BY DEF Fetched, Get, TypeInv, TypeOK
  <1>8. TypeOK'
    BY <1>1
    DEF Fetch, TypeInv, TypeOK, StepFits, Steps, Goto,
        handlerVars, guardVars, auditVars, ghostVars, WriteSteps, PolicySteps, DeleteSteps
  <1>9. ASSUME NEW k \in Handlers PROVE StepFits(k)'
    BY <1>1
    DEF Fetch, TypeInv, TypeOK, StepFits, Goto, handlerVars, guardVars, ghostVars,
        WriteSteps, PolicySteps, DeleteSteps
  <1> QED BY <1>8, <1>9 DEF TypeInv

LEMMA DeleteType ==
  ASSUME TypeInv, NEW h \in Handlers, Delete(h) PROVE TypeInv'
  <1>8. TypeOK'
    BY ServerAssumption
    DEF Delete, TypeInv, TypeOK, StepFits, Steps, Goto,
        handlerVars, guardVars, auditVars, ghostVars, WriteSteps, PolicySteps, DeleteSteps
  <1>9. ASSUME NEW k \in Handlers PROVE StepFits(k)'
    BY ServerAssumption
    DEF Delete, TypeInv, TypeOK, StepFits, Goto, handlerVars, guardVars, ghostVars,
        WriteSteps, PolicySteps, DeleteSteps
  <1> QED BY <1>8, <1>9 DEF TypeInv

LEMMA DeletedType ==
  ASSUME TypeInv, NEW h \in Handlers, pc[h] = "verify" PROVE Deleted(h) \in DeleteAnswer
  <1>1. Copy(h) \in Entry \cup {None}
    BY DEF Copy, TypeInv, TypeOK
  <1>2. req[h].id \in Ids \cup BogusIds
    BY DEF TypeInv, StepFits, DeleteSteps, IdRequest
  <1>3. DeletionHash(h) \in (Ids \cup BogusIds) \X (Contents \cup {None})
    BY <1>1, <1>2 DEF DeletionHash, Entry
  <1> QED BY <1>3 DEF Deleted, DeleteAnswer, ResidueOf

LEMMA VerifyType ==
  ASSUME TypeInv, NEW h \in Handlers, Verify(h) PROVE TypeInv'
  <1>1. Deleted(h) \in DeleteAnswer
    BY DeletedType DEF Verify
  <1>2. /\ Deleted(h) \in Answer
        /\ Offer(queue, [type |-> "deletion", residue |-> Deleted(h).residue,
                         hash |-> Deleted(h).hash]) \in Seq(Event)
    BY <1>1, OfferType DEF Answer, DeleteAnswer, Event, Deletion, TypeInv, TypeOK
  <1>8. TypeOK'
    BY <1>1, <1>2
    DEF Verify, Answers, Emit, TypeInv, TypeOK, StepFits, Steps, Goto,
        handlerVars, guardVars, auditVars, ghostVars, WriteSteps, PolicySteps, DeleteSteps
  <1>9. ASSUME NEW k \in Handlers PROVE StepFits(k)'
    BY <1>1, <1>2
    DEF Verify, Answers, Emit, TypeInv, TypeOK, StepFits, Goto, handlerVars, guardVars, ghostVars,
        WriteSteps, PolicySteps, DeleteSteps
  <1> QED BY <1>8, <1>9 DEF TypeInv

LEMMA ReplyType ==
  ASSUME TypeInv, NEW h \in Handlers, Reply(h) PROVE TypeInv'
  <1>1. Nothing \in [Ids -> Entry \cup {None}]
    BY DEF Nothing
  <1>8. TypeOK'
    BY <1>1
    DEF Reply, Ends, Nothing, LearnedIds, LearnedGone, Request, TypeInv, TypeOK, StepFits, Steps, Goto,
        handlerVars, guardVars, auditVars, ghostVars, WriteSteps, PolicySteps, DeleteSteps
  <1>9. ASSUME NEW k \in Handlers PROVE StepFits(k)'
    BY <1>1
    DEF Reply, Ends, Nothing, LearnedIds, LearnedGone, Request, TypeInv, TypeOK, StepFits, Goto, handlerVars, guardVars, ghostVars,
        WriteSteps, PolicySteps, DeleteSteps
  <1> QED BY <1>8, <1>9 DEF TypeInv

LEMMA ReplyLostType ==
  ASSUME TypeInv, NEW h \in Handlers, ReplyLost(h) PROVE TypeInv'
  <1>1. Nothing \in [Ids -> Entry \cup {None}]
    BY DEF Nothing
  <1>8. TypeOK'
    BY <1>1
    DEF ReplyLost, Ends, Nothing, Request, TypeInv, TypeOK, StepFits, Steps, Goto,
        handlerVars, guardVars, auditVars, ghostVars, WriteSteps, PolicySteps, DeleteSteps
  <1>9. ASSUME NEW k \in Handlers PROVE StepFits(k)'
    BY <1>1
    DEF ReplyLost, Ends, Nothing, Request, TypeInv, TypeOK, StepFits, Goto, handlerVars, guardVars, ghostVars,
        WriteSteps, PolicySteps, DeleteSteps
  <1> QED BY <1>8, <1>9 DEF TypeInv

LEMMA DrainType == ASSUME TypeInv, Drain PROVE TypeInv'
  <1>1. queue' \in Seq(Event)
    BY DEF Drain, TypeInv, TypeOK
  <1>2. Append(forwarded, Head(queue)) \in Seq(Event)
    BY DEF Drain, TypeInv, TypeOK
  <1>3. forwarded' \in Seq(Event)
    BY <1>2 DEF Drain, TypeInv, TypeOK
  <1> QED BY <1>1, <1>3 DEF Drain, TypeInv, TypeOK, StepFits, handlerVars, guardVars, ghostVars

LEMMA CrashType == ASSUME TypeInv, Crash PROVE TypeInv'
  BY ServerAssumption
  DEF Crash, Reopened, Nothing, TypeInv, TypeOK, StepFits, Steps, WriteSteps, PolicySteps, DeleteSteps

LEMMA StutterType == ASSUME TypeInv, UNCHANGED vars PROVE TypeInv'
  BY DEF TypeInv, TypeOK, StepFits, vars, handlerVars, guardVars, auditVars, ghostVars

LEMMA NextType == TypeInv /\ [Next]_vars => TypeInv'
  <1> SUFFICES ASSUME TypeInv, [Next]_vars PROVE TypeInv'
    OBVIOUS
  <1>1. ASSUME NEW h \in Handlers, ValidateWrite(h) PROVE TypeInv'
    BY <1>1, RejectInjectionType, PassGateType, RejectUnattestedType, PassProtectedType,
       EstablishBaselineType, MatchBaselineType, FlagDriftType, RejectDriftType, InspectType,
       PutType, EmitPIIType
    DEF ValidateWrite
  <1>2. ASSUME NEW h \in Handlers, ValidateRead(h) \/ ReviewQuarantine(h) \/ VerifyDelete(h)
        PROVE  TypeInv'
    BY <1>2, ScanType, FilterType, LookupType, ReviewType, LockType, FetchType, DeleteType,
       VerifyType
    DEF ValidateRead, ReviewQuarantine, VerifyDelete
  <1>3. ASSUME NEW h \in Handlers, Accept(h) \/ Serve(h) PROVE TypeInv'
    BY <1>1, <1>2, <1>3, AcceptType, ReplyType, ReplyLostType DEF Serve
  <1> QED BY <1>3, DrainType, CrashType, StutterType DEF Next, Quiescent

(***************************************************************************)
(* Every variable of the guard keeps its type in every behaviour, and a    *)
(* handler never reaches a step of a verb it was not asked for (ipc.go     *)
(* handleConn, guard.go).                                                  *)
(***************************************************************************)
THEOREM TypeCorrect == Spec => []TypeOK
  <1>1. TypeInv => TypeOK
    BY DEF TypeInv
  <1> QED BY <1>1, InitType, NextType, PTL DEF Spec

-----------------------------------------------------------------------------
(***************************************************************************)
(* The named-key policy (keys.go evaluateKeyPolicy): the reserved slots    *)
(* and the baselines.                                                      *)
(***************************************************************************)
Policed == {"inspect", "put"}   \* past evaluateKeyPolicy, not yet stored

(***************************************************************************)
(* ReservedSlotAgrees is not inductive: two entries agree because both     *)
(* agree with the baseline of the running process, and a write keeps       *)
(* agreeing with it between its policy check and its Put.                  *)
(***************************************************************************)
EntriesAuthored ==
    \A i \in Ids : store[i] # None =>
        written[i] # None /\ written[i].epoch <= epoch

EntriesMatchBaseline ==
    \A i \in Ids : /\ store[i] # None
                   /\ written[i].key \in ReservedKeys
                   /\ written[i].epoch = epoch
        => baselines[written[i].key] = store[i].content

WritersMatchBaseline ==
    \A h \in Handlers : pc[h] \in Policed /\ Key(h) \in ReservedKeys =>
        baselines[Key(h)] = Redacted(h)

SlotInv == /\ TypeInv /\ EntriesAuthored /\ EntriesMatchBaseline
           /\ WritersMatchBaseline /\ ReservedSlotAgrees

LEMMA InitSlot == Init => SlotInv
  <1> SUFFICES ASSUME Init PROVE SlotInv
    OBVIOUS
  <1>1. TypeInv
    BY InitType
  <1> QED BY <1>1 DEF Init, Nothing, SlotInv, EntriesAuthored, EntriesMatchBaseline,
            WritersMatchBaseline, ReservedSlotAgrees, Policed

\* A step that touches neither the store, the registry nor the history, and
\* moves no handler past the policy check, keeps the invariant.
LEMMA SlotFrame ==
  ASSUME SlotInv, TypeInv', UNCHANGED <<store, baselines, written, epoch>>,
         \A h \in Handlers : pc'[h] \in Policed =>
             req'[h] = req[h] /\ (pc[h] \in Policed \/ Key(h) \notin ReservedKeys)
  PROVE  SlotInv'
  BY DEF SlotInv, EntriesAuthored, EntriesMatchBaseline, WritersMatchBaseline,
     ReservedSlotAgrees, Key, Redacted, Text

LEMMA SlotEstablish ==
  ASSUME SlotInv, TypeInv', NEW h \in Handlers, EstablishBaseline(h)
  PROVE  SlotInv'
  <1>1. /\ UNCHANGED <<store, written, epoch, req>>
        /\ baselines[Key(h)] = None /\ baselines' = [baselines EXCEPT ![Key(h)] = Redacted(h)]
        /\ pc' = [pc EXCEPT ![h] = "inspect"]
    BY DEF EstablishBaseline, Goto, ghostVars
  <1>2. Key(h) \in Keys
    BY DEF EstablishBaseline, SlotInv, TypeInv, StepFits, PolicySteps, Key
  <1>3. EntriesMatchBaseline'
    <2> SUFFICES ASSUME NEW i \in Ids, store[i] # None, written[i].key \in ReservedKeys,
                        written[i].epoch = epoch
                 PROVE  baselines'[written[i].key] = store[i].content
      BY <1>1 DEF EntriesMatchBaseline
    <2>1. baselines[written[i].key] = store[i].content
      BY DEF SlotInv, EntriesMatchBaseline
    <2>2. store[i].content # None
      BY NoneAssumption, DetectorAssumption DEF SlotInv, TypeInv, TypeOK, Entry
    <2> QED BY <1>1, <2>1, <2>2, KeyAssumption DEF SlotInv, TypeInv, TypeOK
  <1>4. WritersMatchBaseline'
    <2> SUFFICES ASSUME NEW k \in Handlers, pc'[k] \in Policed, Key(k) \in ReservedKeys
                 PROVE  baselines'[Key(k)] = Redacted(k)
      BY <1>1 DEF WritersMatchBaseline, Key, Redacted, Text
    <2>1. CASE k = h
      BY <1>1, <1>2, <2>1 DEF SlotInv, TypeInv, TypeOK
    <2>2. CASE k # h
      <3>1. pc[k] \in Policed /\ baselines[Key(k)] = Redacted(k)
        BY <1>1, <2>2 DEF SlotInv, TypeInv, TypeOK, WritersMatchBaseline
      <3>2. Redacted(k) # None
        BY <3>1, NoneAssumption, DetectorAssumption
        DEF Policed, SlotInv, TypeInv, StepFits, WriteSteps, WriteRequest, Redacted, Text
      <3> QED BY <1>1, <3>1, <3>2, KeyAssumption DEF SlotInv, TypeInv, TypeOK
    <2> QED BY <2>1, <2>2
  <1> QED BY <1>1, <1>3, <1>4 DEF SlotInv, EntriesAuthored, ReservedSlotAgrees

LEMMA SlotMatch ==
  ASSUME SlotInv, TypeInv', NEW h \in Handlers, MatchBaseline(h)
  PROVE  SlotInv'
  <1>1. /\ UNCHANGED <<store, baselines, written, epoch, req>>
        /\ baselines[Key(h)] = Redacted(h) /\ pc' = [pc EXCEPT ![h] = "inspect"]
    BY DEF MatchBaseline, Goto, guardVars, ghostVars
  <1>2. WritersMatchBaseline'
    BY <1>1 DEF SlotInv, TypeInv, TypeOK, WritersMatchBaseline, Key, Redacted, Text
  <1> QED BY <1>1, <1>2 DEF SlotInv, EntriesAuthored, EntriesMatchBaseline, ReservedSlotAgrees

LEMMA SlotPut ==
  ASSUME SlotInv, TypeInv', NEW h \in Handlers, Put(h)
  PROVE  SlotInv'
  <1>1. PICK id \in FreshIds :
          /\ store' = [store EXCEPT ![id] = EntryOf(h)]
          /\ written' = [written EXCEPT ![id] =
                [who |-> Writer(h), text |-> Text(h), key |-> Key(h), epoch |-> epoch]]
    BY DEF Put
  <1>2. id \in Ids /\ UNCHANGED <<baselines, epoch, req>> /\ EntryOf(h).content = Redacted(h)
    BY DEF Put, FreshIds, EntryOf
  <1>3. /\ store[id] = None /\ written'[id] # None
        /\ written'[id].key = Key(h) /\ written'[id].epoch = epoch
        /\ store'[id].content = Redacted(h)
        /\ \A i \in Ids \ {id} : store'[i] = store[i] /\ written'[i] = written[i]
    <2>1. /\ written'[id] = [who |-> Writer(h), text |-> Text(h), key |-> Key(h), epoch |-> epoch]
          /\ store'[id] = EntryOf(h)
      BY <1>1, <1>2 DEF SlotInv, TypeInv, TypeOK
    <2>2. store[id] = None
      BY <1>2 DEF SlotInv, EntriesAuthored, FreshIds
    <2>3. written'[id] \in Author
      BY <2>1 DEF Put, SlotInv, TypeInv, TypeOK, StepFits, WriteSteps, WriteRequest, Author,
         Writer, Text, Key
    <2>4. written'[id] # None
      BY <2>3, AbsenceAssumption
    <2> QED BY <1>1, <1>2, <2>1, <2>2, <2>4 DEF SlotInv, TypeInv, TypeOK
  <1>4. Key(h) \in ReservedKeys => baselines[Key(h)] = Redacted(h)
    BY DEF Put, SlotInv, WritersMatchBaseline, Policed
  <1>5. EntriesAuthored'
    <2>1. epoch <= epoch
      BY DEF SlotInv, TypeInv, TypeOK
    <2> QED BY <1>2, <1>3, <2>1 DEF SlotInv, EntriesAuthored
  <1>6. EntriesMatchBaseline'
    BY <1>2, <1>3, <1>4 DEF SlotInv, EntriesMatchBaseline
  <1>7. WritersMatchBaseline'
    <2>1. \A k \in Handlers : pc'[k] \in Policed => pc[k] \in Policed
      BY DEF Put, Goto, Policed, SlotInv, TypeInv, TypeOK
    <2> QED BY <1>2, <2>1 DEF SlotInv, WritersMatchBaseline, Key, Redacted, Text
  <1>8. ReservedSlotAgrees'
    <2> SUFFICES ASSUME NEW i \in Ids, NEW j \in Ids, store'[i] # None, store'[j] # None,
                        written'[i].key \in ReservedKeys, written'[i].key = written'[j].key,
                        written'[i].epoch = written'[j].epoch
                 PROVE  store'[i].content = store'[j].content
      BY DEF ReservedSlotAgrees
    <2>1. CASE i # id /\ j # id
      BY <1>3, <2>1 DEF SlotInv, ReservedSlotAgrees
    <2>2. CASE i = id \/ j = id
      BY <1>2, <1>3, <1>6, <2>2 DEF EntriesMatchBaseline
    <2> QED BY <2>1, <2>2
  <1> QED BY <1>5, <1>6, <1>7, <1>8 DEF SlotInv

LEMMA SlotDelete ==
  ASSUME SlotInv, TypeInv', NEW h \in Handlers, Delete(h)
  PROVE  SlotInv'
  <1>1. /\ UNCHANGED <<baselines, written, epoch, req>>
        /\ \A i \in Ids : store'[i] # None => store'[i] = store[i]
        /\ \A k \in Handlers : pc'[k] \in Policed => pc[k] \in Policed
    BY DEF Delete, Goto, Policed, SlotInv, TypeInv, TypeOK, ghostVars
  <1> QED BY <1>1 DEF SlotInv, EntriesAuthored, EntriesMatchBaseline, WritersMatchBaseline,
            ReservedSlotAgrees, Key, Redacted, Text

LEMMA SlotCrash ==
  ASSUME SlotInv, TypeInv', Crash
  PROVE  SlotInv'
  <1>1. /\ epoch' = epoch + 1 /\ written' = written /\ epoch \in Nat
        /\ \A i \in Ids : store'[i] # None => store'[i] = store[i]
        /\ \A k \in Handlers : pc'[k] \notin Policed
    BY DEF Crash, Reopened, Nothing, Policed, SlotInv, TypeInv, TypeOK
  <1>2. \A i \in Ids : written[i] # None => written[i].epoch \in Nat
    BY DEF SlotInv, TypeInv, TypeOK, Author
  <1>3. EntriesAuthored' /\ EntriesMatchBaseline'
    BY <1>1, <1>2 DEF SlotInv, EntriesAuthored, EntriesMatchBaseline
  <1> QED BY <1>1, <1>3 DEF SlotInv, WritersMatchBaseline, ReservedSlotAgrees

\* The steps SlotFrame covers.
Elsewhere(h) ==
    \/ Accept(h) \/ RejectInjection(h) \/ PassGate(h)
    \/ RejectUnattested(h) \/ PassProtected(h) \/ FlagDrift(h) \/ RejectDrift(h)
    \/ Inspect(h) \/ EmitPII(h) \/ Scan(h) \/ Filter(h) \/ Lookup(h) \/ Review(h)
    \/ Lock(h) \/ Fetch(h) \/ Verify(h) \/ Reply(h) \/ ReplyLost(h)

LEMMA SlotElsewhere ==
  ASSUME SlotInv, TypeInv', NEW h \in Handlers, Elsewhere(h)
  PROVE  SlotInv'
  <1>1. UNCHANGED <<store, baselines, written, epoch>>
    BY DEF Elsewhere, Accept, RejectInjection, PassGate, RejectUnattested, PassProtected,
       FlagDrift, RejectDrift, Inspect, EmitPII, Scan, Filter, Lookup, Review, Lock, Fetch,
       Verify, Reply, ReplyLost, guardVars, ghostVars
  <1>2. ASSUME NEW k \in Handlers, pc'[k] \in Policed
        PROVE  req'[k] = req[k] /\ (pc[k] \in Policed \/ Key(k) \notin ReservedKeys)
    <2>1. CASE k # h
      <3>1. pc'[k] = pc[k] /\ req'[k] = req[k]
        BY <2>1 DEF Elsewhere, Accept, Begins, RejectInjection, PassGate, RejectUnattested,
           PassProtected, FlagDrift, RejectDrift, Inspect, EmitPII, Scan, Filter, Lookup,
           Review, Lock, Fetch, Verify, Reply, ReplyLost, Ends, Answers, Goto,
           SlotInv, TypeInv, TypeOK
      <3> QED BY <1>2, <3>1
    <2>2. CASE k = h
      <3>1. PassGate(h) \/ PassProtected(h) \/ FlagDrift(h) \/ Inspect(h)
        BY <1>2, <2>2 DEF Elsewhere, Accept, Begins, RejectInjection, RejectUnattested,
           RejectDrift, EmitPII, Scan, Filter, Lookup, Review, Lock, Fetch, Verify, Reply,
           ReplyLost, Ends, Answers, Goto, Policed, SlotInv, TypeInv, TypeOK
      <3>2. PassGate(h) => Key(h) = None
        BY <1>2, <2>2 DEF PassGate, Goto, Policed, SlotInv, TypeInv, TypeOK
      <3>3. PassProtected(h) => Key(h) \notin ReservedKeys
        BY <1>2, <2>2 DEF PassProtected, Goto, Policed, SlotInv, TypeInv, TypeOK
      <3>4. None \notin ReservedKeys
        BY NoneAssumption, KeyAssumption
      <3> QED BY <2>2, <3>1, <3>2, <3>3, <3>4
            DEF PassGate, PassProtected, FlagDrift, Inspect, Policed
    <2> QED BY <2>1, <2>2
  <1> QED BY <1>1, <1>2, SlotFrame

LEMMA NextSlot == SlotInv /\ [Next]_vars => SlotInv'
  <1> SUFFICES ASSUME SlotInv, [Next]_vars PROVE SlotInv'
    OBVIOUS
  <1>1. TypeInv'
    BY NextType DEF SlotInv
  <1>2. ASSUME NEW h \in Handlers, Accept(h) \/ Serve(h) PROVE SlotInv'
    BY <1>1, <1>2, SlotEstablish, SlotMatch, SlotPut, SlotDelete, SlotElsewhere
    DEF Serve, ValidateWrite, ValidateRead, ReviewQuarantine, VerifyDelete, Elsewhere
  <1>3. ASSUME Drain \/ UNCHANGED vars PROVE SlotInv'
    <2>1. UNCHANGED <<store, baselines, written, epoch, pc, req>>
      BY <1>3 DEF Drain, vars, handlerVars, guardVars, ghostVars
    <2> QED BY <1>1, <2>1, SlotFrame
  <1>4. CASE Crash
    BY <1>1, <1>4, SlotCrash
  <1> QED BY <1>2, <1>3, <1>4 DEF Next, Quiescent

(***************************************************************************)
(* A reserved slot holds one value per process lifetime, however many      *)
(* writers race to it and wherever the process crashes (keys.go            *)
(* evaluateKeyPolicy).                                                     *)
(***************************************************************************)
THEOREM ReservedSlotsAgree == Spec => []ReservedSlotAgrees
  <1>1. SlotInv => ReservedSlotAgrees
    BY DEF SlotInv
  <1> QED BY <1>1, InitSlot, NextSlot, PTL DEF Spec

-----------------------------------------------------------------------------
(***************************************************************************)
(* BaselineIsBacked is inductive with the types: the handler that pinned a *)
(* slot reaches Put with its request unchanged, and what it then stores    *)
(* stays on record.                                                        *)
(***************************************************************************)
StoredFor(k) == \E i \in Ids : /\ written[i] # None
                               /\ written[i].key = k /\ written[i].epoch = epoch
                               /\ Redact[written[i].text] = baselines[k]
OnTheWay(k)  == \E h \in Handlers : /\ pc[h] \in Policed
                                    /\ Key(h) = k /\ Redacted(h) = baselines[k]

LEMMA BackedForms ==
  BaselineIsBacked <=> \A k \in Keys : baselines[k] # None => StoredFor(k) \/ OnTheWay(k)
  BY DEF BaselineIsBacked, StoredFor, OnTheWay, Policed

BackedInv == TypeInv /\ BaselineIsBacked

LEMMA BackedFrame ==
  ASSUME BackedInv, UNCHANGED <<baselines, written, epoch>>,
         \A h \in Handlers : pc[h] \in Policed => pc'[h] \in Policed /\ req'[h] = req[h]
  PROVE  BaselineIsBacked'
  BY DEF BackedInv, BaselineIsBacked, Policed, Key, Redacted, Text

LEMMA BackedEstablish ==
  ASSUME BackedInv, NEW h \in Handlers, EstablishBaseline(h)
  PROVE  BaselineIsBacked'
  <1>1. /\ UNCHANGED <<written, epoch, req>>
        /\ baselines' = [baselines EXCEPT ![Key(h)] = Redacted(h)]
        /\ pc' = [pc EXCEPT ![h] = "inspect"]
    BY DEF EstablishBaseline, Goto, ghostVars
  <1> SUFFICES ASSUME NEW k \in Keys, baselines'[k] # None PROVE (StoredFor(k) \/ OnTheWay(k))'
    BY DEF BaselineIsBacked, StoredFor, OnTheWay, Policed
  <1>2. CASE k = Key(h)
    BY <1>1, <1>2 DEF OnTheWay, Policed, Key, Redacted, Text, BackedInv, TypeInv, TypeOK
  <1>3. CASE k # Key(h)
    <2>1. baselines'[k] = baselines[k]
      BY <1>1, <1>3 DEF BackedInv, TypeInv, TypeOK
    <2>2. StoredFor(k) \/ OnTheWay(k)
      BY <2>1, BackedForms DEF BackedInv
    <2>3. StoredFor(k) => StoredFor(k)'
      BY <1>1, <2>1 DEF StoredFor
    <2>4. OnTheWay(k) => OnTheWay(k)'
      BY <1>1, <2>1 DEF OnTheWay, Policed, Key, Redacted, Text, BackedInv, TypeInv, TypeOK
    <2> QED BY <2>2, <2>3, <2>4
  <1> QED BY <1>2, <1>3

LEMMA BackedPut ==
  ASSUME BackedInv, TypeInv', NEW h \in Handlers, Put(h)
  PROVE  BaselineIsBacked'
  <1>1. PICK id \in FreshIds : written' = [written EXCEPT ![id] =
           [who |-> Writer(h), text |-> Text(h), key |-> Key(h), epoch |-> epoch]]
    BY DEF Put
  <1>2. /\ id \in Ids /\ written[id] = None /\ UNCHANGED <<baselines, epoch, req>>
        /\ \A k \in Handlers \ {h} : pc'[k] = pc[k]
    BY DEF Put, Goto, FreshIds, BackedInv, TypeInv, TypeOK
  <1>3. written'[id] = [who |-> Writer(h), text |-> Text(h), key |-> Key(h), epoch |-> epoch]
        /\ written'[id] # None
    <2>1. written'[id] = [who |-> Writer(h), text |-> Text(h), key |-> Key(h), epoch |-> epoch]
      BY <1>1, <1>2 DEF BackedInv, TypeInv, TypeOK
    <2>2. written'[id] \in Author
      BY <2>1 DEF Put, BackedInv, TypeInv, TypeOK, StepFits, WriteSteps, WriteRequest, Author,
         Writer, Text, Key
    <2> QED BY <2>1, <2>2, AbsenceAssumption
  <1> SUFFICES ASSUME NEW k \in Keys, baselines[k] # None PROVE (StoredFor(k) \/ OnTheWay(k))'
    BY <1>2 DEF BaselineIsBacked, StoredFor, OnTheWay, Policed
  <1>4. StoredFor(k) \/ OnTheWay(k)
    BY BackedForms DEF BackedInv
  <1>5. CASE StoredFor(k)
    BY <1>1, <1>2, <1>5 DEF StoredFor, BackedInv, TypeInv, TypeOK
  <1>6. CASE OnTheWay(k)
    <2>1. PICK w \in Handlers : pc[w] \in Policed /\ Key(w) = k /\ Redacted(w) = baselines[k]
      BY <1>6 DEF OnTheWay
    <2>2. CASE w = h
      BY <1>2, <1>3, <2>1, <2>2 DEF StoredFor, Redacted, Text
    <2>3. CASE w # h
      BY <1>2, <2>1, <2>3 DEF OnTheWay, Key, Redacted, Text
    <2> QED BY <2>2, <2>3
  <1> QED BY <1>4, <1>5, <1>6

LEMMA BackedElsewhere ==
  ASSUME BackedInv, NEW h \in Handlers, Elsewhere(h) \/ MatchBaseline(h) \/ Delete(h)
  PROVE  BaselineIsBacked'
  <1>1. UNCHANGED <<baselines, written, epoch>>
    BY DEF Elsewhere, Accept, RejectInjection, PassGate, RejectUnattested, PassProtected,
       FlagDrift, RejectDrift, Inspect, EmitPII, Scan, Filter, Lookup, Review, Lock, Fetch,
       Verify, Reply, ReplyLost, MatchBaseline, Delete, guardVars, ghostVars
  <1>2. ASSUME NEW k \in Handlers, pc[k] \in Policed
        PROVE  pc'[k] \in Policed /\ req'[k] = req[k]
    <2>1. CASE k # h
      BY <1>2, <2>1 DEF Elsewhere, Accept, Begins, RejectInjection, PassGate, RejectUnattested,
         PassProtected, FlagDrift, RejectDrift, Inspect, EmitPII, Scan, Filter, Lookup,
         Review, Lock, Fetch, Verify, Reply, ReplyLost, MatchBaseline, Delete, Ends, Answers,
         Goto, BackedInv, TypeInv, TypeOK
    <2>2. CASE k = h
      BY <1>2, <2>2 DEF Elsewhere, Accept, RejectInjection, PassGate, RejectUnattested,
         PassProtected, FlagDrift, RejectDrift, Inspect, EmitPII, Scan, Filter, Lookup,
         Review, Lock, Fetch, Verify, Reply, ReplyLost, MatchBaseline, Delete, Goto, Policed,
         BackedInv, TypeInv, TypeOK
    <2> QED BY <2>1, <2>2
  <1> QED BY <1>1, <1>2, BackedFrame

LEMMA NextBacked == BackedInv /\ [Next]_vars => BackedInv'
  <1> SUFFICES ASSUME BackedInv, [Next]_vars PROVE BackedInv'
    OBVIOUS
  <1>1. TypeInv'
    BY NextType DEF BackedInv
  <1>2. ASSUME NEW h \in Handlers, Accept(h) \/ Serve(h) PROVE BaselineIsBacked'
    BY <1>1, <1>2, BackedEstablish, BackedPut, BackedElsewhere
    DEF Serve, ValidateWrite, ValidateRead, ReviewQuarantine, VerifyDelete, Elsewhere
  <1>3. ASSUME Drain \/ UNCHANGED vars PROVE BaselineIsBacked'
    <2>1. UNCHANGED <<baselines, written, epoch, pc, req>>
      BY <1>3 DEF Drain, vars, handlerVars, guardVars, ghostVars
    <2> QED BY <2>1, BackedFrame
  <1>4. ASSUME Crash PROVE BaselineIsBacked'
    BY <1>4 DEF Crash, BaselineIsBacked
  <1> QED BY <1>1, <1>2, <1>3, <1>4 DEF BackedInv, Next, Quiescent

(***************************************************************************)
(* A baseline always comes from an accepted write of this process: one     *)
(* that is stored, or one between its policy check and its Put (keys.go    *)
(* evaluateKeyPolicy, guard.go ValidateWrite).                             *)
(***************************************************************************)
THEOREM BaselinesAreBacked == Spec => []BaselineIsBacked
  <1>1. Init => BackedInv
    BY InitType DEF Init, BackedInv, BaselineIsBacked
  <1>2. BackedInv => BaselineIsBacked
    BY DEF BackedInv
  <1> QED BY <1>1, <1>2, NextBacked, PTL DEF Spec

-----------------------------------------------------------------------------
(***************************************************************************)
(* How control moves: what each step leaves alone, and where it may come   *)
(* from.                                                                   *)
(***************************************************************************)
\* A step of one handler leaves the other handlers' locals alone.
LEMMA OthersStand ==
  ASSUME TypeInv, NEW h \in Handlers, Accept(h) \/ Serve(h), NEW k \in Handlers, k # h
  PROVE  /\ pc'[k] = pc[k] /\ req'[k] = req[k] /\ flags'[k] = flags[k]
         /\ held'[k] = held[k] /\ resp'[k] = resp[k] /\ seen'[k] = seen[k]
  <1>1. CASE Accept(h)
    BY <1>1 DEF Accept, Begins, TypeInv, TypeOK
  <1>2. CASE ValidateWrite(h)
    BY <1>2 DEF ValidateWrite, RejectInjection, PassGate, RejectUnattested, PassProtected,
       EstablishBaseline, MatchBaseline, FlagDrift, RejectDrift, Inspect, Put, EmitPII,
       AddFlags, Answers, Goto, ghostVars, TypeInv, TypeOK
  <1>3. CASE ValidateRead(h) \/ ReviewQuarantine(h) \/ VerifyDelete(h)
    BY <1>3 DEF ValidateRead, ReviewQuarantine, VerifyDelete, Scan, Filter, Lookup, Review,
       Lock, Fetch, Delete, Verify, Answers, Goto, ghostVars, TypeInv, TypeOK
  <1>4. CASE Reply(h) \/ ReplyLost(h)
    BY <1>4 DEF Reply, ReplyLost, Ends, Goto, TypeInv, TypeOK
  <1> QED BY <1>1, <1>2, <1>3, <1>4 DEF Serve

\* Which step a handler takes, from where it arrives.
LEMMA Arrival ==
  ASSUME TypeInv, NEW h \in Handlers, Accept(h) \/ Serve(h)
  PROVE  /\ pc'[h] \in {"gate", "scan", "lookup", "lock"} => Accept(h)
         /\ pc'[h] = "protected" => PassGate(h)
         /\ pc'[h] = "baseline" => PassProtected(h)
         /\ pc'[h] = "inspect" => \/ PassGate(h) \/ PassProtected(h) \/ EstablishBaseline(h)
                                  \/ MatchBaseline(h) \/ FlagDrift(h)
         /\ pc'[h] = "put" => Inspect(h)
         /\ pc'[h] = "emit" => Put(h)
         /\ pc'[h] = "filter" => Scan(h)
         /\ pc'[h] = "review" => Lookup(h)
         /\ pc'[h] = "fetch" => Lock(h)
         /\ pc'[h] = "delete" => Fetch(h)
         /\ pc'[h] = "verify" => Delete(h)
         /\ pc'[h] = "reply" => \/ RejectInjection(h) \/ RejectUnattested(h) \/ RejectDrift(h)
                                \/ Put(h) \/ EmitPII(h) \/ Filter(h) \/ Review(h) \/ Verify(h)
  <1>1. CASE Accept(h)
    BY <1>1 DEF Accept, Begins, TypeInv, TypeOK
  <1>2. CASE ValidateWrite(h)
    BY <1>2 DEF ValidateWrite, RejectInjection, PassGate, RejectUnattested, PassProtected,
       EstablishBaseline, MatchBaseline, FlagDrift, RejectDrift, Inspect, Put, EmitPII,
       Answers, Goto, TypeInv, TypeOK
  <1>3. CASE ValidateRead(h) \/ ReviewQuarantine(h) \/ VerifyDelete(h)
    BY <1>3 DEF ValidateRead, ReviewQuarantine, VerifyDelete, Scan, Filter, Lookup, Review,
       Lock, Fetch, Delete, Verify, Answers, Goto, TypeInv, TypeOK
  <1>4. CASE Reply(h) \/ ReplyLost(h)
    BY <1>4 DEF Reply, ReplyLost, Ends, Goto, TypeInv, TypeOK
  <1> QED BY <1>1, <1>2, <1>3, <1>4 DEF Serve

\* Only Put and Delete change the store, only Put mints ids.
LEMMA StoreSteps ==
  ASSUME NEW h \in Handlers, Accept(h) \/ Serve(h)
  PROVE  /\ UNCHANGED store \/ Put(h) \/ Delete(h)
         /\ UNCHANGED written \/ Put(h)
         /\ UNCHANGED <<acked, gone>> \/ Reply(h)
         /\ UNCHANGED mu \/ Lock(h) \/ Verify(h)
         /\ UNCHANGED queue \/ RejectInjection(h) \/ EmitPII(h) \/ Verify(h)
         /\ UNCHANGED <<forwarded, epoch>>
  <1>1. CASE Accept(h)
    BY <1>1 DEF Accept, guardVars, auditVars
  <1>2. CASE ValidateWrite(h)
    BY <1>2 DEF ValidateWrite, RejectInjection, PassGate, RejectUnattested, PassProtected,
       EstablishBaseline, MatchBaseline, FlagDrift, RejectDrift, Inspect, Put, EmitPII,
       Emit, guardVars, auditVars, ghostVars
  <1>3. CASE ValidateRead(h) \/ ReviewQuarantine(h) \/ VerifyDelete(h)
    BY <1>3 DEF ValidateRead, ReviewQuarantine, VerifyDelete, Scan, Filter, Lookup, Review,
       Lock, Fetch, Delete, Verify, Emit, guardVars, auditVars, ghostVars
  <1>4. CASE Reply(h) \/ ReplyLost(h)
    BY <1>4 DEF Reply, ReplyLost, guardVars, auditVars
  <1> QED BY <1>1, <1>2, <1>3, <1>4 DEF Serve

\* What Put does to the id it mints, and that it touches no other id.
PutOf(h, id) ==
    /\ id \in Ids /\ written[id] = None
    /\ store'[id] = EntryOf(h) /\ store'[id] # None
    /\ written'[id] = [who |-> Writer(h), text |-> Text(h), key |-> Key(h), epoch |-> epoch]
    /\ written'[id] # None
    /\ \A i \in Ids \ {id} : store'[i] = store[i] /\ written'[i] = written[i]
    /\ resp'[h] = Stored(h, id)

LEMMA PutEffect ==
  ASSUME TypeInv, NEW h \in Handlers, Put(h)
  PROVE  \E id \in Ids : PutOf(h, id)
  <1>1. PICK id \in FreshIds :
          /\ store' = [store EXCEPT ![id] = EntryOf(h)]
          /\ written' = [written EXCEPT ![id] =
                [who |-> Writer(h), text |-> Text(h), key |-> Key(h), epoch |-> epoch]]
          /\ resp' = [resp EXCEPT ![h] = Stored(h, id)]
    BY DEF Put
  <1>2. id \in Ids /\ written[id] = None
    BY DEF FreshIds
  <1>3. req[h] \in WriteRequest /\ flags[h] \subseteq Flags /\ epoch \in Nat
    BY DEF Put, TypeInv, TypeOK, StepFits, WriteSteps
  <1>4. EntryOf(h) # None
    BY <1>3, EntryType, NoneAssumption
  <1>5. [who |-> Writer(h), text |-> Text(h), key |-> Key(h), epoch |-> epoch] # None
    BY <1>3, AbsenceAssumption DEF WriteRequest, Author, Writer, Text, Key
  <1>6. /\ store'[id] = EntryOf(h) /\ resp'[h] = Stored(h, id)
        /\ written'[id] = [who |-> Writer(h), text |-> Text(h), key |-> Key(h), epoch |-> epoch]
        /\ \A i \in Ids \ {id} : store'[i] = store[i] /\ written'[i] = written[i]
    BY <1>1, <1>2 DEF TypeInv, TypeOK
  <1> QED BY <1>2, <1>4, <1>5, <1>6 DEF PutOf

\* Every step that answers writes an answer of its own verb.
LEMMA AnswerKinds ==
  ASSUME TypeInv, NEW h \in Handlers
  PROVE  /\ Put(h) => resp'[h].op = "validate_write"
         /\ RejectInjection(h) \/ RejectUnattested(h) \/ RejectDrift(h)
            => resp'[h].op = "validate_write" /\ resp'[h].id = None
         /\ Filter(h) => resp'[h].op = "validate_read"
         /\ Review(h) => resp'[h].op = "review_quarantine"
         /\ Verify(h) => resp'[h] = Deleted(h) /\ resp'[h].op = "verify_delete"
         /\ EmitPII(h) => resp'[h] = resp[h]
  <1>1. ASSUME Put(h) PROVE resp'[h].op = "validate_write"
    <2>1. PICK id \in Ids : PutOf(h, id)
      BY <1>1, PutEffect
    <2> QED BY <2>1 DEF PutOf, Stored
  <1>2. RejectInjection(h) \/ RejectUnattested(h) \/ RejectDrift(h)
        => resp'[h].op = "validate_write" /\ resp'[h].id = None
    BY DEF RejectInjection, RejectUnattested, RejectDrift, Answers, Blocked, TypeInv, TypeOK
  <1>3. Filter(h) => resp'[h].op = "validate_read"
    BY DEF Filter, Answers, TypeInv, TypeOK
  <1>4. Review(h) => resp'[h].op = "review_quarantine"
    <2>1. Reviewed(Copy(h)).op = "review_quarantine"
      BY DEF Reviewed, NotFound
    <2>2. Review(h) => resp'[h] = Reviewed(Copy(h))
      BY DEF Review, Answers, TypeInv, TypeOK
    <2> QED BY <2>1, <2>2
  <1>5. Verify(h) => resp'[h] = Deleted(h)
    BY DEF Verify, Answers, TypeInv, TypeOK
  <1>6. Deleted(h).op = "verify_delete"
    BY DEF Deleted
  <1>7. EmitPII(h) => resp'[h] = resp[h]
    BY DEF EmitPII
  <1> QED BY <1>1, <1>2, <1>3, <1>4, <1>5, <1>6, <1>7

LEMMA DeleteEffect ==
  ASSUME TypeInv, NEW h \in Handlers, Delete(h)
  PROVE  /\ \A i \in Ids : store'[i] = IF i = req[h].id THEN None ELSE store[i]
         /\ UNCHANGED <<held, req, written>>
  BY DEF Delete, ghostVars

\* An entry that is stored after a step was stored before it, unchanged, or its
\* id is one nobody had; who wrote an entry is never rewritten.
LEMMA EntriesStand ==
  ASSUME TypeInv, [Next]_vars, NEW i \in Ids
  PROVE  /\ written[i] # None => written'[i] = written[i]
         /\ store'[i] # None => store'[i] = store[i] \/ written[i] = None
         /\ written[i] # None => store'[i] \in {None, store[i]}
  <1>1. ASSUME NEW h \in Handlers, Accept(h) \/ Serve(h)
        PROVE  /\ written[i] # None => written'[i] = written[i]
               /\ store'[i] = store[i] \/ store'[i] = None \/ written[i] = None
    <2>1. CASE Put(h)
      BY <2>1, PutEffect DEF PutOf
    <2>2. CASE Delete(h)
      BY <2>2, DeleteEffect
    <2>3. CASE UNCHANGED <<store, written>>
      BY <2>3
    <2> QED BY <1>1, <2>1, <2>2, <2>3, StoreSteps DEF Delete, Put
  <1>2. ASSUME Drain \/ UNCHANGED vars
        PROVE  UNCHANGED <<store, written>>
    BY <1>2 DEF Drain, vars, guardVars, ghostVars
  <1>3. ASSUME Crash
        PROVE  UNCHANGED written /\ store'[i] \in {None, store[i]}
    BY <1>3 DEF Crash, Reopened, Nothing
  <1> QED BY <1>1, <1>2, <1>3 DEF Next, Quiescent

\* A crash leaves no handler, and the other silent steps leave them all alone.
LEMMA NoHandlerLeft ==
  ASSUME TypeInv, Crash, NEW h \in Handlers
  PROVE  pc'[h] = "idle" /\ req'[h] = None
  BY DEF Crash

LEMMA Silent ==
  ASSUME Drain \/ Quiescent \/ UNCHANGED vars
  PROVE  UNCHANGED <<pc, req, flags, held, resp, mu, store, written, acked, gone,
                     seen, epoch>>
  BY DEF Drain, Quiescent, vars, handlerVars, guardVars, ghostVars

-----------------------------------------------------------------------------
(***************************************************************************)
(* ReadIsolation speaks of an answer; what makes it true is that every     *)
(* entry carries, from the gate to the handler's copy, what its author's   *)
(* request said: the content redacted, the key bound to the author and the *)
(* quarantine bit of the text.                                             *)
(***************************************************************************)
Genuine(i, e) ==
    /\ written[i] # None
    /\ written[i].text \notin Injected
    /\ e.content = Redact[written[i].text]
    /\ e.boundIdentity = BoundKeyFor(written[i].who)
    /\ e.quarantined <=> written[i].text \in Borderline

StoreIsGenuine == \A i \in Ids : store[i] # None => Genuine(i, store[i])

PastGate == {"protected", "baseline", "inspect", "put"}

GateHeld(h) == pc[h] \in PastGate =>
    /\ Text(h) \notin Injected
    /\ "borderline_suspected" \in flags[h] <=> Text(h) \in Borderline

Copying == {"filter", "review", "delete", "verify"}

CopyIsGenuine(h) == pc[h] \in Copying =>
    \A i \in Ids : held[h][i] # None => Genuine(i, held[h][i])

CopyIsVisible(h) == pc[h] = "filter" =>
    \A i \in Ids : held[h][i] # None =>
        /\ held[h][i].content \in req[h].query
        /\ held[h][i].boundIdentity \in VisibleKeys(req[h].who)

Isolated(h) == Answering(h, "validate_read") =>
    \A hit \in resp[h].hits :
        /\ hit[1] \in Ids /\ written[hit[1]] # None
        /\ MayRead(req[h].who, written[hit[1]].who)
        /\ written[hit[1]].text \notin Injected \cup Borderline
        /\ hit[2] = Redact[written[hit[1]].text] /\ hit[2] \in req[h].query

EntryInv ==
    /\ TypeInv
    /\ StoreIsGenuine
    /\ \A h \in Handlers : GateHeld(h) /\ CopyIsGenuine(h) /\ CopyIsVisible(h) /\ Isolated(h)

\* The keys the code derives decide as the access rule of the two ADRs.
LEMMA KeysDecide ==
  ASSUME NEW r \in Principals, NEW w \in Principals
  PROVE  BoundKeyFor(w) \in VisibleKeys(r) <=> MayRead(r, w)
  BY SubjectsAssumption
  DEF Principals, BoundKeys, BoundKeyFor, VisibleKeys, ReaderVisibilityKey, MayRead, Identified,
      Unbound, SharedScope

LEMMA InitEntry == Init => EntryInv
  BY InitType
  DEF Init, Nothing, EntryInv, StoreIsGenuine, GateHeld, CopyIsGenuine, CopyIsVisible, Isolated,
      Answering, PastGate, Copying

\* The gate decides on the text itself, and the later steps add no flag of its kind.
LEMMA GateStep ==
  ASSUME EntryInv, NEW h \in Handlers, Accept(h) \/ Serve(h)
  PROVE  GateHeld(h)'
  <1> SUFFICES ASSUME pc'[h] \in PastGate
               PROVE  /\ (Text(h) \notin Injected)'
                      /\ ("borderline_suspected" \in flags[h] <=> Text(h) \in Borderline)'
    BY DEF GateHeld
  <1>1. CASE PassGate(h)
    BY <1>1 DEF PassGate, DetectorFlags, Text, EntryInv, TypeInv, TypeOK
  <1>2. CASE pc[h] \in PastGate /\ ~PassGate(h)
    <2>1. /\ Text(h) \notin Injected
          /\ "borderline_suspected" \in flags[h] <=> Text(h) \in Borderline
      BY <1>2 DEF EntryInv, GateHeld
    <2>2. /\ req' = req
          /\ "borderline_suspected" \in flags'[h] <=> "borderline_suspected" \in flags[h]
      <3>1. CASE PassProtected(h)
        BY <3>1 DEF PassProtected, AddFlags, EntryInv, TypeInv, TypeOK
      <3>2. CASE EstablishBaseline(h) \/ MatchBaseline(h)
        BY <3>2 DEF EstablishBaseline, MatchBaseline
      <3>3. CASE FlagDrift(h)
        BY <3>3 DEF FlagDrift, AddFlags, EntryInv, TypeInv, TypeOK
      <3>4. CASE Inspect(h)
        BY <3>4, ServerAssumption DEF Inspect, AddFlags, EntryInv, TypeInv, TypeOK
      <3> QED BY <1>2, <3>1, <3>2, <3>3, <3>4, Arrival DEF EntryInv, PastGate
    <2> QED BY <2>1, <2>2 DEF Text
  <1>3. PassGate(h) \/ pc[h] \in PastGate
    BY Arrival DEF EntryInv, PastGate, PassProtected, EstablishBaseline, MatchBaseline, FlagDrift,
       Inspect
  <1> QED BY <1>1, <1>2, <1>3

LEMMA StoreStep ==
  ASSUME EntryInv, NEW h \in Handlers, Accept(h) \/ Serve(h)
  PROVE  StoreIsGenuine'
  <1> SUFFICES ASSUME NEW i \in Ids, store'[i] # None PROVE Genuine(i, store[i])'
    BY DEF StoreIsGenuine
  <1>0. TypeInv /\ [Next]_vars
    BY DEF EntryInv, Next
  <1>1. CASE store'[i] = store[i]
    BY <1>0, <1>1, EntriesStand DEF EntryInv, StoreIsGenuine, Genuine
  <1>2. CASE store'[i] # store[i]
    <2>1. Put(h)
      BY <1>0, <1>2, StoreSteps, DeleteEffect
    <2>2. PICK id \in Ids : PutOf(h, id)
      BY <1>0, <2>1, PutEffect
    <2>3. i = id
      BY <1>2, <2>2 DEF PutOf
    <2>4. GateHeld(h) /\ pc[h] \in PastGate
      BY <2>1 DEF EntryInv, Put, PastGate
    <2>5. Text(h) \notin Injected /\ ("borderline_suspected" \in flags[h] <=> Text(h) \in Borderline)
      BY <2>4 DEF GateHeld
    <2>6. /\ store'[i] = EntryOf(h) /\ written'[i] # None
          /\ written'[i].text = Text(h) /\ written'[i].who = Writer(h)
      BY <2>2, <2>3 DEF PutOf
    <2>7. /\ EntryOf(h).content = Redact[Text(h)] /\ EntryOf(h).boundIdentity = BoundKeyFor(Writer(h))
          /\ EntryOf(h).quarantined <=> Text(h) \in Borderline
      BY <2>5 DEF EntryOf, Redacted
    <2> QED BY <2>5, <2>6, <2>7 DEF Genuine
  <1> QED BY <1>1, <1>2

LEMMA CopyStep ==
  ASSUME EntryInv, NEW h \in Handlers, Accept(h) \/ Serve(h)
  PROVE  CopyIsGenuine(h)' /\ CopyIsVisible(h)'
  <1>0. TypeInv /\ [Next]_vars
    BY DEF EntryInv, Next
  <1>1. ASSUME NEW i \in Ids, pc'[h] \in Copying, held'[h][i] # None
        PROVE  Genuine(i, held'[h][i])
    <2>1. CASE Scan(h) \/ Lookup(h) \/ Fetch(h)
      <3>1. held'[h][i] = store[i]
        BY <1>1, <2>1 DEF Scan, ScanScoped, Lookup, Fetch, Fetched, Get, EntryInv, TypeInv, TypeOK
      <3> QED BY <1>1, <3>1 DEF EntryInv, StoreIsGenuine
    <2>2. CASE Delete(h)
      BY <1>1, <2>2 DEF Delete, EntryInv, CopyIsGenuine, Copying
    <2> QED BY <1>0, <1>1, <2>1, <2>2, Arrival DEF Copying
  <1>2. CopyIsGenuine(h)'
    BY <1>0, <1>1, EntriesStand DEF CopyIsGenuine, Genuine
  <1>3. CopyIsVisible(h)'
    <2>1. pc'[h] = "filter" => Scan(h)
      BY <1>0, Arrival
    <2> QED BY <2>1 DEF CopyIsVisible, Scan, ScanScoped, EntryInv, TypeInv, TypeOK
  <1> QED BY <1>2, <1>3

\* Filter answers from the handler's copy; no other step of a reader answers.
LEMMA AnswerStep ==
  ASSUME EntryInv, NEW h \in Handlers, Accept(h) \/ Serve(h)
  PROVE  Isolated(h)'
  <1> SUFFICES ASSUME pc'[h] = "reply", req'[h].op = "validate_read", NEW hit \in resp'[h].hits
               PROVE  /\ hit[1] \in Ids /\ (written[hit[1]] # None)'
                      /\ MayRead(req[h].who, written[hit[1]].who)'
                      /\ (written[hit[1]].text \notin Injected \cup Borderline)'
                      /\ (hit[2] = Redact[written[hit[1]].text] /\ hit[2] \in req[h].query)'
    BY DEF Isolated, Answering
  <1>0. TypeInv /\ [Next]_vars
    BY DEF EntryInv, Next
  <1>1. Filter(h)
    BY <1>0, Arrival
    DEF RejectInjection, RejectUnattested, RejectDrift, Put, EmitPII, Filter, Review, Verify,
        ghostVars, TypeInv, StepFits, WriteSteps, DeleteSteps, WriteRequest, IdRequest
  <1>2. /\ UNCHANGED <<written, req>> /\ pc[h] = "filter"
        /\ hit \in Readable(held[h])
    BY <1>1 DEF Filter, Answers, ghostVars, EntryInv, TypeInv, TypeOK
  <1>3. PICK i \in Ids : /\ hit = <<i, Redact[held[h][i].content]>>
                         /\ held[h][i] # None /\ ~held[h][i].quarantined
    BY <1>2 DEF Readable
  <1>4. Genuine(i, held[h][i])
    BY <1>2, <1>3 DEF EntryInv, CopyIsGenuine, Copying
  <1>5. /\ held[h][i].content \in req[h].query
        /\ held[h][i].boundIdentity \in VisibleKeys(req[h].who)
    BY <1>2, <1>3 DEF EntryInv, CopyIsVisible
  <1>6. written[i] \in Author /\ req[h].who \in Principals /\ held[h][i].content \in Contents
    BY <1>2, <1>3, <1>4
    DEF EntryInv, TypeInv, TypeOK, StepFits, ReadRequest, Genuine, Entry
  <1>7. Redact[held[h][i].content] = held[h][i].content
    BY <1>6, DetectorAssumption
  <1>8. MayRead(req[h].who, written[i].who)
    BY <1>4, <1>5, <1>6, KeysDecide DEF Genuine, Author
  <1>9. hit[1] = i /\ hit[2] = held[h][i].content
    BY <1>3, <1>7
  <1> QED BY <1>2, <1>3, <1>4, <1>5, <1>8, <1>9 DEF Genuine

LEMMA NextEntry == EntryInv /\ [Next]_vars => EntryInv'
  <1> SUFFICES ASSUME EntryInv, [Next]_vars PROVE EntryInv'
    OBVIOUS
  <1>1. TypeInv /\ TypeInv'
    BY NextType DEF EntryInv
  <1>2. ASSUME NEW h \in Handlers, Accept(h) \/ Serve(h) PROVE EntryInv'
    <2>1. ASSUME NEW k \in Handlers, k # h
          PROVE  GateHeld(k)' /\ CopyIsGenuine(k)' /\ CopyIsVisible(k)' /\ Isolated(k)'
      <3>1. /\ pc'[k] = pc[k] /\ req'[k] = req[k] /\ flags'[k] = flags[k]
            /\ held'[k] = held[k] /\ resp'[k] = resp[k]
        BY <1>1, <1>2, <2>1, OthersStand
      <3>2. GateHeld(k) /\ CopyIsGenuine(k) /\ CopyIsVisible(k) /\ Isolated(k)
        BY DEF EntryInv
      <3>3. GateHeld(k)' /\ CopyIsVisible(k)'
        BY <3>1, <3>2 DEF GateHeld, CopyIsVisible, Text
      <3>4. CopyIsGenuine(k)'
        BY <1>1, <3>1, <3>2, EntriesStand DEF CopyIsGenuine, Genuine
      <3>5. Isolated(k)'
        BY <1>1, <3>1, <3>2, EntriesStand DEF Isolated, Answering
      <3> QED BY <3>3, <3>4, <3>5
    <2>2. GateHeld(h)' /\ CopyIsGenuine(h)' /\ CopyIsVisible(h)' /\ Isolated(h)' /\ StoreIsGenuine'
      BY <1>2, GateStep, StoreStep, CopyStep, AnswerStep
    <2> QED BY <1>1, <2>1, <2>2 DEF EntryInv
  <1>3. CASE Drain \/ Quiescent \/ UNCHANGED vars
    BY <1>1, <1>3, Silent
    DEF EntryInv, StoreIsGenuine, GateHeld, CopyIsGenuine, CopyIsVisible, Isolated, Genuine,
        Answering, Text
  <1>4. CASE Crash
    <2>1. StoreIsGenuine'
      BY <1>4 DEF Crash, Reopened, Nothing, EntryInv, StoreIsGenuine, Genuine
    <2>2. ASSUME NEW h \in Handlers
          PROVE  GateHeld(h)' /\ CopyIsGenuine(h)' /\ CopyIsVisible(h)' /\ Isolated(h)'
      <3>1. pc'[h] = "idle"
        BY <1>1, <1>4, NoHandlerLeft
      <3> QED BY <3>1 DEF GateHeld, CopyIsGenuine, CopyIsVisible, Isolated, Answering, PastGate,
                Copying
    <2> QED BY <1>1, <2>1, <2>2 DEF EntryInv
  <1> QED BY <1>2, <1>3, <1>4 DEF Next

(***************************************************************************)
(* A reader is handed only redacted contents of entries whose author it    *)
(* may read under the access rule, never of a poisoned or quarantined      *)
(* write, for any principals, requests and interleaving (guard.go          *)
(* ValidateRead, principal.go).                                            *)
(***************************************************************************)
THEOREM ReadsAreIsolated == Spec => []ReadIsolation
  <1>1. EntryInv => ReadIsolation
    BY DEF EntryInv, Isolated, ReadIsolation
  <1> QED BY <1>1, InitEntry, NextEntry, PTL DEF Spec

-----------------------------------------------------------------------------
Locked(h) == pc[h] \in Holding => mu = h

\* A client names an id it was given, or one nobody was given.
NamesKnown(h) == req[h] \in IdRequest => req[h].id \in acked \cup BogusIds

AckedIsMinted == \A i \in acked : written[i] # None

SeenIsPast(h) == seen[h].acked \subseteq acked /\ seen[h].gone \subseteq gone

\* The id an unsent write answer carries was minted.
Disclosing(h) == pc[h] \in {"emit", "reply"} /\ resp[h].op = "validate_write" /\ resp[h].id \in Ids

EmitsItsOwn(h) == pc[h] = "emit" => resp[h].op = "validate_write"

IdIsMinted(h) == Disclosing(h) => written[resp[h].id] # None

Confirming(h) == pc[h] = "reply" /\ resp[h].op = "verify_delete" /\ resp[h].confirmed

IdIsAbsent(h) == pc[h] = "verify" \/ Confirming(h) =>
    /\ req[h] \in IdRequest
    /\ req[h].id \in Ids => store[req[h].id] = None

GoneIsDead == \A i \in gone \cap Ids : written[i] # None /\ store[i] = None

CopyIsAlive(h) == pc[h] = "filter" =>
    \A i \in Ids : held[h][i] # None => i \notin seen[h].gone

LifeInv ==
    /\ TypeInv
    /\ AckedIsMinted /\ GoneIsDead
    /\ \A h \in Handlers : /\ Locked(h) /\ NamesKnown(h) /\ SeenIsPast(h)
                            /\ EmitsItsOwn(h) /\ IdIsMinted(h) /\ IdIsAbsent(h) /\ CopyIsAlive(h)
    /\ DeletionIsFinal /\ ResidueIsReported

LEMMA InitLife == Init => LifeInv
  BY InitType, AbsenceAssumption
  DEF Init, Nothing, LifeInv, AckedIsMinted, GoneIsDead, Locked, Holding, NamesKnown, SeenIsPast,
      EmitsItsOwn, IdIsMinted, Disclosing, IdIsAbsent, Confirming, CopyIsAlive, DeletionIsFinal,
      ResidueIsReported, Answering, Request

\* g.mu has one holder: nobody else changes the store under VerifyDelete.
LEMMA LockStep ==
  ASSUME LifeInv, NEW h \in Handlers, Accept(h) \/ Serve(h), NEW k \in Handlers
  PROVE  Locked(k)'
  <1>0. TypeInv /\ \A j \in Handlers : Locked(j)
    BY DEF LifeInv
  <1>1. CASE Lock(h)
    BY <1>0, <1>1, ServerAssumption DEF Lock, Goto, Locked, Holding, TypeInv, TypeOK
  <1>2. CASE Verify(h)
    BY <1>0, <1>2 DEF Verify, Answers, Goto, Locked, Holding, TypeInv, TypeOK
  <1>3. CASE UNCHANGED mu
    <2>1. pc'[k] \in Holding => pc[k] \in Holding \/ Lock(h)
      BY <1>0, OthersStand, Arrival DEF Holding, Fetch, Delete
    <2> QED BY <1>0, <1>3, <2>1, ServerAssumption DEF Locked, Lock, Holding, Goto, TypeInv, TypeOK
  <1> QED BY <1>1, <1>2, <1>3, StoreSteps

LEMMA NamesStep ==
  ASSUME LifeInv, NEW h \in Handlers, Accept(h) \/ Serve(h), NEW k \in Handlers
  PROVE  NamesKnown(k)' /\ SeenIsPast(k)'
  <1>0. TypeInv /\ NamesKnown(k) /\ SeenIsPast(k)
    BY DEF LifeInv
  <1>1. acked \subseteq acked' /\ gone \subseteq gone'
    BY StoreSteps DEF Reply
  <1>2. CASE k # h \/ UNCHANGED <<req, seen>>
    BY <1>0, <1>1, <1>2, OthersStand DEF NamesKnown, SeenIsPast
  <1>3. CASE k = h /\ Accept(h)
    <2>1. /\ seen'[h] = [acked |-> acked, gone |-> gone]
          /\ UNCHANGED <<acked, gone>>
      BY <1>0, <1>3 DEF Accept, TypeInv, TypeOK
    <2>2. req'[h] \in IdRequest => req'[h].id \in acked \cup BogusIds
      BY <1>0, <1>3, RequestAssumption
      DEF Accept, Begins, TypeInv, TypeOK, IdRequest, WriteRequest, ReadRequest
    <2> QED BY <1>3, <2>1, <2>2 DEF NamesKnown, SeenIsPast
  <1>4. CASE k = h /\ (Reply(h) \/ ReplyLost(h))
    <2>1. req'[h] = None /\ seen'[h] = [acked |-> {}, gone |-> {}]
      BY <1>0, <1>4 DEF Reply, ReplyLost, Ends, TypeInv, TypeOK
    <2> QED BY <1>4, <2>1, AbsenceAssumption DEF NamesKnown, SeenIsPast, Request
  <1>5. UNCHANGED <<req, seen>> \/ Accept(h) \/ Reply(h) \/ ReplyLost(h)
    BY DEF Serve, ValidateWrite, RejectInjection, PassGate, RejectUnattested, PassProtected,
       EstablishBaseline, MatchBaseline, FlagDrift, RejectDrift, Inspect, Put, EmitPII,
       ValidateRead, ReviewQuarantine, VerifyDelete, Scan, Filter, Lookup, Review, Lock, Fetch,
       Delete, Verify, ghostVars
  <1> QED BY <1>2, <1>3, <1>4, <1>5

\* An unsent write answer is the one Put computed.
LEMMA DisclosingComes ==
  ASSUME TypeInv, NEW h \in Handlers, Accept(h) \/ Serve(h), NEW k \in Handlers, Disclosing(k)'
  PROVE  (Disclosing(k) /\ resp'[k] = resp[k]) \/ (k = h /\ Put(h))
  <1>1. CASE k # h
    <2>1. pc'[k] = pc[k] /\ resp'[k] = resp[k]
      BY <1>1, OthersStand
    <2> QED BY <2>1 DEF Disclosing
  <1>2. CASE k = h /\ EmitPII(h)
    <2>1. pc[k] = "emit" /\ resp'[k] = resp[k]
      BY <1>2 DEF EmitPII
    <2> QED BY <2>1 DEF Disclosing
  <1>3. k = h => Put(h) \/ EmitPII(h)
    <2>1. None \notin Ids
      BY NoneAssumption
    <2> QED BY <2>1, Arrival, AnswerKinds DEF Disclosing
  <1> QED BY <1>1, <1>2, <1>3

LEMMA AnsweredStep ==
  ASSUME LifeInv, NEW h \in Handlers, Accept(h) \/ Serve(h), NEW k \in Handlers
  PROVE  EmitsItsOwn(k)' /\ IdIsMinted(k)'
  <1>0. TypeInv /\ [Next]_vars /\ EmitsItsOwn(k) /\ IdIsMinted(k)
    BY DEF LifeInv, Next
  <1>1. EmitsItsOwn(k)'
    <2>1. CASE k = h
      BY <1>0, <2>1, Arrival, AnswerKinds DEF EmitsItsOwn
    <2>2. CASE k # h
      BY <1>0, <2>2, OthersStand DEF EmitsItsOwn
    <2> QED BY <2>1, <2>2
  <1> SUFFICES ASSUME Disclosing(k)'
               PROVE  (written[resp[k].id] # None)'
    BY <1>1 DEF IdIsMinted
  <1>2. CASE Disclosing(k) /\ resp'[k] = resp[k]
    BY <1>0, <1>2, EntriesStand DEF IdIsMinted, Disclosing
  <1>3. CASE k = h /\ Put(h)
    <2>1. PICK id \in Ids : PutOf(h, id)
      BY <1>0, <1>3, PutEffect
    <2>2. resp'[k].id = id /\ written'[id] # None
      BY <1>3, <2>1 DEF PutOf, Stored
    <2> QED BY <2>2
  <1> QED BY <1>0, <1>2, <1>3, DisclosingComes

\* While VerifyDelete looks, and until its answer is sent, the id stays absent.
LEMMA AbsentStep ==
  ASSUME LifeInv, NEW h \in Handlers, Accept(h) \/ Serve(h), NEW k \in Handlers
  PROVE  IdIsAbsent(k)'
  <1>0. TypeInv /\ [Next]_vars /\ IdIsAbsent(k) /\ NamesKnown(k) /\ EmitsItsOwn(k) /\ AckedIsMinted
    BY DEF LifeInv, Next
  <1>1. ASSUME IdIsAbsent(k), pc[k] = "verify" \/ Confirming(k),
               req'[k] = req[k], pc'[k] = "verify" \/ Confirming(k)'
        PROVE  IdIsAbsent(k)'
    <2>1. req[k] \in IdRequest /\ (req[k].id \in Ids => store[req[k].id] = None)
      BY <1>1 DEF IdIsAbsent
    <2>2. req[k].id \in Ids => written[req[k].id] # None
      BY <1>0, <2>1, IdAssumption DEF NamesKnown, AckedIsMinted
    <2>3. req[k].id \in Ids => store'[req[k].id] = None
      BY <1>0, <2>1, <2>2, EntriesStand
    <2> QED BY <1>1, <2>1, <2>3 DEF IdIsAbsent
  <1>2. CASE k # h
    BY <1>0, <1>1, <1>2, OthersStand DEF IdIsAbsent, Confirming
  <1>3. CASE k = h /\ Delete(h)
    <2>1. req[h] \in IdRequest
      BY <1>0, <1>3 DEF Delete, TypeInv, StepFits, DeleteSteps
    <2> QED BY <1>0, <1>3, <2>1, DeleteEffect DEF IdIsAbsent
  <1>4. CASE k = h /\ Verify(h)
    BY <1>0, <1>1, <1>4 DEF Verify, IdIsAbsent
  <1>5. ASSUME k = h, pc'[h] = "verify" \/ Confirming(h)' PROVE Delete(h) \/ Verify(h)
    <2>1. EmitPII(h) => resp'[h].op = "validate_write"
      BY <1>0, <1>5, AnswerKinds DEF EmitsItsOwn, EmitPII
    <2> QED BY <1>0, <1>5, <2>1, Arrival, AnswerKinds DEF Confirming
  <1> QED BY <1>2, <1>3, <1>4, <1>5 DEF IdIsAbsent

\* What a client learns from a reply is so: the id exists, the deletion is done.
LEMMA LearnedStep ==
  ASSUME LifeInv, NEW h \in Handlers, Accept(h) \/ Serve(h)
  PROVE  AckedIsMinted' /\ GoneIsDead'
  <1>0. /\ TypeInv /\ [Next]_vars /\ IdIsMinted(h) /\ IdIsAbsent(h) /\ NamesKnown(h)
        /\ AckedIsMinted /\ GoneIsDead
    BY DEF LifeInv, Next
  <1>1. ASSUME NEW i \in acked'
        PROVE  i \in Ids /\ written[i] # None
    <2>1. CASE i \in acked
      BY <1>0, <2>1 DEF AckedIsMinted, TypeInv, TypeOK
    <2>2. CASE i \notin acked
      <3>1. pc[h] = "reply" /\ i \in LearnedIds(resp[h])
        BY <1>1, <2>2, StoreSteps DEF Reply
      <3> QED BY <1>0, <3>1 DEF LearnedIds, IdIsMinted, Disclosing
    <2> QED BY <2>1, <2>2
  <1>2. ASSUME NEW i \in gone' \cap Ids
        PROVE  written[i] # None /\ store[i] = None
    <2>1. CASE i \in gone
      BY <1>0, <2>1 DEF GoneIsDead
    <2>2. CASE i \notin gone
      <3>1. pc[h] = "reply" /\ i \in LearnedGone(req[h], resp[h])
        BY <1>2, <2>2, StoreSteps DEF Reply
      <3>2. Confirming(h) /\ req[h].id = i
        BY <3>1 DEF LearnedGone, Confirming
      <3> QED BY <1>0, <3>2, IdAssumption DEF IdIsAbsent, NamesKnown, AckedIsMinted
    <2> QED BY <2>1, <2>2
  <1>3. AckedIsMinted'
    BY <1>0, <1>1, EntriesStand DEF AckedIsMinted
  <1>4. GoneIsDead'
    BY <1>0, <1>2, EntriesStand DEF GoneIsDead
  <1> QED BY <1>3, <1>4

\* A scan copies what is stored, and what a client saw deleted is not.
LEMMA AliveStep ==
  ASSUME LifeInv, NEW h \in Handlers, Accept(h) \/ Serve(h), NEW k \in Handlers
  PROVE  CopyIsAlive(k)'
  <1>0. TypeInv /\ GoneIsDead /\ SeenIsPast(k) /\ CopyIsAlive(k)
    BY DEF LifeInv
  <1>1. CASE k # h
    BY <1>0, <1>1, OthersStand DEF CopyIsAlive
  <1>2. CASE k = h /\ Scan(h)
    <2>1. \A i \in Ids : held'[h][i] # None => store[i] # None
      BY <1>0, <1>2 DEF Scan, ScanScoped, TypeInv, TypeOK
    <2> QED BY <1>0, <1>2, <2>1 DEF Scan, ghostVars, CopyIsAlive, GoneIsDead, SeenIsPast
  <1> QED BY <1>0, <1>1, <1>2, Arrival DEF CopyIsAlive

HitsAreAlive(h) == Answering(h, "validate_read") =>
    \A hit \in resp[h].hits : hit[1] \notin seen[h].gone

LEMMA HitsStep ==
  ASSUME LifeInv, NEW h \in Handlers, Accept(h) \/ Serve(h), NEW k \in Handlers
  PROVE  HitsAreAlive(k)'
  <1>0. TypeInv /\ HitsAreAlive(k) /\ CopyIsAlive(h)
    BY DEF LifeInv, DeletionIsFinal, HitsAreAlive
  <1>1. CASE k # h
    BY <1>0, <1>1, OthersStand DEF HitsAreAlive, Answering
  <1>2. CASE k = h /\ Filter(h)
    BY <1>0, <1>2 DEF Filter, Answers, Readable, ghostVars, HitsAreAlive, CopyIsAlive, TypeInv,
       TypeOK
  <1>3. ASSUME Answering(h, "validate_read")' PROVE Filter(h)
    BY <1>0, <1>3, Arrival
    DEF RejectInjection, RejectUnattested, RejectDrift, Put, EmitPII, Review, Verify,
        ghostVars, Answering, TypeInv, StepFits, WriteSteps, DeleteSteps, WriteRequest, IdRequest
  <1> QED BY <1>1, <1>2, <1>3 DEF HitsAreAlive

\* A clean answer of VerifyDelete was computed from the entries still stored.
Clean(h) == Answering(h, "verify_delete") /\ resp[h].hash[2] # None /\ ~resp[h].residue

NoResidue(h) == Clean(h) =>
    \A i \in seen[h].acked :
        store[i] # None => <<resp[h].hash[2], store[i].content>> \notin Residual

LEMMA ResidueStep ==
  ASSUME LifeInv, NEW h \in Handlers, Accept(h) \/ Serve(h), NEW k \in Handlers
  PROVE  NoResidue(k)'
  <1>0. /\ TypeInv /\ [Next]_vars /\ NoResidue(k) /\ SeenIsPast(k) /\ AckedIsMinted
    <2>1. ResidueIsReported
      BY DEF LifeInv
    <2>2. NoResidue(k)
      BY <2>1 DEF ResidueIsReported, NoResidue, Clean
    <2> QED BY <2>2 DEF LifeInv, Next
  <1>1. CASE k # h
    <2>1. /\ pc'[k] = pc[k] /\ req'[k] = req[k] /\ resp'[k] = resp[k] /\ seen'[k] = seen[k]
      BY <1>0, <1>1, OthersStand
    <2>2. \A i \in seen[k].acked : i \in Ids /\ (store'[i] # None => store'[i] = store[i])
      BY <1>0, EntriesStand DEF SeenIsPast, AckedIsMinted, TypeInv, TypeOK
    <2> QED BY <1>0, <2>1, <2>2 DEF NoResidue, Clean, Answering
  <1>2. ASSUME k = h, Verify(h), Clean(h)', NEW i \in seen'[h].acked, store'[i] # None
        PROVE  <<resp'[h].hash[2], store'[i].content>> \notin Residual
    <2>1. resp'[h] = Deleted(h) /\ UNCHANGED <<store, seen>>
      BY <1>0, <1>2, AnswerKinds DEF Verify, ghostVars
    <2>2. i \in Survivors
      BY <1>0, <1>2, <2>1 DEF Survivors, SeenIsPast, TypeInv, TypeOK
    <2>3. Copy(h) # None /\ resp'[h].hash[2] = Copy(h).content
      BY <1>2, <2>1 DEF Clean, Deleted, DeletionHash
    <2>4. ~ResidueOf(Copy(h))
      BY <1>2, <2>1 DEF Clean, Deleted
    <2> QED BY <2>1, <2>2, <2>3, <2>4 DEF ResidueOf
  <1>3. ASSUME Clean(h)' PROVE Verify(h)
    BY <1>0, <1>3, Arrival
    DEF RejectInjection, RejectUnattested, RejectDrift, Put, EmitPII, Filter, Review,
        ghostVars, Clean, Answering, TypeInv, StepFits, WriteSteps, DeleteSteps, WriteRequest,
        ReadRequest, IdRequest
  <1> QED BY <1>1, <1>2, <1>3 DEF NoResidue

LEMMA NextLife == LifeInv /\ [Next]_vars => LifeInv'
  <1> SUFFICES ASSUME LifeInv, [Next]_vars PROVE LifeInv'
    OBVIOUS
  <1>1. TypeInv /\ TypeInv'
    BY NextType DEF LifeInv
  <1>2. ASSUME NEW h \in Handlers, Accept(h) \/ Serve(h) PROVE LifeInv'
    <2>1. ASSUME NEW k \in Handlers
          PROVE  /\ Locked(k)' /\ NamesKnown(k)' /\ SeenIsPast(k)' /\ EmitsItsOwn(k)'
                 /\ IdIsMinted(k)' /\ IdIsAbsent(k)' /\ CopyIsAlive(k)'
      BY <1>2, LockStep, NamesStep, AnsweredStep, AbsentStep, AliveStep
    <2>2. AckedIsMinted' /\ GoneIsDead'
      BY <1>2, LearnedStep
    <2>3. DeletionIsFinal'
      <3>1. \A k \in Handlers : HitsAreAlive(k)'
        BY <1>2, HitsStep
      <3> QED BY <2>2, <3>1 DEF DeletionIsFinal, GoneIsDead, HitsAreAlive
    <2>4. ResidueIsReported'
      <3>1. \A k \in Handlers : NoResidue(k)'
        BY <1>2, ResidueStep
      <3> QED BY <3>1 DEF ResidueIsReported, NoResidue, Clean
    <2> QED BY <1>1, <2>1, <2>2, <2>3, <2>4 DEF LifeInv
  <1>3. CASE Drain \/ Quiescent \/ UNCHANGED vars
    BY <1>1, <1>3, Silent
    DEF LifeInv, AckedIsMinted, GoneIsDead, Locked, NamesKnown, SeenIsPast, EmitsItsOwn,
        IdIsMinted, Disclosing, IdIsAbsent, Confirming, CopyIsAlive,
        DeletionIsFinal, ResidueIsReported, Answering
  <1>4. CASE Crash
    <2>1. ASSUME NEW k \in Handlers
          PROVE  /\ Locked(k)' /\ NamesKnown(k)' /\ SeenIsPast(k)' /\ EmitsItsOwn(k)'
                 /\ IdIsMinted(k)' /\ IdIsAbsent(k)' /\ CopyIsAlive(k)'
                 /\ \A op : ~Answering(k, op)'
      <3>1. /\ pc'[k] = "idle" /\ req'[k] = None
            /\ seen'[k] = [acked |-> {}, gone |-> {}]
        BY <1>4 DEF Crash
      <3> QED BY <3>1, AbsenceAssumption
            DEF Locked, Holding, NamesKnown, SeenIsPast, EmitsItsOwn, IdIsMinted, Disclosing,
                IdIsAbsent, Confirming, CopyIsAlive, Answering, Request
    <2>2. /\ UNCHANGED <<written, acked, gone>>
          /\ \A i \in Ids : store'[i] \in {None, store[i]}
      BY <1>4 DEF Crash, Reopened, Nothing
    <2>3. AckedIsMinted' /\ GoneIsDead'
      BY <2>2 DEF LifeInv, AckedIsMinted, GoneIsDead
    <2> QED BY <1>1, <2>1, <2>3
          DEF LifeInv, DeletionIsFinal, GoneIsDead, ResidueIsReported
  <1> QED BY <1>2, <1>3, <1>4 DEF Next

(***************************************************************************)
(* A deletion confirmed to a client is final, for the store and for every  *)
(* read that arrives later (guard.go VerifyDelete, ValidateRead).          *)
(***************************************************************************)
THEOREM DeletionsAreFinal == Spec => []DeletionIsFinal
  <1>1. LifeInv => DeletionIsFinal
    BY DEF LifeInv
  <1> QED BY <1>1, InitLife, NextLife, PTL DEF Spec

(***************************************************************************)
(* A deletion that reports no residue leaves no residue among the entries  *)
(* acknowledged before it was asked for (guard.go VerifyDelete).           *)
(***************************************************************************)
THEOREM ResidueIsAlwaysReported == Spec => []ResidueIsReported
  <1>1. LifeInv => ResidueIsReported
    BY DEF LifeInv
  <1> QED BY <1>1, InitLife, NextLife, PTL DEF Spec

-----------------------------------------------------------------------------
\* Accepted event n proves that the content of id i was deleted.
Proves(n, i) == /\ Accepted[n].type = "deletion"
                /\ Accepted[n].hash[1] = i /\ Accepted[n].hash[2] # None

ProofsAreOfTheDead == \A n \in DOMAIN Accepted : \A i \in Ids : Proves(n, i) => store[i] = None

DeletionsAreOfTheKnown == \A n \in DOMAIN Accepted :
    Accepted[n].type = "deletion" => Accepted[n].hash[1] \in acked \cup BogusIds

Unproved(h) == pc[h] \in {"delete", "verify"} /\ Copy(h) # None =>
    \A n \in DOMAIN Accepted : ~Proves(n, req[h].id)

Undisclosed(h) == pc[h] = "emit" =>
    /\ resp[h].id \notin acked
    /\ \A k \in Handlers \ {h} : Disclosing(k) => resp[k].id # resp[h].id

AuditInv ==
    /\ LifeInv
    /\ ProofsAreOfTheDead /\ DeletionsAreOfTheKnown
    /\ \A h \in Handlers : Unproved(h) /\ Undisclosed(h)
    /\ OneProofPerEntry /\ OfferOrder

LEMMA AuditType == TypeInv => Accepted \in Seq(Event) /\ DOMAIN Accepted \subseteq Nat
  <1>1. TypeInv => Accepted \in Seq(Event)
    BY DEF Accepted, TypeInv, TypeOK
  <1> QED BY <1>1

LEMMA InitAudit == Init => AuditInv
  <1> SUFFICES ASSUME Init PROVE AuditInv
    OBVIOUS
  <1>1. LifeInv
    BY InitLife
  <1>2. Accepted = <<>> /\ \A h \in Handlers : pc[h] = "idle"
    BY DEF Init, Accepted
  <1> QED BY <1>1, <1>2 DEF AuditInv, ProofsAreOfTheDead, DeletionsAreOfTheKnown, Unproved,
            Undisclosed, OneProofPerEntry, OfferOrder

\* The events of s are events of t in the same order.
Thinning(s, t, f) ==
    /\ f \in [DOMAIN s -> DOMAIN t]
    /\ \A m, n \in DOMAIN s : m < n => f[m] < f[n]
    /\ \A n \in DOMAIN s : s[n] = t[f[n]]

LEMMA SameIsThinning ==
  ASSUME NEW s \in Seq(Event) PROVE \E f : Thinning(s, s, f)
  <1>1. Thinning(s, s, [n \in DOMAIN s |-> n])
    BY DEF Thinning
  <1> QED BY <1>1

LEMMA PrefixIsThinning ==
  ASSUME NEW s \in Seq(Event), NEW t \in Seq(Event) PROVE \E f : Thinning(s \o <<>>, s \o t, f)
  <1>1. s \o <<>> = s
    OBVIOUS
  <1>2. Thinning(s, s \o t, [n \in DOMAIN s |-> n])
    BY DEF Thinning
  <1> QED BY <1>1, <1>2

LEMMA ForwardedIsTheSame ==
  ASSUME NEW s \in Seq(Event), NEW t \in Seq(Event), t # <<>>
  PROVE  Append(s, Head(t)) \o Tail(t) = s \o t
  OBVIOUS

\* An accepted event is the last.
LEMMA OfferedIsLast ==
  ASSUME NEW s \in Seq(Event), NEW t \in Seq(Event), NEW e \in Event
  PROVE  s \o Offer(t, e) \in {s \o t, Append(s \o t, e)}
  BY DEF Offer

AuditFacts == ProofsAreOfTheDead /\ DeletionsAreOfTheKnown /\ OneProofPerEntry /\ OfferOrder

\* What no step undoes: a dead id stays dead, an acknowledged one known.
Onward == /\ acked \subseteq acked'
          /\ \A i \in acked : store[i] = None => store'[i] = None

LEMMA ProvedIsKnown ==
  ASSUME TypeInv, AuditFacts, NEW n \in DOMAIN Accepted, NEW i \in Ids, Proves(n, i)
  PROVE  i \in acked /\ store[i] = None
  BY IdAssumption DEF AuditFacts, ProofsAreOfTheDead, DeletionsAreOfTheKnown, Proves

LEMMA ThinKeeps ==
  ASSUME TypeInv, TypeInv', AuditFacts, Onward, NEW f, \A t : t = Accepted' => Thinning(t, Accepted, f)
  PROVE  AuditFacts'
  <1>1. /\ f \in [DOMAIN Accepted' -> DOMAIN Accepted]
        /\ \A m, n \in DOMAIN Accepted' : m < n => f[m] < f[n]
        /\ \A n \in DOMAIN Accepted' : Accepted'[n] = Accepted[f[n]]
    BY DEF Thinning
  <1>2. DOMAIN Accepted \subseteq Nat /\ DOMAIN Accepted' \subseteq Nat
    BY AuditType

  <1>3. ASSUME NEW n \in DOMAIN Accepted', NEW i \in Ids, Proves(n, i)'
        PROVE  f[n] \in DOMAIN Accepted /\ Proves(f[n], i) /\ i \in acked /\ store[i] = None
    <2>1. f[n] \in DOMAIN Accepted /\ Proves(f[n], i)
      BY <1>1, <1>3 DEF Proves
    <2> QED BY <2>1, ProvedIsKnown
  <1>4. ProofsAreOfTheDead'
    BY <1>3 DEF ProofsAreOfTheDead, Onward
  <1>5. DeletionsAreOfTheKnown'
    BY <1>1 DEF AuditFacts, DeletionsAreOfTheKnown, Onward
  <1>6. OneProofPerEntry'
    <2> SUFFICES ASSUME NEW i \in Ids, NEW m \in DOMAIN Accepted', NEW n \in DOMAIN Accepted',
                        Proves(m, i)', Proves(n, i)'
                 PROVE  m = n
      BY DEF OneProofPerEntry, Proves
    <2>1. f[m] = f[n]
      BY <1>3 DEF AuditFacts, OneProofPerEntry, Proves
    <2>2. f[m] \in Nat /\ f[n] \in Nat
      BY <1>1, <1>2
    <2> QED BY <1>1, <1>2, <2>1, <2>2
  <1>7. OfferOrder'
    <2> SUFFICES ASSUME NEW m \in DOMAIN Accepted', NEW n \in DOMAIN Accepted',
                        Accepted'[m].type = "deletion", Accepted'[n].type = "pii_redaction",
                        Accepted'[m].hash[1] = Accepted'[n].id
                 PROVE  n < m
      BY DEF OfferOrder
    <2>1. f[m] \in DOMAIN Accepted /\ f[n] \in DOMAIN Accepted /\ f[n] < f[m]
      BY <1>1 DEF AuditFacts, OfferOrder
    <2>2. f[m] \in Nat /\ f[n] \in Nat
      BY <1>2, <2>1
    <2> QED BY <1>1, <1>2, <2>1, <2>2
  <1> QED BY <1>4, <1>5, <1>6, <1>7 DEF AuditFacts

\* The conditions under which one more event keeps them in order.
Fits(e) ==
    /\ e.type = "deletion" =>
         /\ e.hash[1] \in acked \cup BogusIds
         /\ e.hash[1] \in Ids /\ e.hash[2] # None =>
              /\ store[e.hash[1]] = None
              /\ \A n \in DOMAIN Accepted : ~Proves(n, e.hash[1])
    /\ e.type = "pii_redaction" => e.id \in Ids \ acked

LEMMA AppendKeeps ==
  ASSUME TypeInv, TypeInv', AuditFacts, UNCHANGED <<store, acked>>, NEW e \in Event, Fits(e),
         Accepted' = Append(Accepted, e)
  PROVE  AuditFacts'
  <1> DEFINE last == Len(Accepted) + 1
  <1>1. /\ Accepted \in Seq(Event) /\ Len(Accepted) \in Nat
        /\ DOMAIN Accepted' = DOMAIN Accepted \cup {last} /\ last \notin DOMAIN Accepted
        /\ DOMAIN Accepted \subseteq Nat /\ \A n \in DOMAIN Accepted : n < last
        /\ \A n \in DOMAIN Accepted : Accepted'[n] = Accepted[n]
        /\ Accepted'[last] = e
    BY AuditType
  <1>2. ASSUME NEW n \in DOMAIN Accepted', NEW i \in Ids, Proves(n, i)'
        PROVE  \/ n \in DOMAIN Accepted /\ Proves(n, i) /\ store[i] = None
               \/ n = last /\ store[i] = None /\ \A m \in DOMAIN Accepted : ~Proves(m, i)
    <2>1. CASE n \in DOMAIN Accepted
      BY <1>1, <1>2, <2>1, ProvedIsKnown DEF Proves
    <2>2. CASE n = last
      <3>1. e.type = "deletion" /\ e.hash[1] = i /\ e.hash[2] # None
        BY <1>1, <1>2, <2>2 DEF Proves
      <3> QED BY <2>2, <3>1 DEF Fits
    <2> QED BY <1>1, <2>1, <2>2
  <1>3. ProofsAreOfTheDead'
    BY <1>2 DEF ProofsAreOfTheDead
  <1>4. DeletionsAreOfTheKnown'
    BY <1>1 DEF AuditFacts, DeletionsAreOfTheKnown, Fits
  <1>5. OneProofPerEntry'
    <2> SUFFICES ASSUME NEW i \in Ids, NEW m \in DOMAIN Accepted', NEW n \in DOMAIN Accepted',
                        Proves(m, i)', Proves(n, i)'
                 PROVE  m = n
      BY DEF OneProofPerEntry, Proves
    <2>1. OneProofPerEntry
      BY DEF AuditFacts
    <2> QED BY <1>2, <2>1 DEF OneProofPerEntry, Proves
  <1>6. OfferOrder'
    <2> SUFFICES ASSUME NEW m \in DOMAIN Accepted', NEW n \in DOMAIN Accepted',
                        Accepted'[m].type = "deletion", Accepted'[n].type = "pii_redaction",
                        Accepted'[m].hash[1] = Accepted'[n].id
                 PROVE  n < m
      BY DEF OfferOrder
    <2>1. CASE m \in DOMAIN Accepted /\ n \in DOMAIN Accepted
      BY <1>1, <2>1 DEF AuditFacts, OfferOrder
    <2>2. CASE m = last
      BY <1>1, <2>2
    <2>3. CASE m \in DOMAIN Accepted /\ n = last
      <3>1. Accepted[m].hash[1] \in acked \cup BogusIds
        BY <1>1, <2>3 DEF AuditFacts, DeletionsAreOfTheKnown
      <3>2. e.id \in Ids \ acked
        BY <1>1, <2>3 DEF Fits
      <3> QED BY <1>1, <2>3, <3>1, <3>2, IdAssumption
    <2> QED BY <1>1, <2>1, <2>2, <2>3
  <1> QED BY <1>3, <1>4, <1>5, <1>6 DEF AuditFacts

\* VerifyDelete reads, deletes and emits under one lock: no other proof of the
\* same content slips in between.
LEMMA UnprovedStep ==
  ASSUME AuditInv, NEW h \in Handlers, Accept(h) \/ Serve(h), NEW k \in Handlers
  PROVE  Unproved(k)'
  <1>0. /\ TypeInv /\ AuditFacts /\ Unproved(k) /\ Locked(k) /\ Locked(h)
    BY DEF AuditInv, AuditFacts, LifeInv
  <1> SUFFICES ASSUME pc'[k] \in {"delete", "verify"}, Copy(k)' # None,
                      NEW n \in DOMAIN Accepted', Proves(n, req[k].id)'
               PROVE  FALSE
    BY DEF Unproved, Proves
  <1>1. CASE pc[k] \in {"delete", "verify"} /\ UNCHANGED <<queue, forwarded>>
    <2>1. held'[k] = held[k] /\ req'[k] = req[k]
      <3>1. CASE k # h
        BY <1>0, <3>1, OthersStand
      <3>2. CASE k = h
        BY <1>0, <1>1, <3>2, Arrival DEF Delete, Fetch, ghostVars
      <3> QED BY <3>1, <3>2
    <2> QED BY <1>0, <1>1, <2>1 DEF Unproved, Copy, Proves, Accepted
  <1>2. CASE k = h /\ Fetch(h)
    <2>1. UNCHANGED <<req, queue, forwarded>> /\ held'[h] = Fetched(h)
      BY <1>0, <1>2 DEF Fetch, auditVars, TypeInv, TypeOK
    <2>2. req[h].id \in Ids /\ store[req[h].id] # None
      BY <1>2, <2>1 DEF Copy, Fetched, Get
    <2> QED BY <1>0, <1>2, <2>1, <2>2, ProvedIsKnown DEF Proves, Accepted
  <1>3. CASE k # h /\ pc[k] \in {"delete", "verify"} /\ ~UNCHANGED queue
    <2>1. RejectInjection(h) \/ EmitPII(h)
      <3>1. ~Verify(h)
        BY <1>0, <1>3 DEF Verify, Locked, Holding
      <3> QED BY <1>3, <3>1, StoreSteps
    <2>2. PICK e \in Event : e.type # "deletion" /\ queue' = Offer(queue, e)
      <3>1. CASE RejectInjection(h)
        <4>1. [type |-> "injection_rejected", flags |-> DetectorFlags(Text(h)),
               source |-> SourceClass(Writer(h))] \in Event
          BY <1>0, <3>1, SourceType, FlagsType
          DEF RejectInjection, TypeInv, TypeOK, StepFits, WriteSteps, WriteRequest, Writer,
              Event, InjectionRejected
        <4> QED BY <3>1, <4>1 DEF RejectInjection, Emit
      <3>2. CASE EmitPII(h)
        <4>1. [type |-> "pii_redaction", id |-> resp[h].id, flags |-> flags[h],
               source |-> SourceClass(Writer(h))] \in Event
          BY <1>0, <3>2, SourceType
          DEF EmitPII, TypeInv, TypeOK, StepFits, WriteSteps, WriteRequest, Writer, Event,
              PIIRedaction
        <4> QED BY <3>2, <4>1 DEF EmitPII, Emit
      <3> QED BY <2>1, <3>1, <3>2
    <2>3. Accepted' \in {Accepted, Append(Accepted, e)} /\ Accepted \in Seq(Event)
      BY <1>0, <2>2, OfferedIsLast, StoreSteps, AuditType DEF Accepted, TypeInv, TypeOK
    <2>4. n \in DOMAIN Accepted /\ Accepted'[n] = Accepted[n]
      BY <2>2, <2>3 DEF Proves
    <2> QED BY <1>0, <1>3, <2>4, OthersStand DEF Unproved, Copy, Proves
  <1>4. k = h => Fetch(h) \/ Delete(h)
    BY <1>0, Arrival
  <1>5. k # h => pc[k] = pc'[k]
    BY <1>0, OthersStand
  <1> QED BY <1>1, <1>2, <1>3, <1>4, <1>5, StoreSteps DEF Delete, auditVars

\* The id of an entry is not known to any client while its own event is due.
LEMMA UndisclosedStep ==
  ASSUME AuditInv, NEW h \in Handlers, Accept(h) \/ Serve(h), NEW k \in Handlers
  PROVE  Undisclosed(k)'
  <1>0. /\ TypeInv /\ TypeInv' /\ Undisclosed(k) /\ AckedIsMinted
        /\ \A j \in Handlers : IdIsMinted(j) /\ EmitsItsOwn(j)
    <2>1. TypeInv /\ [Next]_vars
      BY DEF AuditInv, LifeInv, Next
    <2> QED BY <2>1, NextType DEF AuditInv, LifeInv
  <1> SUFFICES ASSUME pc'[k] = "emit"
               PROVE  /\ (resp[k].id \notin acked)'
                      /\ \A j \in Handlers \ {k} : Disclosing(j)' => resp'[j].id # resp'[k].id
    BY DEF Undisclosed
  <1>1. CASE k = h
    <2>1. Put(h) /\ UNCHANGED acked
      BY <1>0, <1>1, Arrival DEF Put
    <2>2. PICK id \in Ids : PutOf(h, id)
      BY <1>0, <2>1, PutEffect
    <2>3. resp'[k].id = id /\ written[id] = None
      BY <1>1, <2>2 DEF PutOf, Stored
    <2>4. ASSUME NEW j \in Handlers \ {k}, Disclosing(j)' PROVE resp'[j].id # id
      BY <1>0, <1>1, <2>3, <2>4, DisclosingComes DEF IdIsMinted
    <2> QED BY <1>0, <2>1, <2>3, <2>4 DEF AckedIsMinted
  <1>2. CASE k # h
    <2>1. pc[k] = "emit" /\ resp'[k] = resp[k]
      BY <1>0, <1>2, OthersStand
    <2>2. resp[k].id \in Ids /\ Disclosing(k)
      BY <1>0, <2>1 DEF EmitsItsOwn, Disclosing, TypeInv, StepFits
    <2>3. resp[k].id \notin acked'
      <3>1. \A i \in acked' : i \in acked \/ (pc[h] = "reply" /\ i \in LearnedIds(resp[h]))
        BY StoreSteps DEF Reply
      <3>2. resp[k].id \notin acked
        BY <1>0, <2>1 DEF Undisclosed
      <3>3. pc[h] = "reply" => resp[k].id \notin LearnedIds(resp[h])
        BY <1>0, <1>2, <2>1 DEF Undisclosed, LearnedIds, Disclosing
      <3> QED BY <3>1, <3>2, <3>3
    <2>4. ASSUME NEW j \in Handlers \ {k}, Disclosing(j)' PROVE resp'[j].id # resp[k].id
      <3>1. CASE Disclosing(j) /\ resp'[j] = resp[j]
        BY <1>0, <2>1, <3>1 DEF Undisclosed
      <3>2. CASE j = h /\ Put(h)
        <4>1. PICK id \in Ids : PutOf(h, id)
          BY <1>0, <3>2, PutEffect
        <4>2. resp'[j].id = id /\ written[id] = None
          BY <3>2, <4>1 DEF PutOf, Stored
        <4> QED BY <1>0, <2>2, <4>2 DEF IdIsMinted
      <3> QED BY <1>0, <2>4, <3>1, <3>2, DisclosingComes
    <2> QED BY <2>1, <2>3, <2>4
  <1> QED BY <1>1, <1>2

LEMMA EmitKeeps ==
  ASSUME AuditInv, TypeInv', NEW h \in Handlers, RejectInjection(h) \/ EmitPII(h) \/ Verify(h)
  PROVE  AuditFacts'
  <1>0. /\ TypeInv /\ AuditFacts /\ Unproved(h) /\ Undisclosed(h) /\ IdIsAbsent(h) /\ NamesKnown(h)
    BY DEF AuditInv, AuditFacts, LifeInv
  <1>1. PICK e \in Event : queue' = Offer(queue, e) /\ Fits(e)
    <2>1. CASE RejectInjection(h)
      <3>1. [type |-> "injection_rejected", flags |-> DetectorFlags(Text(h)),
             source |-> SourceClass(Writer(h))] \in Event
        BY <1>0, <2>1, SourceType, FlagsType
        DEF RejectInjection, TypeInv, TypeOK, StepFits, WriteSteps, WriteRequest, Writer,
            Event, InjectionRejected
      <3> QED BY <2>1, <3>1 DEF RejectInjection, Emit, Fits
    <2>2. CASE EmitPII(h)
      <3>1. [type |-> "pii_redaction", id |-> resp[h].id, flags |-> flags[h],
             source |-> SourceClass(Writer(h))] \in Event
        BY <1>0, <2>2, SourceType
        DEF EmitPII, TypeInv, TypeOK, StepFits, WriteSteps, WriteRequest, Writer, Event,
            PIIRedaction
      <3>2. resp[h].id \in Ids \ acked
        BY <1>0, <2>2 DEF EmitPII, Undisclosed, TypeInv, StepFits
      <3> QED BY <2>2, <3>1, <3>2 DEF EmitPII, Emit, Fits
    <2>3. CASE Verify(h)
      <3> DEFINE e == [type |-> "deletion", residue |-> Deleted(h).residue, hash |-> Deleted(h).hash]
      <3>1. Deleted(h) \in DeleteAnswer
        BY <1>0, <2>3, DeletedType DEF Verify
      <3>2. e \in Event
        BY <3>1 DEF Event, Deletion, DeleteAnswer
      <3>3. e.type = "deletion" /\ e.hash = DeletionHash(h)
        BY DEF Deleted
      <3>4. /\ req[h].id \in acked \cup BogusIds
            /\ req[h].id \in Ids => store[req[h].id] = None
        BY <1>0, <2>3 DEF Verify, NamesKnown, IdIsAbsent
      <3>5. Copy(h) # None => \A n \in DOMAIN Accepted : ~Proves(n, req[h].id)
        BY <1>0, <2>3 DEF Verify, Unproved
      <3>6. e.hash[1] = req[h].id /\ (e.hash[2] # None => Copy(h) # None)
        BY <3>3 DEF DeletionHash
      <3>7. Fits(e)
        BY <3>3, <3>4, <3>5, <3>6 DEF Fits
      <3> QED BY <2>3, <3>2, <3>7 DEF Verify, Emit
    <2> QED BY <2>1, <2>2, <2>3
  <1>2. UNCHANGED <<store, acked, forwarded>>
    BY DEF RejectInjection, EmitPII, Verify, Emit, guardVars, ghostVars
  <1>3. Accepted' \in {Accepted, Append(Accepted, e)}
    BY <1>0, <1>1, <1>2, OfferedIsLast DEF Accepted, TypeInv, TypeOK
  <1>4. CASE Accepted' = Append(Accepted, e)
    BY <1>0, <1>1, <1>2, <1>4, AppendKeeps
  <1>5. CASE Accepted' = Accepted
    BY <1>0, <1>2, <1>5 DEF AuditFacts, ProofsAreOfTheDead, DeletionsAreOfTheKnown,
       OneProofPerEntry, OfferOrder, Proves
  <1> QED BY <1>3, <1>4, <1>5

LEMMA NextAudit == AuditInv /\ [Next]_vars => AuditInv'
  <1> SUFFICES ASSUME AuditInv, [Next]_vars PROVE AuditInv'
    OBVIOUS
  <1>1. LifeInv /\ LifeInv' /\ TypeInv /\ TypeInv' /\ AuditFacts
    BY NextLife DEF AuditInv, AuditFacts, LifeInv
  <1>2. Onward
    <2>1. \A i \in acked : i \in Ids /\ written[i] # None
      BY <1>1 DEF LifeInv, AckedIsMinted, TypeInv, TypeOK
    <2>2. acked \subseteq acked'
      BY <1>1, StoreSteps DEF Next, Reply, Drain, Crash, Quiescent, vars, ghostVars
    <2> QED BY <1>1, <2>1, <2>2, EntriesStand DEF Onward
  <1>3. Accepted \in Seq(Event) /\ queue \in Seq(Event) /\ forwarded \in Seq(Event)
    BY <1>1, AuditType DEF TypeInv, TypeOK
  <1>4. ASSUME NEW f, \A t : t = Accepted' => Thinning(t, Accepted, f) PROVE AuditFacts'
    BY <1>1, <1>2, <1>4, ThinKeeps
  <1>5. ASSUME Accepted' = Accepted PROVE AuditFacts'
    BY <1>3, <1>4, <1>5, SameIsThinning
  <1>6. ASSUME NEW h \in Handlers, Accept(h) \/ Serve(h) PROVE AuditInv'
    <2>1. AuditFacts'
      <3>1. CASE UNCHANGED queue
        <4>1. UNCHANGED forwarded
          BY <1>6, StoreSteps
        <4> QED BY <1>5, <3>1, <4>1 DEF Accepted
      <3> QED BY <1>1, <1>6, <3>1, StoreSteps, EmitKeeps
    <2> QED BY <1>1, <1>6, <2>1, UnprovedStep, UndisclosedStep DEF AuditInv, AuditFacts
  <1>7. CASE Drain
    <2>1. Accepted' = Accepted
      BY <1>3, <1>7, ForwardedIsTheSame DEF Drain, Accepted
    <2>2. \A h \in Handlers : Unproved(h)' /\ Undisclosed(h)'
      BY <1>7, <2>1, Silent DEF AuditInv, Unproved, Undisclosed, Disclosing, Copy, Proves
    <2> QED BY <1>1, <1>5, <2>1, <2>2 DEF AuditInv, AuditFacts
  <1>8. CASE Quiescent \/ UNCHANGED vars
    <2>1. UNCHANGED <<queue, forwarded>>
      BY <1>8 DEF Quiescent, vars, auditVars
    <2>2. Accepted' = Accepted
      BY <2>1 DEF Accepted
    <2>3. \A h \in Handlers : Unproved(h)' /\ Undisclosed(h)'
      BY <1>8, <2>2, Silent DEF AuditInv, Unproved, Undisclosed, Disclosing, Copy, Proves
    <2> QED BY <1>1, <1>5, <2>2, <2>3 DEF AuditInv, AuditFacts
  <1>9. CASE Crash
    <2>1. Accepted' = forwarded \o <<>>
      BY <1>9 DEF Crash, Accepted
    <2>2. \E f : \A t : t = Accepted' => Thinning(t, Accepted, f)
      BY <1>3, <2>1, PrefixIsThinning DEF Accepted
    <2>3. AuditFacts'
      BY <1>4, <2>2
    <2>4. \A h \in Handlers : Unproved(h)' /\ Undisclosed(h)'
      BY <1>1, <1>9, NoHandlerLeft DEF Unproved, Undisclosed
    <2> QED BY <1>1, <2>3, <2>4 DEF AuditInv, AuditFacts
  <1> QED BY <1>6, <1>7, <1>8, <1>9 DEF Next

(***************************************************************************)
(* However many clients race to delete one id, in however many process     *)
(* lifetimes, at most one deletion event digests its content (guard.go     *)
(* VerifyDelete, one critical section from Get to Emit).                   *)
(***************************************************************************)
THEOREM ProofsAreUnique == Spec => []OneProofPerEntry
  <1>1. AuditInv => OneProofPerEntry
    BY DEF AuditInv
  <1> QED BY <1>1, InitAudit, NextAudit, PTL DEF Spec

(***************************************************************************)
(* The sink never hands on the redaction event of an entry after its       *)
(* deletion event (guard.go ValidateWrite emits before it discloses the    *)
(* id, AsyncSink keeps the order of what it accepts).                      *)
(***************************************************************************)
THEOREM OffersAreOrdered == Spec => []OfferOrder
  <1>1. AuditInv => OfferOrder
    BY DEF AuditInv
  <1> QED BY <1>1, InitAudit, NextAudit, PTL DEF Spec

-----------------------------------------------------------------------------
(***************************************************************************)
(* MemoryGuard implements GuardContract: its initial states map to initial *)
(* states of the contract, and every step maps to a step of the contract   *)
(* or to a stutter.                                                        *)
(***************************************************************************)

(***************************************************************************)
(* What the mapping of a step rests on besides SlotInv, EntryInv and       *)
(* LifeInv: a write past the key policy was allowed to pass it, what       *)
(* VerifyDelete has copied is still the entry, and a handler that is not   *)
(* idle still carries its request.                                         *)
(***************************************************************************)
Cleared(h) ==
    /\ pc[h] \in {"baseline", "inspect", "put"} /\ Key(h) \in ReservedKeys => Writer(h).attested
    /\ pc[h] = "baseline" => Key(h) \in ReservedKeys \cup ImmutableKeys

CopyIsCurrent(h) == pc[h] = "delete" => Copy(h) = Get(req[h].id)

Carries(h) == pc[h] # "idle" => req[h] \in Request

CallInv ==
    /\ SlotInv /\ EntryInv /\ LifeInv
    /\ \A h \in Handlers : Cleared(h) /\ CopyIsCurrent(h) /\ Carries(h)

LEMMA InitCall == Init => CallInv
  BY InitSlot, InitEntry, InitLife
  DEF Init, CallInv, Cleared, CopyIsCurrent, Carries

LEMMA ClearedStep ==
  ASSUME CallInv, NEW h \in Handlers, Accept(h) \/ Serve(h), NEW k \in Handlers
  PROVE  Cleared(k)'
  <1>0. TypeInv /\ Cleared(k)
    BY DEF CallInv, SlotInv
  <1>1. CASE k # h
    <2>1. pc'[k] = pc[k] /\ req'[k] = req[k]
      BY <1>0, <1>1, OthersStand
    <2> QED BY <1>0, <2>1 DEF Cleared, Key, Writer
  <1>2. CASE k = h /\ PassGate(h)
    <2>1. pc'[h] \in {"inspect", "protected"} /\ (pc'[h] = "inspect" => Key(h) = None) /\ req' = req
      BY <1>0, <1>2 DEF PassGate, Goto, TypeInv, TypeOK
    <2>2. None \notin ReservedKeys
      BY NoneAssumption, KeyAssumption
    <2> QED BY <1>2, <2>1, <2>2 DEF Cleared, Key, Writer
  <1>3. CASE k = h /\ PassProtected(h)
    BY <1>0, <1>3 DEF PassProtected, Unauthorized, Goto, Cleared, Key, Writer, TypeInv, TypeOK
  <1>4. CASE k = h /\ (EstablishBaseline(h) \/ MatchBaseline(h) \/ FlagDrift(h) \/ Inspect(h))
    BY <1>0, <1>4 DEF EstablishBaseline, MatchBaseline, FlagDrift, Inspect, Goto, Cleared, Key,
       Writer, TypeInv, TypeOK
  <1>5. k = h /\ pc'[h] \in {"baseline", "inspect", "put"} =>
          \/ PassGate(h) \/ PassProtected(h)
          \/ EstablishBaseline(h) \/ MatchBaseline(h) \/ FlagDrift(h) \/ Inspect(h)
    BY <1>0, Arrival
  <1> QED BY <1>1, <1>2, <1>3, <1>4, <1>5 DEF Cleared

LEMMA CurrentStep ==
  ASSUME CallInv, NEW h \in Handlers, Accept(h) \/ Serve(h), NEW k \in Handlers
  PROVE  CopyIsCurrent(k)'
  <1>0. TypeInv /\ CopyIsCurrent(k) /\ Locked(k) /\ Locked(h)
    BY DEF CallInv, SlotInv, LifeInv
  <1> SUFFICES ASSUME pc'[k] = "delete" PROVE Copy(k)' = Get(req[k].id)'
    BY DEF CopyIsCurrent
  <1>1. CASE k = h
    <2>1. Fetch(h)
      BY <1>0, <1>1, Arrival
    <2>2. UNCHANGED <<req, store>> /\ held'[h] = Fetched(h)
      BY <1>0, <2>1 DEF Fetch, guardVars, TypeInv, TypeOK
    <2> QED BY <1>1, <2>2 DEF Copy, Fetched, Get
  <1>2. CASE k # h
    <2>1. pc[k] = "delete" /\ held'[k] = held[k] /\ req'[k] = req[k]
      BY <1>0, <1>2, OthersStand
    <2>2. UNCHANGED store
      BY <1>0, <1>2, <2>1, StoreSteps, ServerAssumption DEF Put, Delete, Locked, Holding
    <2> QED BY <1>0, <2>1, <2>2 DEF CopyIsCurrent, Copy, Get
  <1> QED BY <1>1, <1>2

LEMMA CarriesStep ==
  ASSUME CallInv, NEW h \in Handlers, Accept(h) \/ Serve(h), NEW k \in Handlers
  PROVE  Carries(k)'
  <1>0. TypeInv /\ TypeInv' /\ Carries(k)
    BY NextType DEF CallInv, SlotInv, Next
  <1>1. CASE k # h
    BY <1>0, <1>1, OthersStand DEF Carries
  <1>2. CASE k = h /\ Accept(h)
    <2>1. \A r, s : Begins(h, r, s) => req'[h] = r
      BY <1>0 DEF Begins, TypeInv, TypeOK
    <2>2. \A i \in acked \cup BogusIds : /\ [op |-> "review_quarantine", id |-> i] \in IdRequest
                                        /\ [op |-> "verify_delete", id |-> i] \in IdRequest
      BY <1>0 DEF IdRequest, TypeInv, TypeOK
    <2> QED BY <1>2, <2>1, <2>2, RequestAssumption DEF Accept, Carries, Request
  <1>3. CASE k = h /\ (Reply(h) \/ ReplyLost(h))
    BY <1>0, <1>3 DEF Reply, ReplyLost, Ends, Goto, Carries, TypeInv, TypeOK
  <1>4. CASE k = h /\ UNCHANGED req /\ pc[h] # "idle"
    BY <1>0, <1>4 DEF Carries
  <1>5. (UNCHANGED req /\ pc[h] # "idle") \/ Accept(h) \/ Reply(h) \/ ReplyLost(h)
    BY DEF Serve, ValidateWrite, RejectInjection, PassGate, RejectUnattested, PassProtected,
       EstablishBaseline, MatchBaseline, FlagDrift, RejectDrift, Inspect, Put, EmitPII,
       ValidateRead, ReviewQuarantine, VerifyDelete, Scan, Filter, Lookup, Review, Lock, Fetch,
       Delete, Verify
  <1> QED BY <1>1, <1>2, <1>3, <1>4, <1>5

LEMMA NextCall == CallInv /\ [Next]_vars => CallInv'
  <1> SUFFICES ASSUME CallInv, [Next]_vars PROVE CallInv'
    OBVIOUS
  <1>1. TypeInv /\ SlotInv' /\ EntryInv' /\ LifeInv'
    BY NextSlot, NextEntry, NextLife DEF CallInv, SlotInv
  <1>2. ASSUME NEW h \in Handlers PROVE Cleared(h)' /\ CopyIsCurrent(h)' /\ Carries(h)'
    <2>1. ASSUME NEW g \in Handlers, Accept(g) \/ Serve(g)
          PROVE  Cleared(h)' /\ CopyIsCurrent(h)' /\ Carries(h)'
      BY <2>1, ClearedStep, CurrentStep, CarriesStep
    <2>2. CASE Drain \/ Quiescent \/ UNCHANGED vars
      BY <2>2, Silent DEF CallInv, Cleared, CopyIsCurrent, Carries, Copy, Get, Key, Writer
    <2>3. CASE Crash
      BY <1>1, <2>3, NoHandlerLeft DEF Cleared, CopyIsCurrent, Carries
    <2> QED BY <2>1, <2>2, <2>3 DEF Next
  <1> QED BY <1>1, <1>2 DEF CallInv

-----------------------------------------------------------------------------
\* The mapping, piece by piece.
Minted == {i \in Ids : written[i] # None}

CallOf(h) == IF pc[h] = "idle" THEN None ELSE [ask |-> req[h], answer |-> Decided(h)]

Calls == [h \in Handlers |-> CallOf(h)]

LEMMA ToldForms ==
  ASSUME NEW a
  PROVE  /\ a.op = "validate_write" => Told(a) = [id |-> a.id, state |-> a.state]
         /\ a.op = "validate_read" => Told(a) = [hits |-> a.hits]
         /\ a.op = "review_quarantine" => Told(a) = [content |-> a.content]
         /\ a.op = "verify_delete" =>
              Told(a) = [confirmed |-> a.confirmed, residue |-> a.residue, hash |-> a.hash]
  <1>1. a.op = "validate_write" => Told(a) = [id |-> a.id, state |-> a.state]
    BY DEF Told
  <1>2. a.op = "validate_read" => Told(a) = [hits |-> a.hits]
    BY DEF Told
  <1>3. a.op = "review_quarantine" => Told(a) = [content |-> a.content]
    BY DEF Told
  <1>4. a.op = "verify_delete" =>
          Told(a) = [confirmed |-> a.confirmed, residue |-> a.residue, hash |-> a.hash]
    BY DEF Told
  <1> QED BY <1>1, <1>2, <1>3, <1>4

LEMMA DecidedForms ==
  ASSUME NEW h
  PROVE  /\ pc[h] \in {"emit", "reply"} => Decided(h) = Told(resp[h])
         /\ pc[h] = "filter" => Decided(h) = [hits |-> Readable(held[h])]
         /\ pc[h] = "review" => Decided(h) = Told(Reviewed(Copy(h)))
         /\ pc[h] = "verify" => Decided(h) = Told(Deleted(h))
         /\ pc[h] \notin {"emit", "reply", "filter", "review", "verify"} => Decided(h) = None
  <1>1. pc[h] \in {"emit", "reply"} => Decided(h) = Told(resp[h])
    BY DEF Decided
  <1>2. pc[h] = "filter" => Decided(h) = [hits |-> Readable(held[h])]
    BY DEF Decided
  <1>3. pc[h] = "review" => Decided(h) = Told(Reviewed(Copy(h)))
    BY DEF Decided
  <1>4. pc[h] = "verify" => Decided(h) = Told(Deleted(h))
    BY DEF Decided
  <1>5. pc[h] \notin {"emit", "reply", "filter", "review", "verify"} => Decided(h) = None
    BY DEF Decided
  <1> QED BY <1>1, <1>2, <1>3, <1>4, <1>5

\* The same of the next state.
LEMMA DecidedNext ==
  ASSUME NEW h
  PROVE  /\ pc'[h] \in {"emit", "reply"} => Decided(h)' = Told(resp'[h])
         /\ pc'[h] = "filter" => Decided(h)' = [hits |-> Readable(held'[h])]
         /\ pc'[h] = "review" => Decided(h)' = Told(Reviewed(Copy(h)'))
         /\ pc'[h] = "verify" => Decided(h)' = Told(Deleted(h)')
         /\ pc'[h] \notin {"emit", "reply", "filter", "review", "verify"} => Decided(h)' = None
  <1>1. pc'[h] \in {"emit", "reply"} => Decided(h)' = Told(resp'[h])
    BY DEF Decided
  <1>2. pc'[h] = "filter" => Decided(h)' = [hits |-> Readable(held'[h])]
    BY DEF Decided
  <1>3. pc'[h] = "review" => Decided(h)' = Told(Reviewed(Copy(h)'))
    BY DEF Decided
  <1>4. pc'[h] = "verify" => Decided(h)' = Told(Deleted(h)')
    BY DEF Decided
  <1>5. pc'[h] \notin {"emit", "reply", "filter", "review", "verify"} => Decided(h)' = None
    BY DEF Decided
  <1> QED BY <1>1, <1>2, <1>3, <1>4, <1>5

\* An answer the guard computed is one the contract may give.
LEMMA ToldType ==
  ASSUME NEW a \in Answer PROVE Told(a) \in Outcome
  <1>1. CASE a \in WriteAnswer
    BY <1>1, ToldForms DEF WriteAnswer, Outcome
  <1>2. CASE a \in ReadAnswer
    BY <1>2, ToldForms DEF ReadAnswer, Outcome
  <1>3. CASE a \in ReviewAnswer
    BY <1>3, ToldForms DEF ReviewAnswer, Outcome
  <1>4. CASE a \in DeleteAnswer
    BY <1>4, ToldForms DEF DeleteAnswer, Outcome
  <1> QED BY <1>1, <1>2, <1>3, <1>4 DEF Answer

\* What was decided for one client does not change while another is served.
LEMMA OthersDecided ==
  ASSUME CallInv, NEW h \in Handlers, Accept(h) \/ Serve(h), NEW k \in Handlers, k # h
  PROVE  CallOf(k)' = CallOf(k)
  <1>0. TypeInv /\ Locked(k) /\ Locked(h)
    BY DEF CallInv, SlotInv, LifeInv
  <1>1. /\ pc'[k] = pc[k] /\ req'[k] = req[k] /\ held'[k] = held[k] /\ resp'[k] = resp[k]
    BY <1>0, OthersStand
  <1>2. Copy(k)' = Copy(k)
    BY <1>1 DEF Copy
  <1>3. CASE pc[k] = "verify"
    <2>1. UNCHANGED store
      BY <1>0, <1>3, StoreSteps, ServerAssumption DEF Put, Delete, Locked, Holding
    <2>2. Deleted(k)' = Deleted(k)
      BY <1>1, <1>2, <2>1 DEF Deleted, Get, ResidueOf, Survivors, DeletionHash
    <2>3. Decided(k) = Told(Deleted(k)) /\ Decided(k)' = Told(Deleted(k)')
      BY <1>1, <1>3, DecidedForms, DecidedNext
    <2> QED BY <1>1, <2>2, <2>3 DEF CallOf
  <1>4. CASE pc[k] # "verify"
    <2>1. Decided(k)' = Decided(k)
      <3>1. CASE pc[k] \in {"emit", "reply"}
        <4>1. Decided(k) = Told(resp[k]) /\ Decided(k)' = Told(resp'[k])
          BY <1>1, <3>1, DecidedForms, DecidedNext
        <4> QED BY <1>1, <4>1
      <3>2. CASE pc[k] = "filter"
        BY <1>1, <3>2, DecidedForms, DecidedNext
      <3>3. CASE pc[k] = "review"
        <4>1. Decided(k) = Told(Reviewed(Copy(k))) /\ Decided(k)' = Told(Reviewed(Copy(k)'))
          BY <1>1, <3>3, DecidedForms, DecidedNext
        <4> QED BY <1>2, <4>1
      <3>4. CASE pc[k] \notin {"emit", "reply", "filter", "review", "verify"}
        BY <1>1, <3>4, DecidedForms, DecidedNext
      <3> QED BY <1>4, <3>1, <3>2, <3>3, <3>4
    <2> QED BY <1>1, <2>1 DEF CallOf
  <1> QED BY <1>3, <1>4

LEMMA CallMoves ==
  ASSUME CallInv, NEW h \in Handlers, Accept(h) \/ Serve(h)
  PROVE  Calls' = [Calls EXCEPT ![h] = CallOf(h)']
  BY OthersDecided DEF Calls

-----------------------------------------------------------------------------
(***************************************************************************)
(* Each step of the guard, as the contract sees it.                        *)
(***************************************************************************)
\* The contract's copies of the vocabulary say the same as the guard's.
LEMMA SameWords ==
  /\ Contract!IdRequest = IdRequest
  /\ \A r, w : Contract!MayRead(r, w) <=> MayRead(r, w)
  BY DEF Contract!IdRequest, IdRequest, Contract!MayRead, MayRead, Contract!Identified, Identified,
     Contract!Unbound, Unbound

LEMMA MemStands ==
  ASSUME UNCHANGED <<store, written>> PROVE Mem' = Mem /\ Minted' = Minted
  BY DEF Mem, Minted

\* A pending call: its record before the step, and after one that answers it.
LEMMA PendingCall ==
  ASSUME CallInv, NEW h \in Handlers, pc[h] # "idle", Decided(h) = None
  PROVE  /\ Calls[h] = [ask |-> req[h], answer |-> None]
         /\ Calls[h] # None
  <1>1. Calls[h] = [ask |-> req[h], answer |-> None]
    BY DEF Calls, CallOf
  <1>2. [ask |-> req[h], answer |-> None] \in Asked
    BY DEF CallInv, Carries, Asked
  <1> QED BY <1>1, <1>2, MappingAssumption

LEMMA AcceptMaps ==
  ASSUME CallInv, NEW h \in Handlers, Accept(h)
  PROVE  Contract!Call(h)
  <1>0. TypeInv
    BY DEF CallInv, SlotInv
  <1>1. Calls[h] = None /\ UNCHANGED <<Mem, Minted, baselines>>
    BY MemStands DEF Accept, Calls, CallOf, guardVars
  <1>2. PICK r \in WriteRequests \cup ReadRequests \cup IdRequest :
          req'[h] = r /\ pc'[h] \in {"gate", "scan", "lookup", "lock"}
    <2>1. \A i \in acked \cup BogusIds : /\ [op |-> "review_quarantine", id |-> i] \in IdRequest
                                        /\ [op |-> "verify_delete", id |-> i] \in IdRequest
      BY <1>0 DEF IdRequest, TypeInv, TypeOK
    <2> QED BY <1>0, <2>1 DEF Accept, Begins, TypeInv, TypeOK
  <1>3. CallOf(h)' = [ask |-> r, answer |-> None]
    BY <1>2, DecidedNext DEF CallOf
  <1>4. Calls' = [Calls EXCEPT ![h] = [ask |-> r, answer |-> None]]
    BY <1>3, CallMoves
  <1> QED BY <1>1, <1>2, <1>4, SameWords DEF Contract!Call, Calls, CallOf, Minted

\* A refused write: nothing but the answer changes.
LEMMA RefuseMaps ==
  ASSUME CallInv, NEW h \in Handlers,
         RejectInjection(h) \/ RejectUnattested(h) \/ RejectDrift(h)
  PROVE  Contract!Refuse(h)
  <1>0. TypeInv /\ Serve(h)
    BY DEF CallInv, SlotInv, Serve, ValidateWrite
  <1>1. /\ req[h] \in WriteRequest /\ pc[h] \in {"gate", "protected", "baseline"}
        /\ pc'[h] = "reply" /\ UNCHANGED <<req, store, written, baselines>>
        /\ \E fs : resp'[h] = Blocked(fs)
    BY <1>0 DEF RejectInjection, RejectUnattested, RejectDrift, Answers, Goto, TypeInv, TypeOK,
       StepFits, WriteSteps, guardVars, ghostVars
  <1>2. /\ Calls[h] = [ask |-> req[h], answer |-> None] /\ Calls[h] # None
        /\ req[h].op = "validate_write"
    BY <1>1, PendingCall, DecidedForms DEF WriteRequest
  <1>3. Told(resp'[h]) = [id |-> None, state |-> "block"]
    BY <1>1, ToldForms DEF Blocked
  <1>4. CallOf(h)' = [ask |-> req[h], answer |-> [id |-> None, state |-> "block"]]
    BY <1>1, <1>3, DecidedNext DEF CallOf
  <1>5. Calls' = [Calls EXCEPT ![h].answer = [id |-> None, state |-> "block"]]
    BY <1>0, <1>2, <1>4, CallMoves DEF Calls
  <1>6. \/ req[h].text \in Injected
        \/ req[h].key \in ReservedKeys /\ ~req[h].who.attested
        \/ req[h].key \in ReservedKeys /\ baselines[req[h].key] \notin {None, Redact[req[h].text]}
    BY DEF RejectInjection, RejectUnattested, RejectDrift, DetectorFlags, Unauthorized, Drifts,
       Key, Text, Writer, Redacted
  <1>7. UNCHANGED <<Mem, Minted, baselines>>
    BY <1>1, MemStands
  <1> QED BY <1>2, <1>5, <1>6, <1>7
       DEF Contract!Refuse, Contract!Pending, Contract!Ask, Contract!Answers, Contract!Forbidden,
           Contract!Contradicts, Calls, CallOf, Minted

\* A step after which the client of h waits for the same answer, or has been given one.
LEMMA CallStands ==
  ASSUME CallInv, NEW h \in Handlers, Accept(h) \/ Serve(h), pc[h] # "idle", pc'[h] # "idle",
         req'[h] = req[h], Decided(h)' = Decided(h)
  PROVE  Calls' = Calls
  <1>1. CallOf(h)' = CallOf(h)
    BY DEF CallOf
  <1> QED BY <1>1, CallMoves DEF Calls

LEMMA CallAnswered ==
  ASSUME CallInv, NEW h \in Handlers, Accept(h) \/ Serve(h), pc[h] # "idle", pc'[h] # "idle",
         req'[h] = req[h], Decided(h) = None, NEW a, Decided(h)' = a
  PROVE  Calls' = [Calls EXCEPT ![h].answer = a]
  <1>1. CallOf(h)' = [ask |-> req[h], answer |-> a] /\ Calls[h] = [ask |-> req[h], answer |-> None]
    BY DEF CallOf, Calls
  <1> QED BY <1>1, CallMoves DEF Calls

\* The first write of a reserved or immutable slot pins it.
LEMMA EstablishMaps ==
  ASSUME CallInv, NEW h \in Handlers, EstablishBaseline(h)
  PROVE  Contract!Pin(h)
  <1>0. TypeInv /\ Serve(h) /\ Cleared(h) /\ GateHeld(h)
    BY DEF CallInv, SlotInv, EntryInv, Serve, ValidateWrite
  <1>1. /\ req[h] \in WriteRequest /\ pc[h] = "baseline" /\ pc'[h] = "inspect"
        /\ UNCHANGED <<req, store, written>>
        /\ baselines[req[h].key] = None
        /\ baselines' = [baselines EXCEPT ![req[h].key] = Redact[req[h].text]]
    BY <1>0 DEF EstablishBaseline, Goto, Key, Redacted, Text, TypeInv, TypeOK, StepFits, WriteSteps,
       ghostVars
  <1>2. Decided(h) = None /\ Decided(h)' = None
    BY <1>1, DecidedForms, DecidedNext
  <1>3. /\ Calls[h] = [ask |-> req[h], answer |-> None] /\ Calls[h] # None
        /\ req[h].op = "validate_write"
    BY <1>1, <1>2, PendingCall DEF WriteRequest
  <1>4. UNCHANGED <<Calls, Mem, Minted>>
    BY <1>0, <1>1, <1>2, CallStands, MemStands
  <1>5. /\ req[h].text \notin Injected
        /\ req[h].key \in ReservedKeys => req[h].who.attested
        /\ req[h].key \in ReservedKeys \cup ImmutableKeys
    BY <1>0, <1>1 DEF Cleared, GateHeld, PastGate, Key, Writer, Text
  <1> QED BY <1>1, <1>3, <1>4, <1>5
       DEF Contract!Pin, Contract!Pending, Contract!Ask, Contract!Forbidden, Calls, CallOf, Minted

\* What the contract knows of a stored entry is what the entry says.
LEMMA MemForm ==
  ASSUME CallInv, NEW i \in Ids
  PROVE  /\ store[i] = None <=> Mem[i] = None
         /\ store[i] # None =>
              /\ Mem[i].who = written[i].who /\ Mem[i].text = written[i].text
              /\ Mem[i].who \in Principals
              /\ store[i].content \in Contents /\ store[i].content = Redact[Mem[i].text]
              /\ store[i].boundIdentity = BoundKeyFor(Mem[i].who)
              /\ store[i].quarantined <=> Mem[i].text \in Borderline
  <1>0. TypeInv /\ StoreIsGenuine
    BY DEF CallInv, EntryInv
  <1>1. store[i] # None => Genuine(i, store[i]) /\ written[i] \in Author /\ store[i] \in Entry
    BY <1>0 DEF StoreIsGenuine, Genuine, TypeInv, TypeOK
  <1>2. store[i] # None =>
          [who |-> written[i].who, text |-> written[i].text, key |-> written[i].key] \in Kept
    BY <1>1 DEF Author, Kept
  <1>3. store[i] # None =>
          Mem[i] = [who |-> written[i].who, text |-> written[i].text, key |-> written[i].key]
    BY DEF Mem
  <1>4. store[i] = None => Mem[i] = None
    BY DEF Mem
  <1> QED BY <1>1, <1>2, <1>3, <1>4, MappingAssumption DEF Genuine, Author, Entry

\* Put is the instant a write takes effect.
LEMMA PutMaps ==
  ASSUME CallInv, NEW h \in Handlers, Put(h)
  PROVE  Contract!Keep(h)
  <1>0. TypeInv /\ Serve(h) /\ Cleared(h) /\ GateHeld(h) /\ WritersMatchBaseline
    BY DEF CallInv, SlotInv, EntryInv, Serve, ValidateWrite
  <1> DEFINE kept == [who |-> req[h].who, text |-> req[h].text, key |-> req[h].key]
             state == IF req[h].text \in Borderline THEN "quarantine" ELSE "allow"
  <1>1. /\ req[h] \in WriteRequest /\ pc[h] = "put" /\ pc'[h] \in {"emit", "reply"}
        /\ UNCHANGED <<req, baselines>>
    BY <1>0 DEF Put, Goto, TypeInv, TypeOK, StepFits, WriteSteps
  <1>2. PICK id \in Ids : PutOf(h, id)
    BY <1>0, PutEffect
  <1>3. Decided(h) = None /\ Decided(h)' = Told(resp'[h])
    BY <1>1, DecidedForms, DecidedNext
  <1>4. /\ Calls[h] = [ask |-> req[h], answer |-> None] /\ Calls[h] # None
        /\ req[h].op = "validate_write"
    BY <1>1, <1>3, PendingCall DEF WriteRequest
  <1>5. /\ req[h].text \notin Injected
        /\ "borderline_suspected" \in flags[h] <=> req[h].text \in Borderline
        /\ req[h].key \in ReservedKeys =>
             req[h].who.attested /\ baselines[req[h].key] = Redact[req[h].text]
    BY <1>0, <1>1
    DEF Cleared, GateHeld, PastGate, WritersMatchBaseline, Policed, Key, Writer, Text, Redacted
  <1>6. Told(resp'[h]) = [id |-> id, state |-> state]
    <2>1. resp'[h] = Stored(h, id)
      BY <1>2 DEF PutOf
    <2>2. /\ Stored(h, id).op = "validate_write" /\ Stored(h, id).id = id
          /\ Stored(h, id).state = state
      BY <1>5 DEF Stored, EntryOf
    <2> QED BY <2>1, <2>2, ToldForms
  <1>7. Calls' = [Calls EXCEPT ![h].answer = [id |-> id, state |-> state]]
    BY <1>0, <1>1, <1>3, <1>6, CallAnswered
  <1>8. Mem' = [Mem EXCEPT ![id] = kept]
    <2>1. ASSUME NEW i \in Ids PROVE Mem'[i] = IF i = id THEN kept ELSE Mem[i]
      BY <1>2 DEF PutOf, Mem, Writer, Text, Key
    <2>2. Mem = [i \in Ids |-> Mem[i]] /\ Mem' = [i \in Ids |-> Mem'[i]]
      BY DEF Mem
    <2> QED BY <2>1, <2>2
  <1>9. id \in Ids \ Minted /\ Minted' = Minted \cup {id}
    BY <1>2 DEF PutOf, Minted
  <1> HIDE DEF kept, state
  <1> QED BY <1>1, <1>4, <1>5, <1>7, <1>8, <1>9
       DEF Contract!Keep, Contract!Pending, Contract!Ask, Contract!Answers, Contract!Forbidden,
           Calls, CallOf, Minted, kept, state

\* Scan is the instant a read takes effect: the copy holds the entries the
\* contract shows the reader, and Readable tells of them what it tells.
LEMMA ScanMaps ==
  ASSUME CallInv, NEW h \in Handlers, Scan(h)
  PROVE  Contract!Look(h)
  <1>0. TypeInv /\ Serve(h)
    BY DEF CallInv, SlotInv, Serve, ValidateRead
  <1> DEFINE copy == ScanScoped(req[h].query, VisibleKeys(req[h].who))
             hits == {<<i, Redact[Mem[i].text]>> : i \in {j \in Ids : Contract!Visible(req[h], j)}}
  <1>1. /\ req[h] \in ReadRequest /\ pc[h] = "scan" /\ pc'[h] = "filter" /\ held'[h] = copy
        /\ UNCHANGED <<req, store, written, baselines>>
    BY <1>0 DEF Scan, Goto, TypeInv, TypeOK, StepFits, guardVars, ghostVars
  <1>2. Decided(h) = None /\ Decided(h)' = [hits |-> Readable(copy)]
    BY <1>1, DecidedForms, DecidedNext
  <1>3. /\ Calls[h] = [ask |-> req[h], answer |-> None] /\ Calls[h] # None
        /\ req[h].op = "validate_read" /\ req[h].who \in Principals
    BY <1>1, <1>2, PendingCall DEF ReadRequest
  <1>4. ASSUME NEW i \in Ids
        PROVE  /\ copy[i] # None /\ ~copy[i].quarantined <=> Contract!Visible(req[h], i)
               /\ copy[i] # None => Redact[copy[i].content] = Redact[Mem[i].text]
    <2>1. store[i] # None /\ store[i].boundIdentity \in VisibleKeys(req[h].who)
          <=> store[i] # None /\ MayRead(req[h].who, Mem[i].who)
      BY <1>3, MemForm, KeysDecide
    <2>2. Contract!Visible(req[h], i) <=>
            /\ store[i] # None /\ store[i].content \in req[h].query /\ ~store[i].quarantined
            /\ store[i].boundIdentity \in VisibleKeys(req[h].who)
      BY <2>1, MemForm, SameWords DEF Contract!Visible, Mem
    <2>3. copy[i] \in {None, store[i]} /\ (copy[i] # None <=>
            /\ store[i] # None /\ store[i].content \in req[h].query
            /\ store[i].boundIdentity \in VisibleKeys(req[h].who))
      BY DEF ScanScoped
    <2>4. store[i] # None => Redact[store[i].content] = Redact[Mem[i].text]
      BY MemForm, DetectorAssumption
    <2> QED BY <2>2, <2>3, <2>4
  <1>5. Readable(copy) = hits
    BY <1>4 DEF Readable
  <1>6. Calls' = [Calls EXCEPT ![h].answer = [hits |-> hits]]
    BY <1>0, <1>1, <1>2, <1>5, CallAnswered
  <1>7. UNCHANGED <<Mem, Minted, baselines>>
    BY <1>1, MemStands
  <1>8. Calls' = [Calls EXCEPT ![h].answer =
                    [hits |-> {<<i, Redact[Mem[i].text]>> :
                                 i \in {j \in Ids : Contract!Visible(Calls[h].ask, j)}}]]
    BY <1>3, <1>6
  <1> QED BY <1>3, <1>7, <1>8
       DEF Contract!Look, Contract!Pending, Contract!Ask, Contract!Answers, Calls, CallOf, Minted, Mem

\* Lookup is the instant a review takes effect.
LEMMA LookupMaps ==
  ASSUME CallInv, NEW h \in Handlers, Lookup(h)
  PROVE  Contract!Review(h)
  <1>0. TypeInv /\ Serve(h)
    BY DEF CallInv, SlotInv, Serve, ReviewQuarantine
  <1> DEFINE id == req[h].id
             shown == IF Contract!Isolated(id) THEN Redact[Contract!At(id).text] ELSE None
  <1>1. /\ req[h] \in IdRequest /\ req[h].op = "review_quarantine"
        /\ pc[h] = "lookup" /\ pc'[h] = "review"
        /\ held'[h] = Fetched(h) /\ UNCHANGED <<req, store, written, baselines>>
    BY <1>0 DEF Lookup, Goto, TypeInv, TypeOK, StepFits, guardVars, ghostVars
  <1>2. Copy(h)' = Get(id)
    BY <1>1 DEF Copy, Fetched, Get
  <1>3. Decided(h) = None /\ Decided(h)' = Told(Reviewed(Get(id)))
    BY <1>1, <1>2, DecidedForms, DecidedNext
  <1>4. Calls[h] = [ask |-> req[h], answer |-> None] /\ Calls[h] # None
    BY <1>1, <1>3, PendingCall
  <1>5. Reviewed(Get(id)).op = "review_quarantine" /\ Reviewed(Get(id)).content = shown
    <2>1. CASE id \in Ids /\ store[id] # None
      <3>1. /\ Contract!At(id) # None /\ Get(id) = store[id]
            /\ Contract!Isolated(id) <=> store[id].quarantined
            /\ Redact[Contract!At(id).text] = store[id].content
            /\ Redact[store[id].content] = store[id].content
        BY <2>1, MemForm, DetectorAssumption DEF Contract!Isolated, Contract!At, Mem, Get
      <3> QED BY <2>1, <3>1 DEF Reviewed, NotFound
    <2>2. CASE ~(id \in Ids /\ store[id] # None)
      <3>1. Get(id) = None /\ ~Contract!Isolated(id)
        BY <2>2, MemForm DEF Contract!Isolated, Contract!At, Mem, Get
      <3> QED BY <3>1 DEF Reviewed, NotFound
    <2> QED BY <2>1, <2>2
  <1>6. Told(Reviewed(Get(id))) = [content |-> shown]
    BY <1>5, ToldForms
  <1>7. Calls' = [Calls EXCEPT ![h].answer = [content |-> shown]]
    BY <1>0, <1>1, <1>3, <1>6, CallAnswered
  <1>8. UNCHANGED <<Mem, Minted, baselines>>
    BY <1>1, MemStands
  <1>9. Calls' = [Calls EXCEPT ![h].answer =
                    [content |-> IF Contract!Isolated(Calls[h].ask.id)
                                 THEN Redact[Contract!At(Calls[h].ask.id).text] ELSE None]]
    BY <1>4, <1>7
  <1> QED BY <1>1, <1>4, <1>8, <1>9
       DEF Contract!Review, Contract!Pending, Contract!Ask, Contract!Answers, Calls, CallOf, Minted,
           Mem

\* Delete is the instant a deletion takes effect: g.mu is held from the fetch to
\* the residue scan, so the verdict is fixed as soon as the entry has gone.
LEMMA DeleteMaps ==
  ASSUME CallInv, NEW h \in Handlers, Delete(h)
  PROVE  Contract!Forget(h)
  <1>0. TypeInv /\ Serve(h) /\ CopyIsCurrent(h)
    BY DEF CallInv, SlotInv, Serve, VerifyDelete
  <1> DEFINE id == req[h].id
  <1>1. /\ req[h] \in IdRequest /\ req[h].op = "verify_delete"
        /\ pc[h] = "delete" /\ pc'[h] = "verify" /\ UNCHANGED <<req, held, written, baselines>>
    BY <1>0 DEF Delete, Goto, TypeInv, TypeOK, StepFits, DeleteSteps, ghostVars
  <1>2. Copy(h)' = Copy(h) /\ Copy(h) = Get(id)
    BY <1>0, <1>1 DEF Copy, CopyIsCurrent
  <1>3. Decided(h) = None /\ Decided(h)' = Told(Deleted(h)')
    BY <1>1, DecidedForms, DecidedNext
  <1>4. Calls[h] = [ask |-> req[h], answer |-> None] /\ Calls[h] # None
    BY <1>1, <1>3, PendingCall
  <1>5. \A i \in Ids : store'[i] = IF i = id THEN None ELSE store[i]
    BY <1>0, DeleteEffect
  <1>6. Get(id)' = None
    BY <1>1, <1>5 DEF Get
  <1>7. (IF Get(id) = None THEN None ELSE Get(id).content) = Contract!ContentAt(id)
    <2>1. CASE id \in Ids
      BY <2>1, MemForm DEF Get, Contract!ContentAt, Contract!At, Mem
    <2>2. CASE id \notin Ids
      BY <2>2 DEF Get, Contract!ContentAt, Contract!At
    <2> QED BY <2>1, <2>2
  <1>8. ResidueOf(Copy(h))' <=> Contract!ResidueOf(id)
    <2>1. ResidueOf(Copy(h))' <=>
            Get(id) # None /\ \E i \in Ids \ {id} :
              store[i] # None /\ <<Get(id).content, store[i].content>> \in Residual
      BY <1>2, <1>5 DEF ResidueOf, Survivors
    <2>2. \A i \in Ids : Mem[i] # None <=> store[i] # None
      BY MemForm
    <2>3. \A i \in Ids : store[i] # None => Redact[Mem[i].text] = store[i].content
      BY MemForm
    <2>4. Contract!ResidueOf(id) <=>
            \E i \in Ids \ {id} :
              store[i] # None /\ <<Contract!ContentAt(id), store[i].content>> \in Residual
      BY <2>2, <2>3 DEF Contract!ResidueOf, Mem
    <2>5. \A i \in Ids : <<None, store[i].content>> \notin Residual
      BY DetectorAssumption, NoneAssumption
    <2> QED BY <1>7, <2>1, <2>4, <2>5
  <1>9. Told(Deleted(h)') = [confirmed |-> TRUE, residue |-> Contract!ResidueOf(id),
                             hash |-> <<id, Contract!ContentAt(id)>>]
    <2>1. /\ (Deleted(h)').op = "verify_delete"
          /\ (Deleted(h)').confirmed = (Get(id)' = None)
          /\ (Deleted(h)').residue = ResidueOf(Copy(h))'
          /\ (Deleted(h)').hash = <<id, IF Copy(h)' = None THEN None ELSE Copy(h)'.content>>
      BY <1>1 DEF Deleted, DeletionHash, Get
    <2>2. (Deleted(h)').residue = Contract!ResidueOf(id)
      BY <1>8, <2>1 DEF ResidueOf, Contract!ResidueOf
    <2>3. (Deleted(h)').hash = <<id, Contract!ContentAt(id)>>
      BY <1>2, <1>7, <2>1
    <2>4. (Deleted(h)').confirmed = TRUE
      BY <1>6, <2>1
    <2> QED BY <2>1, <2>2, <2>3, <2>4, ToldForms
  <1>10. Calls' = [Calls EXCEPT ![h].answer =
                     [confirmed |-> TRUE, residue |-> Contract!ResidueOf(id),
                      hash |-> <<id, Contract!ContentAt(id)>>]]
    BY <1>0, <1>1, <1>3, <1>9, CallAnswered
  <1>11. Mem' = [i \in Ids |-> IF i = id THEN None ELSE Mem[i]]
    BY <1>1, <1>5 DEF Mem
  <1>12. Minted' = Minted
    BY <1>1 DEF Minted
  <1>13. Calls' = [Calls EXCEPT ![h].answer =
                     [confirmed |-> TRUE, residue |-> Contract!ResidueOf(Calls[h].ask.id),
                      hash |-> <<Calls[h].ask.id, Contract!ContentAt(Calls[h].ask.id)>>]]
    BY <1>4, <1>10
  <1>14. Mem' = [i \in Ids |-> IF i = Calls[h].ask.id THEN None ELSE Mem[i]]
    BY <1>4, <1>11
  <1> QED BY <1>1, <1>4, <1>12, <1>13, <1>14
       DEF Contract!Forget, Contract!Pending, Contract!Ask, Contract!Answers, Calls, CallOf, Minted,
           Mem

\* The client has its answer, or its connection is gone.
LEMMA ReplyMaps ==
  ASSUME CallInv, NEW h \in Handlers, Reply(h) \/ ReplyLost(h)
  PROVE  Contract!Return(h)
  <1>0. TypeInv /\ Serve(h)
    BY DEF CallInv, SlotInv, Serve
  <1>1. /\ pc[h] = "reply" /\ resp[h] \in Answer /\ pc'[h] = "idle"
        /\ UNCHANGED <<store, written, baselines>>
    BY <1>0 DEF Reply, ReplyLost, Ends, Goto, TypeInv, TypeOK, StepFits, guardVars
  <1>2. Decided(h) \in Outcome
    BY <1>1, DecidedForms, ToldType
  <1>3. Calls[h] = [ask |-> req[h], answer |-> Decided(h)]
    BY <1>1 DEF Calls, CallOf
  <1>4. Calls[h] # None /\ Calls[h].answer # None
    <2>1. req[h] \in Request
      BY <1>1 DEF CallInv, Carries
    <2> QED BY <1>2, <1>3, <2>1, MappingAssumption DEF Asked
  <1>5. Calls' = [Calls EXCEPT ![h] = None]
    BY <1>0, <1>1, CallMoves DEF CallOf
  <1>6. UNCHANGED <<Mem, Minted, baselines>>
    BY <1>1, MemStands
  <1> QED BY <1>4, <1>5, <1>6 DEF Contract!Return, Calls, CallOf, Minted, Mem

LEMMA CrashMaps ==
  ASSUME CallInv, Crash
  PROVE  Contract!Restart
  <1>1. Calls' = [h \in Handlers |-> None]
    <2>1. \A h \in Handlers : pc'[h] = "idle"
      BY NoHandlerLeft DEF CallInv, SlotInv
    <2> QED BY <2>1 DEF Calls, CallOf
  <1>2. Mem' = IF Durable THEN Mem ELSE [i \in Ids |-> None]
    BY DEF Crash, Reopened, Nothing, Mem
  <1>3. Minted' = Minted /\ baselines' = [k \in Keys |-> None]
    BY DEF Crash, Minted
  <1> QED BY <1>1, <1>2, <1>3 DEF Contract!Restart, Calls, CallOf, Minted, Mem

-----------------------------------------------------------------------------
\* Every other step is inside the guard: the contract does not see it.
Hidden == UNCHANGED <<Mem, Minted, baselines, Calls>>

LEMMA WriteHidden ==
  ASSUME CallInv, NEW h \in Handlers,
         PassGate(h) \/ PassProtected(h) \/ MatchBaseline(h) \/ FlagDrift(h) \/ Inspect(h)
  PROVE  Hidden
  <1>0. TypeInv /\ Serve(h)
    BY DEF CallInv, SlotInv, Serve, ValidateWrite
  <1>1. /\ pc[h] \in {"gate", "protected", "baseline", "inspect"}
        /\ pc'[h] \in {"protected", "baseline", "inspect", "put"}
        /\ UNCHANGED <<req, store, written, baselines>>
    BY <1>0 DEF PassGate, PassProtected, MatchBaseline, FlagDrift, Inspect, Goto, TypeInv, TypeOK,
       guardVars, ghostVars
  <1>2. Decided(h) = None /\ Decided(h)' = None
    BY <1>1, DecidedForms, DecidedNext
  <1> QED BY <1>0, <1>1, <1>2, CallStands, MemStands DEF Hidden

LEMMA LockHidden ==
  ASSUME CallInv, NEW h \in Handlers, Lock(h) \/ Fetch(h)
  PROVE  Hidden
  <1>0. TypeInv /\ Serve(h)
    BY DEF CallInv, SlotInv, Serve, VerifyDelete
  <1>1. /\ pc[h] \in {"lock", "fetch"} /\ pc'[h] \in {"fetch", "delete"}
        /\ UNCHANGED <<req, store, written, baselines>>
    BY <1>0 DEF Lock, Fetch, Goto, TypeInv, TypeOK, guardVars, ghostVars
  <1>2. Decided(h) = None /\ Decided(h)' = None
    BY <1>1, DecidedForms, DecidedNext
  <1> QED BY <1>0, <1>1, <1>2, CallStands, MemStands DEF Hidden

\* The answer written is the one that was decided.
LEMMA AnswerHidden ==
  ASSUME CallInv, NEW h \in Handlers, EmitPII(h) \/ Filter(h) \/ Review(h) \/ Verify(h)
  PROVE  Hidden
  <1>0. TypeInv /\ Serve(h)
    BY DEF CallInv, SlotInv, Serve, ValidateWrite, ValidateRead, ReviewQuarantine, VerifyDelete
  <1>1. /\ pc[h] \in {"emit", "filter", "review", "verify"} /\ pc'[h] = "reply"
        /\ UNCHANGED <<req, store, written, baselines>>
    BY <1>0 DEF EmitPII, Filter, Review, Verify, Answers, Goto, TypeInv, TypeOK, guardVars,
       ghostVars
  <1>2. Decided(h)' = Told(resp'[h])
    BY <1>1, DecidedNext
  <1>3. CASE EmitPII(h)
    <2>1. pc[h] = "emit" /\ resp'[h] = resp[h]
      BY <1>3 DEF EmitPII
    <2> QED BY <1>0, <1>1, <1>2, <2>1, DecidedForms, CallStands, MemStands DEF Hidden
  <1>4. CASE Filter(h)
    <2>1. /\ pc[h] = "filter"
          /\ resp'[h] = [op |-> "validate_read", hits |-> Readable(held[h])]
      BY <1>0, <1>4 DEF Filter, Answers, TypeInv, TypeOK
    <2>2. Told(resp'[h]) = [hits |-> Readable(held[h])]
      BY <2>1, ToldForms
    <2> QED BY <1>0, <1>1, <1>2, <2>1, <2>2, DecidedForms, CallStands, MemStands DEF Hidden
  <1>5. CASE Review(h)
    <2>1. pc[h] = "review" /\ resp'[h] = Reviewed(Copy(h))
      BY <1>0, <1>5 DEF Review, Answers, TypeInv, TypeOK
    <2>2. Decided(h) = Told(resp'[h])
      BY <2>1, DecidedForms
    <2> QED BY <1>0, <1>1, <1>2, <2>2, CallStands, MemStands DEF Hidden
  <1>6. CASE Verify(h)
    <2>1. pc[h] = "verify" /\ resp'[h] = Deleted(h)
      BY <1>0, <1>6, AnswerKinds DEF Verify
    <2>2. Decided(h) = Told(resp'[h])
      BY <2>1, DecidedForms
    <2> QED BY <1>0, <1>1, <1>2, <2>2, CallStands, MemStands DEF Hidden
  <1> QED BY <1>3, <1>4, <1>5, <1>6

\* No copy of a call depends on what these steps change.
LEMMA SilentHidden ==
  ASSUME Drain \/ Quiescent \/ UNCHANGED vars
  PROVE  Hidden
  <1>1. UNCHANGED <<pc, req, held, resp, store, written>>
    BY Silent
  <1>2. UNCHANGED baselines
    BY DEF Drain, Quiescent, vars, guardVars
  <1>3. UNCHANGED <<Mem, Minted>>
    BY <1>1, MemStands
  <1>4. ASSUME NEW h \in Handlers PROVE CallOf(h)' = CallOf(h)
    <2>1. Copy(h)' = Copy(h)
      BY <1>1 DEF Copy
    <2>2. Deleted(h)' = Deleted(h)
      BY <1>1, <2>1 DEF Deleted, Get, ResidueOf, Survivors, DeletionHash
    <2>3. Decided(h)' = Decided(h)
      BY <1>1, <2>1, <2>2 DEF Decided
    <2> QED BY <1>1, <2>3 DEF CallOf
  <1> QED BY <1>2, <1>3, <1>4 DEF Hidden, Calls

-----------------------------------------------------------------------------
LEMMA InitMaps == Init => Contract!Init
  BY DEF Init, Nothing, Contract!Init, Mem

LEMMA ServeMaps ==
  ASSUME CallInv, NEW h \in Handlers, Accept(h) \/ Serve(h)
  PROVE  \/ Contract!Call(h) \/ Contract!Return(h)
         \/ Contract!Refuse(h) \/ Contract!Pin(h) \/ Contract!Keep(h)
         \/ Contract!Look(h) \/ Contract!Review(h) \/ Contract!Forget(h)
         \/ Hidden
  <1>1. CASE ValidateWrite(h)
    BY <1>1, RefuseMaps, EstablishMaps, PutMaps, WriteHidden, AnswerHidden DEF ValidateWrite
  <1>2. CASE ValidateRead(h) \/ ReviewQuarantine(h) \/ VerifyDelete(h)
    BY <1>2, ScanMaps, LookupMaps, DeleteMaps, LockHidden, AnswerHidden
    DEF ValidateRead, ReviewQuarantine, VerifyDelete
  <1> QED BY <1>1, <1>2, AcceptMaps, ReplyMaps DEF Serve

LEMMA NextMaps == CallInv /\ [Next]_vars => [Contract!Next]_Contract!vars
  <1> SUFFICES ASSUME CallInv, [Next]_vars PROVE [Contract!Next]_Contract!vars
    OBVIOUS
  <1>1. ASSUME Hidden PROVE UNCHANGED Contract!vars
    BY <1>1 DEF Hidden, Contract!vars, Calls, CallOf, Minted
  <1>2. ASSUME NEW h \in Handlers, Accept(h) \/ Serve(h)
        PROVE  [Contract!Next]_Contract!vars
    BY <1>1, <1>2, ServeMaps DEF Contract!Next
  <1>3. CASE Crash
    BY <1>3, CrashMaps DEF Contract!Next
  <1>4. CASE Drain \/ Quiescent \/ UNCHANGED vars
    BY <1>1, <1>4, SilentHidden
  <1> QED BY <1>2, <1>3, <1>4 DEF Next

(***************************************************************************)
(* The guard implements its contract: with its local copies, derived keys, *)
(* one mutex, crashes and lost replies, every request still takes effect   *)
(* at one instant between its arrival and its answer (guard.go, keys.go,   *)
(* principal.go).                                                          *)
(***************************************************************************)
THEOREM GuardMeetsContract == Spec => ImplementsContract
  BY InitCall, NextCall, InitMaps, NextMaps, PTL DEF Spec, ImplementsContract, Contract!Spec

=============================================================================
