----------------------------- MODULE AsyncSink -----------------------------
(***************************************************************************)
(* The audit emission path of a serving guard (audit.go AsyncSink around   *)
(* audit_trail_sink.go AuditTrailSink): verbs offer events to a bounded    *)
(* channel without blocking, one goroutine takes them from it and makes a  *)
(* dial, write, read exchange with the audit-trail service for each, and   *)
(* Close tells it to finish.                                               *)
(*                                                                         *)
(* The service is external.  It handles every connection on its own, so a  *)
(* line the client wrote may be appended to the trail after the client's   *)
(* deadline has passed and the connection is closed.                       *)
(***************************************************************************)
EXTENDS Naturals, Sequences, FiniteSets

CONSTANTS Events,      \* the events offered, one for each call of Emit
          Capacity,    \* buffer size
          None

ASSUME SinkAssumption == Capacity \in Nat \ {0} /\ None \notin Events

VARIABLES
    ch,          \* the buffered channel
    closed,      \* whether the closed channel is closed
    drain,       \* "loop", "final" after Close was seen, "exited"
    current,     \* the event the goroutine is forwarding, or None
    exchange,    \* "dial" or "reply": where its Emit is
    inTransit,   \* events written to the service and not handled by it
    trail,       \* events the service appended
    offered,     \* history: events Emit was called with
    accepted,    \* history: events Emit returned nil for, in order
    taken,       \* history: events received from the channel, in order
    early,       \* history: how many were accepted before Close
    late         \* history: events whose exchange hit the deadline

service == <<inTransit, trail>>
transport == <<current, exchange, late>>
emitter == <<ch, closed, offered, accepted, early>>
vars == <<emitter, transport, service, drain, taken>>

TypeOK ==
    /\ ch \in Seq(Events) /\ Len(ch) <= Capacity
    /\ closed \in BOOLEAN
    /\ drain \in {"loop", "final", "exited"}
    /\ current \in Events \cup {None}
    /\ exchange \in {"dial", "reply"}
    /\ inTransit \subseteq Events /\ late \subseteq Events /\ offered \subseteq Events
    /\ trail \in Seq(Events) /\ accepted \in Seq(Events) /\ taken \in Seq(Events)
    /\ early \in Nat

Init ==
    /\ ch = <<>> /\ closed = FALSE /\ drain = "loop"
    /\ current = None /\ exchange = "dial"
    /\ inTransit = {} /\ trail = <<>>
    /\ offered = {} /\ accepted = <<>> /\ taken = <<>> /\ early = 0 /\ late = {}

-----------------------------------------------------------------------------
(***************************************************************************)
(* Emit.  The select has three cases.  With room in the buffer and the     *)
(* sink closed, two of them are ready and Go picks one at random.          *)
(***************************************************************************)
AcceptOverOldest(e) ==              \* mutant: a full buffer makes room by dropping its head
    /\ ch' = IF Len(ch) < Capacity THEN Append(ch, e) ELSE Append(Tail(ch), e)
    /\ accepted' = Append(accepted, e)

Accept(e) ==
    /\ Len(ch) < Capacity
    /\ ch' = Append(ch, e)
    /\ accepted' = Append(accepted, e)

Refuse == (closed \/ Len(ch) = Capacity) /\ UNCHANGED <<ch, accepted>>

Emit(e) ==
    /\ e \notin offered
    /\ offered' = offered \cup {e}
    /\ Accept(e) \/ Refuse
    /\ UNCHANGED <<closed, early, transport, service, drain, taken>>

Close ==
    /\ ~closed
    /\ closed' = TRUE
    /\ early' = Len(accepted)
    /\ UNCHANGED <<ch, offered, accepted, transport, service, drain, taken>>

-----------------------------------------------------------------------------
\* The drain goroutine between two events.
Idle == drain # "exited" /\ current = None

Take ==
    /\ Idle /\ ch # <<>>
    /\ current' = Head(ch) /\ exchange' = "dial"
    /\ ch' = Tail(ch)
    /\ taken' = Append(taken, Head(ch))
    /\ UNCHANGED <<closed, offered, accepted, early, late, service, drain>>

SeeClosed ==
    /\ Idle /\ drain = "loop" /\ closed
    /\ drain' = "final"
    /\ UNCHANGED <<emitter, transport, service, taken>>

ExitEarly ==                        \* mutant: one more event, then exit
    /\ Idle /\ drain = "final"
    /\ drain' = "exited"
    /\ UNCHANGED <<emitter, transport, service, taken>>

Exit ==
    /\ Idle /\ drain = "final" /\ ch = <<>>
    /\ drain' = "exited"
    /\ UNCHANGED <<emitter, transport, service, taken>>

(***************************************************************************)
(* AuditTrailSink.Emit on the current event.  Whatever it returns, forward *)
(* swallows it, a panic included, and goes on with the next event.         *)
(***************************************************************************)
\* The dial, the deadline, the encoding or the write fails.
FailBeforeSending ==
    /\ current # None /\ exchange = "dial"
    /\ current' = None
    /\ UNCHANGED <<exchange, late, emitter, service, drain, taken>>

SendAndForget ==                    \* mutant: the answer is not waited for
    /\ current # None /\ exchange = "dial"
    /\ inTransit' = inTransit \cup {current}
    /\ current' = None
    /\ UNCHANGED <<exchange, late, trail, emitter, drain, taken>>

Send ==
    /\ current # None /\ exchange = "dial"
    /\ inTransit' = inTransit \cup {current}
    /\ exchange' = "reply"
    /\ UNCHANGED <<current, late, trail, emitter, drain, taken>>

\* A hash, an error, an undecodable line or the end of the connection.
HearReply ==
    /\ current # None /\ exchange = "reply" /\ current \notin inTransit
    /\ current' = None
    /\ UNCHANGED <<exchange, late, emitter, service, drain, taken>>

RetryOnTimeout ==                   \* mutant: the exchange is made again
    /\ current # None /\ exchange = "reply" /\ current \in inTransit
    /\ exchange' = "dial"
    /\ late' = late \cup {current}
    /\ UNCHANGED <<current, emitter, service, drain, taken>>

NoDeadline == FALSE                 \* mutant: a wait without a deadline

TimeOut ==
    /\ current # None /\ exchange = "reply" /\ current \in inTransit
    /\ current' = None
    /\ late' = late \cup {current}
    /\ UNCHANGED <<exchange, emitter, service, drain, taken>>

DrainStep == Take \/ SeeClosed \/ Exit \/ FailBeforeSending \/ Send \/ HearReply \/ TimeOut

-----------------------------------------------------------------------------
\* The audit-trail service (external): a line is appended, or refused or lost.
ServiceAppends(e) ==
    /\ e \in inTransit
    /\ inTransit' = inTransit \ {e}
    /\ trail' = Append(trail, e)
    /\ UNCHANGED <<emitter, transport, drain, taken>>

ServiceDrops(e) ==
    /\ e \in inTransit
    /\ inTransit' = inTransit \ {e}
    /\ UNCHANGED <<trail, emitter, transport, drain, taken>>

Next ==
    \/ Close
    \/ DrainStep
    \/ \E e \in Events : Emit(e) \/ ServiceAppends(e) \/ ServiceDrops(e)

\* The scheduler runs the goroutine, and every wait in it has a deadline.
Spec == Init /\ [][Next]_vars /\ WF_vars(DrainStep)

-----------------------------------------------------------------------------
(***************************************************************************)
(* The channel holds the events accepted and not yet taken, in the order   *)
(* of their acceptance: none is lost, doubled or overtaken in the process  *)
(* (audit.go AsyncSink.Emit, drain).                                       *)
(***************************************************************************)
NoneLostInside == accepted = taken \o ch

(***************************************************************************)
(* When the goroutine has exited, every event accepted before Close was    *)
(* handed to the transport (audit.go drain, "Drain any remaining").  An    *)
(* Emit concurrent with Close may still be accepted and stay behind.       *)
(***************************************************************************)
EarlyEventsForwarded == drain = "exited" => Len(taken) >= early

(***************************************************************************)
(* The trail has each event at most once, whatever the service answers and *)
(* whenever: an event that timed out is not sent again                     *)
(* (audit_trail_sink.go Emit, audit.go forward).                           *)
(***************************************************************************)
AtMostOnce ==
    /\ \A i, j \in DOMAIN trail : trail[i] = trail[j] => i = j
    /\ \A i \in DOMAIN trail : trail[i] \notin inTransit

(***************************************************************************)
(* In the trail an event comes after one that was accepted later only if   *)
(* its own exchange hit the deadline: one exchange ends before the next    *)
(* begins (audit.go drain, audit_trail_sink.go Emit).                      *)
(***************************************************************************)
OnlyLateOnesOvertaken ==
    \A i, j \in DOMAIN trail, a, b \in DOMAIN taken :
        (i < j /\ a < b /\ trail[j] = taken[a] /\ trail[i] = taken[b]) => trail[j] \in late

(***************************************************************************)
(* An event accepted while the sink is open is eventually handed to the    *)
(* transport, Close or not, however the exchanges before it end.           *)
(***************************************************************************)
AcceptedIsForwarded ==
    \A n \in 1..Cardinality(Events) :
        (~closed /\ Len(accepted) >= n) ~> (Len(taken) >= n)
=============================================================================
