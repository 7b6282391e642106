-------------------------- MODULE AsyncSinkProofs --------------------------
(***************************************************************************)
(* Proofs about AsyncSink for every set of events and every capacity:      *)
(* nothing accepted is lost or reordered on its way to the transport, what *)
(* was accepted before Close is forwarded, and the trail shows each event  *)
(* at most once, out of order only after a timeout.                        *)
(***************************************************************************)
EXTENDS AsyncSink, SequenceTheorems, TLAPS

-----------------------------------------------------------------------------
(* Type correctness. *)

LEMMA TypeInductive == TypeOK /\ [Next]_vars => TypeOK'
<1> SUFFICES ASSUME TypeOK, [Next]_vars PROVE TypeOK'
    OBVIOUS
<1> USE SinkAssumption DEF TypeOK, emitter, transport, service
<1>1. CASE UNCHANGED vars
    BY <1>1 DEF vars
<1>2. CASE Close
    BY <1>2 DEF Close
<1>3. ASSUME NEW e \in Events, Emit(e) PROVE TypeOK'
    <2>1. Append(ch, e) \in Seq(Events) /\ Len(Append(ch, e)) = Len(ch) + 1
          /\ Append(accepted, e) \in Seq(Events) /\ Len(ch) \in Nat
        BY AppendProperties, LenProperties
    <2>2. CASE Accept(e)
        BY <1>3, <2>1, <2>2 DEF Emit, Accept
    <2>3. CASE Refuse
        BY <1>3, <2>3 DEF Emit, Refuse
    <2> QED
        BY <1>3, <2>2, <2>3 DEF Emit
<1>4. CASE Take
    <2>1. Head(ch) \in Events /\ Tail(ch) \in Seq(Events) /\ Len(Tail(ch)) = Len(ch) - 1
          /\ Len(ch) \in Nat /\ Append(taken, Head(ch)) \in Seq(Events)
        BY <1>4, HeadTailProperties, AppendProperties, LenProperties DEF Take
    <2> QED
        BY <1>4, <2>1 DEF Take
<1>5. CASE SeeClosed \/ Exit
    BY <1>5 DEF SeeClosed, Exit
<1>6. CASE FailBeforeSending \/ Send \/ HearReply \/ TimeOut
    BY <1>6 DEF FailBeforeSending, Send, HearReply, TimeOut
<1>7. ASSUME NEW e \in Events, ServiceAppends(e) PROVE TypeOK'
    BY <1>7, AppendProperties DEF ServiceAppends
<1>8. ASSUME NEW e \in Events, ServiceDrops(e) PROVE TypeOK'
    BY <1>8 DEF ServiceDrops
<1> QED
    BY <1>1, <1>2, <1>3, <1>4, <1>5, <1>6, <1>7, <1>8 DEF Next, DrainStep

LEMMA InitType == Init => TypeOK
<1> SUFFICES ASSUME Init PROVE TypeOK
    OBVIOUS
<1>1. <<>> \in Seq(Events) /\ Len(<<>>) = 0 /\ 0 <= Capacity
    BY SinkAssumption
<1>2. ch = <<>> /\ trail = <<>> /\ accepted = <<>> /\ taken = <<>>
    BY DEF Init
<1>3. ch \in Seq(Events) /\ Len(ch) <= Capacity /\ trail \in Seq(Events)
      /\ accepted \in Seq(Events) /\ taken \in Seq(Events)
    BY <1>1, <1>2
<1>4. /\ closed \in BOOLEAN /\ drain \in {"loop", "final", "exited"}
      /\ current \in Events \cup {None} /\ exchange \in {"dial", "reply"}
      /\ inTransit \subseteq Events /\ late \subseteq Events /\ offered \subseteq Events
      /\ early \in Nat
    BY DEF Init
<1> QED
    BY <1>3, <1>4 DEF TypeOK

-----------------------------------------------------------------------------
(***************************************************************************)
(* The channel.  Every event is accepted at most once, because each stands *)
(* for one call of Emit; a goroutine that left its loop saw the sink       *)
(* closed; when it exits the channel is empty.                             *)
(***************************************************************************)
AcceptedOnce ==
    /\ \A i \in DOMAIN accepted : accepted[i] \in offered
    /\ \A i, j \in DOMAIN accepted : accepted[i] = accepted[j] => i = j

ClosedBeforeLeaving == drain # "loop" => closed

EarlyAreAccepted == early <= Len(accepted)

QueueInv ==
    /\ TypeOK
    /\ NoneLostInside
    /\ AcceptedOnce
    /\ ClosedBeforeLeaving
    /\ EarlyAreAccepted
    /\ EarlyEventsForwarded

\* Accepting an event at the end of the channel.
LEMMA AcceptKeepsOrder ==
    ASSUME QueueInv, NEW e \in Events, Accept(e), UNCHANGED taken
    PROVE  NoneLostInside'
<1>1. accepted = taken \o ch
    BY DEF QueueInv, NoneLostInside
<1>2. taken \in Seq(Events) /\ ch \in Seq(Events) /\ <<e>> \in Seq(Events)
    BY IsASeq DEF QueueInv, TypeOK
<1>3. taken \o ch \in Seq(Events)
    BY <1>2, ConcatProperties
<1>4. Append(taken \o ch, e) = (taken \o ch) \o <<e>> /\ Append(ch, e) = ch \o <<e>>
    BY <1>2, <1>3, AppendIsConcat
<1>5. Append(taken \o ch, e) = taken \o Append(ch, e)
    BY <1>2, <1>4, ConcatAssociative
<1> QED
    BY <1>1, <1>5 DEF Accept, NoneLostInside

\* What the goroutine takes is the oldest event accepted and not taken.
LEMMA TakeFacts ==
    ASSUME QueueInv, Take
    PROVE  /\ accepted = taken' \o ch'
           /\ Len(taken') = Len(taken) + 1
           /\ \A a \in DOMAIN taken : taken'[a] = taken[a]
           /\ taken'[Len(taken) + 1] = Head(ch)
           /\ \A a \in DOMAIN taken : taken[a] # Head(ch)
<1> DEFINE x == Head(ch)
<1>1. accepted = taken \o ch /\ ch # <<>> /\ ch \in Seq(Events) /\ taken \in Seq(Events)
      /\ taken' = Append(taken, x) /\ ch' = Tail(ch)
    BY DEF QueueInv, TypeOK, NoneLostInside, Take
<1>2. x \in Events /\ x = ch[1] /\ Len(ch) \in Nat /\ Len(ch) > 0
    BY <1>1, HeadTailProperties
<1>3. Len(taken') = Len(taken) + 1 /\ taken'[Len(taken) + 1] = x
      /\ \A a \in DOMAIN taken : taken'[a] = taken[a]
    BY <1>1, <1>2, AppendProperties
<1>4. accepted = taken' \o ch'
    BY <1>1, <1>2
<1>5. /\ Len(accepted) = Len(taken) + Len(ch)
      /\ accepted[Len(taken) + 1] = x
      /\ \A a \in 1..Len(taken) : accepted[a] = taken[a]
    BY <1>1, <1>2, ConcatProperties
<1>6. ASSUME NEW a \in DOMAIN taken PROVE taken[a] # x
    <2>1. a \in 1..Len(taken) /\ Len(taken) \in Nat /\ accepted \in Seq(Events)
        BY <1>1 DEF QueueInv, TypeOK
    <2>2. a \in DOMAIN accepted /\ Len(taken) + 1 \in DOMAIN accepted /\ a # Len(taken) + 1
        BY <2>1, <1>2, <1>5
    <2> QED
        BY <2>1, <2>2, <1>5 DEF QueueInv, AcceptedOnce
<1> QED
    BY <1>3, <1>4, <1>6

LEMMA QueueInductive == QueueInv /\ [Next]_vars => QueueInv'
<1> SUFFICES ASSUME QueueInv, [Next]_vars PROVE QueueInv'
    OBVIOUS
<1> USE DEF emitter, transport, service
<1>0. TypeOK'
    BY TypeInductive DEF QueueInv
<1>a. accepted \in Seq(Events) /\ taken \in Seq(Events) /\ ch \in Seq(Events)
      /\ Len(accepted) \in Nat /\ Len(taken) \in Nat /\ early \in Nat
    BY LenProperties DEF QueueInv, TypeOK
<1>1. CASE UNCHANGED <<emitter, drain, taken>>
    BY <1>0, <1>1 DEF QueueInv, NoneLostInside, AcceptedOnce, ClosedBeforeLeaving,
                      EarlyAreAccepted, EarlyEventsForwarded
<1>2. CASE Close
    <2>1. NoneLostInside' /\ AcceptedOnce' /\ ClosedBeforeLeaving' /\ EarlyAreAccepted'
        BY <1>2, <1>a DEF Close, QueueInv, NoneLostInside, AcceptedOnce, ClosedBeforeLeaving,
                          EarlyAreAccepted
    <2>2. EarlyEventsForwarded'
        BY <1>2 DEF Close, QueueInv, ClosedBeforeLeaving, EarlyEventsForwarded
    <2> QED
        BY <1>0, <2>1, <2>2 DEF QueueInv
<1>3. ASSUME NEW e \in Events, Emit(e) PROVE QueueInv'
    <2>1. CASE Refuse
        BY <1>0, <1>3, <2>1 DEF Emit, Refuse, QueueInv, NoneLostInside, AcceptedOnce,
                     ClosedBeforeLeaving, EarlyAreAccepted, EarlyEventsForwarded
    <2>2. CASE Accept(e)
        <3>1. NoneLostInside'
            BY <1>3, <2>2, AcceptKeepsOrder DEF Emit
        <3>2. /\ Len(accepted') = Len(accepted) + 1
              /\ accepted'[Len(accepted) + 1] = e
              /\ DOMAIN accepted' = 1..(Len(accepted) + 1)
              /\ \A i \in 1..Len(accepted) : accepted'[i] = accepted[i]
            BY <2>2, <1>a, AppendProperties, LenProperties DEF Accept
        <3>3. \A i \in DOMAIN accepted : accepted[i] # e
            BY <1>3 DEF Emit, QueueInv, AcceptedOnce
        <3>4. AcceptedOnce'
            <4>1. DOMAIN accepted = 1..Len(accepted) /\ offered' = offered \cup {e}
                BY <1>3, <1>a, LenProperties DEF Emit
            <4>2. ASSUME NEW i \in DOMAIN accepted'
                  PROVE  IF i = Len(accepted) + 1 THEN accepted'[i] = e
                         ELSE i \in DOMAIN accepted /\ accepted'[i] = accepted[i]
                BY <1>a, <3>2, <4>1
            <4>3. \A i \in DOMAIN accepted' : accepted'[i] \in offered'
                BY <4>1, <4>2 DEF QueueInv, AcceptedOnce
            <4>4. \A i, j \in DOMAIN accepted' : accepted'[i] = accepted'[j] => i = j
                BY <4>2, <3>3 DEF QueueInv, AcceptedOnce
            <4> QED
                BY <4>3, <4>4 DEF AcceptedOnce
        <3>5. ClosedBeforeLeaving' /\ EarlyAreAccepted' /\ EarlyEventsForwarded'
            BY <1>3, <1>a, <3>2 DEF Emit, QueueInv, ClosedBeforeLeaving, EarlyAreAccepted,
                                    EarlyEventsForwarded
        <3> QED
            BY <1>0, <3>1, <3>4, <3>5 DEF QueueInv
    <2> QED
        BY <1>3, <2>1, <2>2 DEF Emit
<1>4. CASE Take
    <2>1. NoneLostInside' /\ Len(taken') = Len(taken) + 1
        BY <1>4, TakeFacts DEF Take, NoneLostInside
    <2>2. AcceptedOnce' /\ ClosedBeforeLeaving' /\ EarlyAreAccepted'
        BY <1>4 DEF Take, QueueInv, AcceptedOnce, ClosedBeforeLeaving, EarlyAreAccepted
    <2>3. EarlyEventsForwarded'
        BY <1>4, <1>a, <2>1 DEF Take, QueueInv, EarlyEventsForwarded
    <2> QED
        BY <1>0, <2>1, <2>2, <2>3 DEF QueueInv
<1>5. CASE SeeClosed
    BY <1>0, <1>5 DEF SeeClosed, QueueInv, NoneLostInside, AcceptedOnce, ClosedBeforeLeaving,
                      EarlyAreAccepted, EarlyEventsForwarded
<1>6. CASE Exit
    <2>1. accepted = taken
        BY <1>6, <1>a, ConcatEmptySeq DEF Exit, QueueInv, NoneLostInside
    <2>2. EarlyEventsForwarded'
        BY <1>6, <1>a, <2>1 DEF Exit, QueueInv, EarlyAreAccepted, EarlyEventsForwarded
    <2>3. NoneLostInside' /\ AcceptedOnce' /\ ClosedBeforeLeaving' /\ EarlyAreAccepted'
        BY <1>6 DEF Exit, QueueInv, NoneLostInside, AcceptedOnce, ClosedBeforeLeaving, EarlyAreAccepted
    <2> QED
        BY <1>0, <2>2, <2>3 DEF QueueInv
<1> QED
    BY <1>1, <1>2, <1>3, <1>4, <1>5, <1>6
       DEF Next, DrainStep, vars, FailBeforeSending, Send, HearReply, TimeOut,
           ServiceAppends, ServiceDrops

LEMMA InitQueue == Init => QueueInv
<1> SUFFICES ASSUME Init PROVE QueueInv
    OBVIOUS
<1>1. TypeOK
    BY InitType
<1>2. Len(<<>>) = 0 /\ <<>> \o <<>> = <<>>
    OBVIOUS
<1> QED
    BY <1>1, <1>2 DEF Init, QueueInv, NoneLostInside, AcceptedOnce, ClosedBeforeLeaving,
                      EarlyAreAccepted, EarlyEventsForwarded

(***************************************************************************)
(* Nothing accepted is lost, doubled or overtaken between Emit and the     *)
(* transport (audit.go AsyncSink.Emit, drain).                             *)
(***************************************************************************)
THEOREM NothingLostInside == Spec => []NoneLostInside
<1>1. QueueInv => NoneLostInside
    BY DEF QueueInv
<1> QED
    BY InitQueue, QueueInductive, <1>1, PTL DEF Spec

(***************************************************************************)
(* The goroutine exits only after every event accepted before Close was    *)
(* handed to the transport (audit.go drain).                               *)
(***************************************************************************)
THEOREM EarlyEventsAreForwarded == Spec => []EarlyEventsForwarded
<1>1. QueueInv => EarlyEventsForwarded
    BY DEF QueueInv
<1> QED
    BY InitQueue, QueueInductive, <1>1, PTL DEF Spec

-----------------------------------------------------------------------------
(***************************************************************************)
(* The trail.  Only events that were taken travel.  The current event has  *)
(* been taken last, and has not travelled while its exchange dials; an     *)
(* event on its way belongs to the current exchange or to one that timed   *)
(* out.                                                                    *)
(***************************************************************************)
CurrentTakenLast ==
    current # None => Len(taken) > 0 /\ taken[Len(taken)] = current

TravellersTaken ==
    /\ \A e \in inTransit : \E a \in DOMAIN taken : taken[a] = e
    /\ \A i \in DOMAIN trail : \E a \in DOMAIN taken : taken[a] = trail[i]

DialIsFresh ==
    (current # None /\ exchange = "dial") =>
        current \notin inTransit /\ \A i \in DOMAIN trail : trail[i] # current

OthersAreLate ==
    \A e \in inTransit : e \in late \/ (e = current /\ exchange = "reply")

TrailInv ==
    /\ CurrentTakenLast
    /\ TravellersTaken
    /\ DialIsFresh
    /\ OthersAreLate
    /\ AtMostOnce
    /\ OnlyLateOnesOvertaken

\* No event is taken twice.
LEMMA TakenOnce ==
    ASSUME QueueInv, NEW a \in DOMAIN taken, NEW b \in DOMAIN taken, taken[a] = taken[b]
    PROVE  a = b
<1>1. taken \in Seq(Events) /\ ch \in Seq(Events) /\ accepted = taken \o ch
    BY DEF QueueInv, TypeOK, NoneLostInside
<1>2. /\ Len(accepted) = Len(taken) + Len(ch) /\ accepted \in Seq(Events)
      /\ \A i \in 1..Len(taken) : accepted[i] = taken[i]
      /\ Len(taken) \in Nat /\ Len(ch) \in Nat /\ DOMAIN taken = 1..Len(taken)
      /\ DOMAIN accepted = 1..Len(accepted)
    BY <1>1, ConcatProperties, LenProperties
<1> QED
    BY <1>2 DEF QueueInv, AcceptedOnce

LEMMA TakeKeepsTrail == ASSUME QueueInv, TrailInv, Take PROVE TrailInv'
<1> USE DEF emitter, transport, service
<1>1. /\ Len(taken') = Len(taken) + 1
      /\ \A a \in DOMAIN taken : taken'[a] = taken[a] /\ taken[a] # Head(ch)
      /\ taken'[Len(taken) + 1] = Head(ch)
    BY TakeFacts
<1>2. /\ Len(taken) \in Nat
      /\ DOMAIN taken = 1..Len(taken) /\ DOMAIN taken' = 1..(Len(taken) + 1)
    BY <1>1, TypeInductive, LenProperties DEF QueueInv, TypeOK, Next, DrainStep
<1>3. current' = Head(ch) /\ exchange' = "dial" /\ current = None
      /\ UNCHANGED <<inTransit, trail, late>>
    BY DEF Take, Idle
<1>4. CurrentTakenLast'
    BY <1>1, <1>2, <1>3 DEF CurrentTakenLast
<1>5. TravellersTaken'
    BY <1>1, <1>2, <1>3 DEF TrailInv, TravellersTaken
<1>6. DialIsFresh'
    BY <1>1, <1>3 DEF TrailInv, TravellersTaken, DialIsFresh
<1>7. OthersAreLate'
    <2>1. ASSUME NEW e \in inTransit PROVE e \in late
        <3>1. e # None
            BY SinkAssumption DEF QueueInv, TypeOK
        <3> QED
            BY <1>3, <3>1 DEF TrailInv, OthersAreLate
    <2> QED
        BY <2>1, <1>3 DEF OthersAreLate
<1>8. AtMostOnce'
    BY <1>3 DEF TrailInv, AtMostOnce
<1>9. OnlyLateOnesOvertaken'
    <2> SUFFICES ASSUME NEW i \in DOMAIN trail, NEW j \in DOMAIN trail,
                        NEW a \in DOMAIN taken', NEW b \in DOMAIN taken',
                        i < j, a < b, trail[j] = taken'[a], trail[i] = taken'[b]
                 PROVE  trail[j] \in late
        BY <1>3 DEF OnlyLateOnesOvertaken
    <2>1. \A k \in DOMAIN trail : trail[k] # Head(ch)
        BY <1>1 DEF TrailInv, TravellersTaken
    <2>2. a \in DOMAIN taken /\ b \in DOMAIN taken
        BY <1>1, <1>2, <2>1
    <2> QED
        BY <1>1, <2>2 DEF TrailInv, OnlyLateOnesOvertaken
<1> QED
    BY <1>4, <1>5, <1>6, <1>7, <1>8, <1>9 DEF TrailInv

\* Appending an event overtakes nothing, unless its exchange has timed out.
LEMMA AppendKeepsTrail ==
    ASSUME QueueInv, TrailInv, NEW e \in Events, ServiceAppends(e) PROVE TrailInv'
<1> USE DEF emitter, transport, service
<1>1. /\ trail \in Seq(Events) /\ trail' = Append(trail, e) /\ e \in inTransit
      /\ inTransit' = inTransit \ {e} /\ UNCHANGED <<current, exchange, late, taken>>
    BY DEF QueueInv, TypeOK, ServiceAppends
<1>2. /\ Len(trail) \in Nat /\ DOMAIN trail = 1..Len(trail)
      /\ DOMAIN trail' = 1..(Len(trail) + 1)
      /\ trail'[Len(trail) + 1] = e
      /\ \A i \in 1..Len(trail) : trail'[i] = trail[i]
    BY <1>1, AppendProperties, LenProperties
<1>3. CurrentTakenLast' /\ OthersAreLate'
    BY <1>1 DEF TrailInv, CurrentTakenLast, OthersAreLate
<1>4. TravellersTaken'
    BY <1>1, <1>2 DEF TrailInv, TravellersTaken
<1>5. DialIsFresh'
    BY <1>1, <1>2 DEF TrailInv, DialIsFresh
<1>6. AtMostOnce'
    BY <1>1, <1>2 DEF TrailInv, AtMostOnce
<1>7. OnlyLateOnesOvertaken'
    <2> SUFFICES ASSUME NEW i \in DOMAIN trail', NEW j \in DOMAIN trail',
                        NEW a \in DOMAIN taken, NEW b \in DOMAIN taken,
                        i < j, a < b, trail'[j] = taken[a], trail'[i] = taken[b]
                 PROVE  trail'[j] \in late
        BY <1>1 DEF OnlyLateOnesOvertaken
    <2>1. CASE j \in DOMAIN trail
        BY <1>2, <2>1 DEF TrailInv, OnlyLateOnesOvertaken
    <2>2. CASE j = Len(trail) + 1
        <3>1. taken[a] = e
            BY <1>2, <2>2
        <3>2. CASE e = current
            <4>1. Len(taken) \in DOMAIN taken /\ taken[Len(taken)] = e
                BY <1>1, <3>2, SinkAssumption, LenProperties
                   DEF TrailInv, CurrentTakenLast, QueueInv, TypeOK
            <4>2. a = Len(taken)
                BY <3>1, <4>1, TakenOnce
            <4> QED
                BY <4>2, LenProperties DEF QueueInv, TypeOK
        <3>3. CASE e # current
            BY <1>1, <1>2, <2>2, <3>3 DEF TrailInv, OthersAreLate
        <3> QED
            BY <3>2, <3>3
    <2> QED
        BY <1>2, <2>1, <2>2
<1> QED
    BY <1>3, <1>4, <1>5, <1>6, <1>7 DEF TrailInv

LEMMA TrailInductive == QueueInv /\ TrailInv /\ [Next]_vars => TrailInv'
<1> SUFFICES ASSUME QueueInv, TrailInv, [Next]_vars PROVE TrailInv'
    OBVIOUS
<1> USE DEF emitter, transport, service, TrailInv, CurrentTakenLast, TravellersTaken,
            DialIsFresh, OthersAreLate, AtMostOnce, OnlyLateOnesOvertaken
<1>1. CASE UNCHANGED <<transport, service, taken>>
    BY <1>1
<1>2. CASE FailBeforeSending
    BY <1>2 DEF FailBeforeSending
<1>3. CASE Send
    BY <1>3 DEF Send
<1>4. CASE HearReply
    BY <1>4 DEF HearReply
<1>5. CASE TimeOut
    BY <1>5 DEF TimeOut
<1>6. ASSUME NEW e \in Events, ServiceDrops(e) PROVE TrailInv'
    BY <1>6 DEF ServiceDrops
<1>7. CASE Take
    BY <1>7, TakeKeepsTrail
<1>8. ASSUME NEW e \in Events, ServiceAppends(e) PROVE TrailInv'
    BY <1>8, AppendKeepsTrail
<1> QED
    BY <1>1, <1>2, <1>3, <1>4, <1>5, <1>6, <1>7, <1>8
       DEF Next, DrainStep, vars, Close, Emit, SeeClosed, Exit

LEMMA InitTrail == Init => TrailInv
BY DEF Init, TrailInv, CurrentTakenLast, TravellersTaken, DialIsFresh, OthersAreLate,
       AtMostOnce, OnlyLateOnesOvertaken

(***************************************************************************)
(* No event is in the trail twice, and none that is there is still on its  *)
(* way (audit_trail_sink.go Emit, audit.go forward).                       *)
(***************************************************************************)
THEOREM TrailAtMostOnce == Spec => []AtMostOnce
<1>1. TrailInv => AtMostOnce
    BY DEF TrailInv
<1> QED
    BY InitQueue, InitTrail, QueueInductive, TrailInductive, <1>1, PTL DEF Spec

(***************************************************************************)
(* Events are out of order in the trail only after a timeout (audit.go     *)
(* drain, audit_trail_sink.go Emit).                                       *)
(***************************************************************************)
THEOREM TrailInOrder == Spec => []OnlyLateOnesOvertaken
<1>1. TrailInv => OnlyLateOnesOvertaken
    BY DEF TrailInv
<1> QED
    BY InitQueue, InitTrail, QueueInductive, TrailInductive, <1>1, PTL DEF Spec
=============================================================================
