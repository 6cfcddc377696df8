-------------------------- MODULE PeerSignalProofs --------------------------
(***************************************************************************)
(* What reaches a user's devices beside the timeline: the signals of a     *)
(* call (PeerSignal), for any number of commands, revisions and signals    *)
(* and any journal capacity, and pushes (PushPipeline), for any number of  *)
(* notices, devices and retries and any capacities.                        *)
(***************************************************************************)
EXTENDS PeerSignal, Sequences, FiniteSetTheorems, TLAPS

(* The numbers and sets the other invariants are about. *)
Shape ==
    /\ open \in BOOLEAN /\ answered \in BOOLEAN
    /\ revision \in 0 .. MaxRevision /\ seq \in 0 .. MaxSeq /\ expired \in 0 .. MaxSeq
    /\ events \subseteq Events /\ log \subseteq Events /\ commands \subseteq Events
    /\ cursor \in [Sides -> 0 .. MaxSeq]
    /\ got \in [Sides -> SUBSET Events]

(* The journal is finite and what is retained of it fits. *)
Fits == IsFiniteSet(events) /\ Cardinality(Retained(events)) <= Capacity

(* Sequence numbers are given out once and the cursors are behind them. *)
Numbered ==
    /\ \A e \in log : e.seq <= seq /\ e.revision <= revision
    /\ \A e, f \in log : e.seq = f.seq => e = f
    /\ \A s \in Sides : cursor[s] <= seq

(* Every event follows the offer of its revision, and the live revision has  *)
(* one as soon as there is a revision.                                       *)
OfferFirst ==
    /\ \A e \in log : \E o \in log : o.kind = "offer" /\ o.revision = e.revision /\ o.seq <= e.seq
    /\ revision > 0 => \E o \in log : o.kind = "offer" /\ o.revision = revision

(* peer_answered is set once the live revision has an answer. *)
AnswerFlag == \A e \in log : e.kind = "answer" /\ e.revision = revision => answered

(* An event belongs to a revision, and the journal holds recorded events.    *)
Revised == \A e \in log : e.revision > 0
Copied == events \subseteq log

(* Until the call ends the journal holds every row that has not expired. *)
Kept == open => Retained(log) \subseteq events

Inv == Shape /\ Numbered /\ OfferFirst /\ AnswerFlag /\ Revised /\ Copied /\ Kept
       /\ OneOfferOneAnswer /\ RevisionsInOrder

-----------------------------------------------------------------------------

(* The event a signal records. *)
New(s, id, kind, r) == [seq |-> seq + 1, revision |-> r, kind |-> kind, from |-> s, id |-> id]

(* What a new event of each kind is like. *)
LEMMA SignalFacts ==
    ASSUME Shape,
           NEW s \in Sides, NEW id \in Ids, NEW kind \in Kinds, NEW r \in 0 .. MaxRevision,
           Signal(s, id, kind, r)
    PROVE  /\ New(s, id, kind, r) \in Events
           /\ log' = log \cup {New(s, id, kind, r)}
           /\ events' = Retained(events) \cup {New(s, id, kind, r)}
           /\ commands' = commands \cup {New(s, id, kind, r)}
           /\ seq' = seq + 1 /\ seq + 1 \in 0 .. MaxSeq
           /\ r > 0
           /\ UNCHANGED <<open, expired, cursor, got>>
           /\ \/ kind = "offer" /\ s = "caller" /\ r = revision + 1 /\ revision' = r /\ answered' = FALSE
              \/ kind = "answer" /\ s = "callee" /\ r = revision /\ ~answered /\ revision' = revision /\ answered' = TRUE
              \/ kind = "ice" /\ r = revision /\ revision' = revision /\ answered' = answered
  <1>1. seq + 1 \in 1 .. MaxSeq /\ seq + 1 \in 0 .. MaxSeq
    BY PeerAssumption DEF Shape, Signal
  <1>2. New(s, id, kind, r) \in Events
    BY <1>1 DEF New, Events, Shape
  <1>3. kind = "offer" \/ kind = "answer" \/ kind = "ice"
    BY DEF Kinds
  <1>4. CASE kind = "offer"
    BY <1>1, <1>2, <1>4 DEF Signal, Allowed, New
  <1>5. CASE kind = "answer"
    BY <1>1, <1>2, <1>5 DEF Signal, Allowed, New
  <1>6. CASE kind = "ice"
    BY <1>1, <1>2, <1>6 DEF Signal, Allowed, New
  <1> QED BY <1>3, <1>4, <1>5, <1>6

LEMMA InvInit == Init => Inv
  <1> SUFFICES ASSUME Init PROVE Inv OBVIOUS
  <1>1. Shape
    <2>1. 0 \in 0 .. MaxRevision /\ 0 \in 0 .. MaxSeq
      BY PeerAssumption
    <2>2. cursor \in [Sides -> 0 .. MaxSeq]
      BY <2>1 DEF Init
    <2>3. got \in [Sides -> SUBSET Events]
      BY DEF Init
    <2>4. open \in BOOLEAN /\ answered \in BOOLEAN /\ events = {} /\ log = {} /\ commands = {}
      BY DEF Init
    <2> QED BY <2>1, <2>2, <2>3, <2>4 DEF Init, Shape
  <1>2. Numbered /\ OfferFirst /\ AnswerFlag
    BY DEF Init, Numbered, OfferFirst, AnswerFlag
  <1>3. Kept /\ OneOfferOneAnswer /\ RevisionsInOrder
    BY DEF Init, Kept, Retained, OneOfferOneAnswer, RevisionsInOrder
  <1>4. Revised /\ Copied
    BY DEF Init, Revised, Copied
  <1> QED BY <1>1, <1>2, <1>3, <1>4 DEF Inv

LEMMA InvSignal ==
    ASSUME Inv,
           NEW s \in Sides, NEW id \in Ids, NEW kind \in Kinds, NEW r \in 0 .. MaxRevision,
           Signal(s, id, kind, r)
    PROVE  Inv'
  <1> DEFINE n == New(s, id, kind, r)
  <1>0. Shape BY DEF Inv
  <1>f. /\ n \in Events /\ log' = log \cup {n} /\ events' = Retained(events) \cup {n}
        /\ commands' = commands \cup {n}
        /\ seq' = seq + 1 /\ seq + 1 \in 0 .. MaxSeq /\ r > 0
        /\ UNCHANGED <<open, expired, cursor, got>>
        /\ \/ kind = "offer" /\ s = "caller" /\ r = revision + 1 /\ revision' = r /\ answered' = FALSE
           \/ kind = "answer" /\ s = "callee" /\ r = revision /\ ~answered /\ revision' = revision /\ answered' = TRUE
           \/ kind = "ice" /\ r = revision /\ revision' = revision /\ answered' = answered
    BY <1>0, SignalFacts
  <1>n. n.seq = seq + 1 /\ n.revision = r /\ n.kind = kind /\ n.from = s
    BY DEF New
  <1>t. /\ seq \in Nat /\ revision \in Nat /\ r \in Nat
        /\ \A e \in log : e.seq \in Nat /\ e.revision \in Nat
    BY <1>0, PeerAssumption DEF Shape, Events
  <1>b. \A e \in log : e.seq < n.seq /\ e.revision <= revision
    BY <1>t, <1>n DEF Inv, Numbered
  <1> HIDE DEF n
  <1>1. Shape'
    <2>1. revision' \in 0 .. MaxRevision /\ answered' \in BOOLEAN
      BY <1>0, <1>f DEF Shape
    <2>2. events' \subseteq Events /\ log' \subseteq Events /\ commands' \subseteq Events
      BY <1>0, <1>f DEF Shape, Retained
    <2> QED BY <1>0, <1>f, <2>1, <2>2 DEF Shape
  <1>2. Numbered'
    <2>1. \A e \in log' : e.seq <= seq' /\ e.revision <= revision'
      BY <1>f, <1>n, <1>t, <1>b DEF Inv, Numbered
    <2>2. \A e, f \in log' : e.seq = f.seq => e = f
      BY <1>f, <1>n, <1>t, <1>b DEF Inv, Numbered
    <2>3. \A p \in Sides : cursor'[p] <= seq'
      BY <1>0, <1>f, <1>t, PeerAssumption DEF Inv, Numbered, Shape
    <2> QED BY <2>1, <2>2, <2>3 DEF Numbered
  <1>3. OfferFirst'
    <2>1. \A e \in log' : \E o \in log' : o.kind = "offer" /\ o.revision = e.revision /\ o.seq <= e.seq
      <3> SUFFICES ASSUME NEW e \in log'
                   PROVE  \E o \in log' : o.kind = "offer" /\ o.revision = e.revision /\ o.seq <= e.seq
        OBVIOUS
      <3>1. CASE e \in log
        BY <3>1, <1>f DEF Inv, OfferFirst
      <3>2. CASE e = n /\ kind = "offer"
        BY <3>2, <1>f, <1>n, <1>t
      <3>3. CASE e = n /\ kind # "offer"
        <4>1. revision = r /\ revision > 0
          BY <3>3, <1>f
        <4>2. PICK o \in log : o.kind = "offer" /\ o.revision = revision
          BY <4>1 DEF Inv, OfferFirst
        <4> QED BY <3>3, <4>1, <4>2, <1>f, <1>n, <1>b, <1>t
      <3> QED BY <3>1, <3>2, <3>3, <1>f
    <2>2. revision' > 0 => \E o \in log' : o.kind = "offer" /\ o.revision = revision'
      <3>1. CASE kind = "offer"
        BY <3>1, <1>f, <1>n
      <3>2. CASE kind # "offer"
        BY <3>2, <1>f DEF Inv, OfferFirst
      <3> QED BY <3>1, <3>2
    <2> QED BY <2>1, <2>2 DEF OfferFirst
  <1>4. AnswerFlag'
    <2>1. CASE kind = "offer"
      BY <2>1, <1>f, <1>n, <1>t, <1>b DEF AnswerFlag
    <2>2. CASE kind = "answer"
      BY <2>2, <1>f DEF AnswerFlag
    <2>3. CASE kind = "ice"
      BY <2>3, <1>f, <1>n DEF Inv, AnswerFlag
    <2> QED BY <2>1, <2>2, <2>3 DEF Kinds
  <1>5. Kept'
    BY <1>f DEF Inv, Kept, Retained
  <1>6. OneOfferOneAnswer'
    <2> SUFFICES ASSUME NEW e \in log', NEW f \in log'
                 PROVE  /\ e.kind = "offer" => e.from = "caller"
                        /\ e.kind = "answer" => e.from = "callee" /\ \E o \in log' : o.kind = "offer" /\ o.revision = e.revision /\ o.seq < e.seq
                        /\ e.kind # "ice" /\ e.kind = f.kind /\ e.revision = f.revision => e = f
      BY DEF OneOfferOneAnswer
    <2>1. e.kind = "offer" => e.from = "caller"
      BY <1>f, <1>n DEF Inv, OneOfferOneAnswer
    <2>2. e.kind = "answer" => e.from = "callee"
      BY <1>f, <1>n DEF Inv, OneOfferOneAnswer
    <2>3. e.kind = "answer" => \E o \in log' : o.kind = "offer" /\ o.revision = e.revision /\ o.seq < e.seq
      <3>1. CASE e \in log
        BY <3>1, <1>f DEF Inv, OneOfferOneAnswer
      <3>2. CASE e = n /\ kind = "answer"
        <4>1. revision = r /\ revision > 0
          BY <3>2, <1>f
        <4>2. PICK o \in log : o.kind = "offer" /\ o.revision = revision
          BY <4>1 DEF Inv, OfferFirst
        <4> QED BY <3>2, <4>1, <4>2, <1>f, <1>n, <1>b
      <3> QED BY <3>1, <3>2, <1>f, <1>n
    <2>4. ASSUME NEW d \in log, d.kind = kind, d.revision = r, kind # "ice" PROVE FALSE
      BY <2>4, <1>f, <1>b, <1>t DEF Inv, AnswerFlag
    <2>5. e.kind # "ice" /\ e.kind = f.kind /\ e.revision = f.revision => e = f
      BY <2>4, <1>f, <1>n DEF Inv, OneOfferOneAnswer
    <2> QED BY <2>1, <2>2, <2>3, <2>5
  <1>7. RevisionsInOrder'
    BY <1>f, <1>n, <1>t, <1>b DEF Inv, RevisionsInOrder
  <1>8. Revised' /\ Copied'
    BY <1>f, <1>n DEF Inv, Revised, Copied, Retained
  <1> QED BY <1>1, <1>2, <1>3, <1>4, <1>5, <1>6, <1>7, <1>8 DEF Inv

(* A step that neither records an event nor moves revision or answer.        *)
LEMMA InvOther ==
    ASSUME Inv,
           UNCHANGED <<revision, answered, seq, log>>,
           Shape', Kept', events' \subseteq events, \A s \in Sides : cursor'[s] <= seq
    PROVE  Inv'
  <1>1. Numbered'
    BY DEF Inv, Numbered
  <1>2. OfferFirst'
    BY DEF Inv, OfferFirst
  <1>3. AnswerFlag' /\ OneOfferOneAnswer' /\ RevisionsInOrder'
    BY DEF Inv, AnswerFlag, OneOfferOneAnswer, RevisionsInOrder
  <1>4. Revised' /\ Copied'
    BY DEF Inv, Revised, Copied
  <1> QED BY <1>1, <1>2, <1>3, <1>4 DEF Inv

LEMMA InvNext == Inv /\ [Next]_vars => Inv'
  <1> SUFFICES ASSUME Inv, [Next]_vars PROVE Inv' OBVIOUS
  <1>s. Shape /\ Numbered /\ Kept BY DEF Inv
  <1>1. ASSUME NEW s \in Sides, NEW id \in Ids, NEW kind \in Kinds, NEW r \in 0 .. MaxRevision,
               Signal(s, id, kind, r)
        PROVE  Inv'
    BY <1>1, InvSignal
  <1>2. ASSUME NEW s \in Sides, Read(s) PROVE Inv'
    <2>1. Shape'
      BY <1>2, <1>s DEF Read, Shape, table, Retained
    <2>2. Kept'
      BY <1>2, <1>s DEF Read, Kept, table, Retained
    <2>3. \A p \in Sides : cursor'[p] <= seq
      BY <1>2, <1>s, PeerAssumption DEF Read, Shape, Numbered
    <2> QED BY <1>2, <2>1, <2>2, <2>3, InvOther DEF Read, table
  <1>3. ASSUME NEW s \in Sides, ReadRefused(s) PROVE Inv'
    <2>1. Shape'
      BY <1>3, <1>s, PeerAssumption DEF ReadRefused, Shape, table
    <2>2. Kept'
      BY <1>3, <1>s DEF ReadRefused, Kept, table, Retained
    <2>3. \A p \in Sides : cursor'[p] <= seq
      BY <1>3, <1>s, PeerAssumption DEF ReadRefused, Shape, Numbered
    <2> QED BY <1>3, <2>1, <2>2, <2>3, InvOther DEF ReadRefused, table
  <1>4. ASSUME RowsExpire PROVE Inv'
    <2>1. Shape'
      BY <1>4, <1>s, PeerAssumption DEF RowsExpire, Shape, table
    <2>2. Kept'
      <3> SUFFICES ASSUME open', NEW e \in Retained(log)' PROVE e \in events'
        BY DEF Kept
      <3>1. e \in log /\ e.seq > expired + 1
        BY <1>4 DEF RowsExpire, Retained
      <3>2. e.seq \in Nat /\ expired \in Nat
        BY <3>1, <1>s, PeerAssumption DEF Shape, Events
      <3> QED BY <3>1, <3>2, <1>4, <1>s DEF RowsExpire, Kept, table, Retained
    <2>3. \A p \in Sides : cursor'[p] <= seq
      BY <1>4, <1>s DEF RowsExpire, Numbered
    <2> QED BY <1>4, <2>1, <2>2, <2>3, InvOther DEF RowsExpire, table
  <1>5. ASSUME SweepPeer PROVE Inv'
    <2>1. Shape'
      BY <1>5, <1>s DEF SweepPeer, Shape, Retained
    <2>2. Kept'
      BY <1>5, <1>s DEF SweepPeer, Kept, Retained
    <2>3. \A p \in Sides : cursor'[p] <= seq
      BY <1>5, <1>s DEF SweepPeer, Numbered
    <2> QED BY <1>5, <2>1, <2>2, <2>3, InvOther DEF SweepPeer, Retained
  <1>6. ASSUME End PROVE Inv'
    <2>1. Shape'
      BY <1>6, <1>s DEF End, Shape
    <2>2. Kept' /\ \A p \in Sides : cursor'[p] <= seq
      BY <1>6, <1>s DEF End, Kept, Numbered
    <2> QED BY <1>6, <2>1, <2>2, InvOther DEF End
  <1>7. CASE UNCHANGED vars
    <2>1. Shape' /\ Kept' /\ \A p \in Sides : cursor'[p] <= seq
      BY <1>7, <1>s DEF vars, table, Shape, Kept, Numbered, Retained
    <2> QED BY <1>7, <2>1, InvOther DEF vars, table
  <1> QED BY <1>1, <1>2, <1>3, <1>4, <1>5, <1>6, <1>7 DEF Next

(* A revision is offered once and answered at most once, whatever expires    *)
(* and is sent again (peer_signal).                                          *)
THEOREM Negotiation == Spec => [](OneOfferOneAnswer /\ RevisionsInOrder)
  <1>1. Inv => OneOfferOneAnswer /\ RevisionsInOrder BY DEF Inv
  <1> QED BY <1>1, InvInit, InvNext, PTL DEF Spec

-----------------------------------------------------------------------------
(* The journal fits. *)

LEMMA RetainedShrinks ==
    ASSUME NEW S, NEW T, IsFiniteSet(S), T \subseteq S, Cardinality(S) <= Capacity
    PROVE  IsFiniteSet(T) /\ Cardinality(T) <= Capacity
  BY FS_Subset, FS_CardinalityType, PeerAssumption

LEMMA FitsNext == Inv /\ Fits /\ [Next]_vars => Fits'
  <1> SUFFICES ASSUME Inv, Fits, [Next]_vars PROVE Fits' OBVIOUS
  <1>a. IsFiniteSet(Retained(events)) /\ Cardinality(Retained(events)) \in Nat
    BY FS_Subset, FS_CardinalityType DEF Fits, Retained
  <1>1. ASSUME NEW s \in Sides, NEW id \in Ids, NEW kind \in Kinds, NEW r \in 0 .. MaxRevision,
               Signal(s, id, kind, r)
        PROVE  Fits'
    <2> DEFINE n == New(s, id, kind, r)
               S == Retained(events) \cup {n}
    <2>1. events' = S /\ expired' = expired /\ Cardinality(Retained(events)) < Capacity
      BY <1>1, SignalFacts DEF Inv, Signal, HasRoom
    <2>2. IsFiniteSet(S) /\ (Cardinality(S) = Cardinality(Retained(events)) \/ Cardinality(S) = Cardinality(Retained(events)) + 1)
      BY <1>a, FS_AddElement
    <2>3. Cardinality(S) <= Capacity
      BY <1>a, <2>1, <2>2, PeerAssumption
    <2>4. Retained(events)' \subseteq S
      BY <2>1 DEF Retained
    <2> QED BY <2>1, <2>2, <2>3, <2>4, RetainedShrinks DEF Fits
  <1>2. ASSUME events' \subseteq events, Retained(events)' \subseteq Retained(events) PROVE Fits'
    BY <1>2, <1>a, RetainedShrinks, FS_Subset DEF Fits
  <1>3. ASSUME UNCHANGED <<events, expired>> PROVE Fits'
    BY <1>3, <1>2 DEF Retained
  <1>4. ASSUME RowsExpire PROVE Fits'
    <2>1. \A e \in events : e.seq \in Nat
      BY DEF Inv, Shape, Events
    <2>2. expired \in Nat
      BY PeerAssumption DEF Inv, Shape
    <2> QED BY <1>4, <2>1, <2>2, <1>2 DEF RowsExpire, table, Retained
  <1>5. ASSUME SweepPeer PROVE Fits'
    BY <1>5, <1>2 DEF SweepPeer, Retained
  <1>6. ASSUME End PROVE Fits'
    BY <1>6, <1>2 DEF End, Retained
  <1>7. ASSUME NEW s \in Sides, Read(s) \/ ReadRefused(s) PROVE Fits'
    BY <1>7, <1>3 DEF Read, ReadRefused, table
  <1>8. CASE UNCHANGED vars
    BY <1>8, <1>3 DEF vars, table
  <1> QED BY <1>1, <1>4, <1>5, <1>6, <1>7, <1>8 DEF Next

(* Every variable keeps its type, and the journal its capacity (peer_signal  *)
(* counts the rows it keeps before it adds one).                             *)
THEOREM TypeCorrect == Spec => []TypeOK
  <1>1. Init => Fits
    <2>1. Init => events = {} /\ Retained(events) = {}
      BY DEF Init, Retained
    <2>2. IsFiniteSet({}) /\ Cardinality({}) = 0
      BY FS_EmptySet
    <2>3. 0 <= Capacity
      BY PeerAssumption
    <2> QED BY <2>1, <2>2, <2>3 DEF Fits
  <1>2. Inv /\ Fits => TypeOK
    BY DEF Inv, Shape, Fits, TypeOK
  <1> QED BY <1>1, <1>2, InvInit, InvNext, FitsNext, PTL DEF Spec

-----------------------------------------------------------------------------
(* Cursors. *)

LEMMA NothingDroppedNext == Inv /\ NothingSilentlyDropped /\ [Next]_vars => NothingSilentlyDropped'
  <1> SUFFICES ASSUME Inv, NothingSilentlyDropped, [Next]_vars,
                      NEW s \in Sides, NEW e \in log',
                      e.from # s, e.revision = revision', e.seq <= cursor'[s]
               PROVE  e \in got'[s]
    BY DEF NothingSilentlyDropped
  <1>t. /\ seq \in Nat /\ revision \in Nat /\ expired \in Nat
        /\ \A p \in Sides : cursor[p] \in Nat /\ cursor[p] <= seq
        /\ \A f \in log : f.seq \in Nat /\ f.seq > 0 /\ f.revision \in Nat /\ f.seq <= seq /\ f.revision <= revision
    BY PeerAssumption DEF Inv, Shape, Numbered, Events
  <1>1. ASSUME NEW p \in Sides, NEW id \in Ids, NEW kind \in Kinds, NEW r \in 0 .. MaxRevision,
               Signal(p, id, kind, r)
        PROVE  e \in got'[s]
    <2> DEFINE n == New(p, id, kind, r)
    <2>f. /\ log' = log \cup {n} /\ cursor' = cursor /\ got' = got
          /\ revision' = revision \/ revision' = revision + 1
      BY <1>1, SignalFacts DEF Inv
    <2>1. n.seq = seq + 1 BY DEF New
    <2> HIDE DEF n
    <2>2. e \in log
      BY <2>f, <2>1, <1>t
    <2>3. revision' = revision
      BY <2>2, <2>f, <1>t
    <2> QED BY <2>2, <2>3, <2>f DEF NothingSilentlyDropped
  <1>2. ASSUME NEW p \in Sides, Read(p) PROVE e \in got'[s]
    <2>1. e \in log /\ e.revision = revision
      BY <1>2 DEF Read, table
    <2>2. CASE s # p
      <3>1. cursor'[s] = cursor[s] /\ got'[s] = got[s]
        BY <1>2, <2>2 DEF Read, Inv, Shape
      <3> QED BY <2>1, <3>1 DEF NothingSilentlyDropped
    <2>3. CASE s = p
      <3>g. got'[s] = got[s] \cup {f \in Retained(events) : f.seq > cursor[s] /\ f.from # s /\ f.revision = revision}
        BY <1>2, <2>3 DEF Read, Inv, Shape
      <3>1. CASE e.seq <= cursor[s]
        BY <2>1, <3>1, <3>g DEF NothingSilentlyDropped
      <3>2. CASE e.seq > cursor[s]
        <4>k. Retained(log) \subseteq events
          BY <1>2 DEF Read, Inv, Kept
        <4>1. e.seq > expired
          <5>1. CASE cursor[s] # 0
            <6>1. cursor[s] < seq
              BY <3>2, <2>1, <1>t
            <6>2. PICK f \in Retained(events) : ~(cursor[s] + 1 < f.seq)
              BY <1>2, <2>3, <5>1, <6>1 DEF Read, Gap
            <6>3. f.seq > expired /\ f.seq \in Nat
              BY <6>2 DEF Retained, Inv, Shape, Events
            <6> QED BY <6>2, <6>3, <3>2, <2>1, <1>t
          <5>2. CASE cursor[s] = 0
            <6>1. e.revision > 0
              BY <2>1 DEF Inv, Revised
            <6>2. PICK o \in Retained(events) : o.revision = revision /\ o.kind = "offer"
              BY <1>2, <2>1, <2>3, <5>2, <6>1 DEF Read, OfferLost
            <6>3. PICK q \in log : q.kind = "offer" /\ q.revision = revision /\ q.seq <= e.seq
              BY <2>1 DEF Inv, OfferFirst
            <6>4. o = q
              BY <6>2, <6>3 DEF Inv, OneOfferOneAnswer, Retained, Copied
            <6>5. o.seq > expired
              BY <6>2 DEF Retained
            <6> QED BY <6>3, <6>4, <6>5, <2>1, <1>t
          <5> QED BY <5>1, <5>2
        <4>2. e \in Retained(events)
          BY <4>k, <4>1, <2>1 DEF Retained
        <4> QED BY <4>2, <3>g, <3>2, <2>1
      <3> QED BY <3>1, <3>2, <2>1, <1>t
    <2> QED BY <2>2, <2>3
  <1>3. ASSUME NEW p \in Sides, ReadRefused(p) PROVE e \in got'[s]
    <2>1. e \in log /\ e.revision = revision /\ got' = got
      BY <1>3 DEF ReadRefused, table
    <2>2. CASE s # p
      <3>1. cursor'[s] = cursor[s]
        BY <1>3, <2>2 DEF ReadRefused, Inv, Shape
      <3> QED BY <2>1, <3>1 DEF NothingSilentlyDropped
    <2>3. CASE s = p
      <3>1. cursor'[s] = 0
        BY <1>3, <2>3 DEF ReadRefused, Inv, Shape
      <3> QED BY <3>1, <2>1, <1>t
    <2> QED BY <2>2, <2>3
  <1>4. ASSUME UNCHANGED <<revision, log, cursor, got>> PROVE e \in got'[s]
    BY <1>4 DEF NothingSilentlyDropped
  <1>5. CASE RowsExpire
    BY <1>5, <1>4 DEF RowsExpire, table
  <1>6. CASE SweepPeer
    BY <1>6, <1>4 DEF SweepPeer
  <1>7. CASE End
    BY <1>7, <1>4 DEF End
  <1>8. CASE UNCHANGED vars
    BY <1>8, <1>4 DEF vars, table
  <1> QED BY <1>1, <1>2, <1>3, <1>5, <1>6, <1>7, <1>8 DEF Next

(* A side is never led past an event of the live negotiation it was not      *)
(* given: peer_events refuses the cursor instead.                            *)
THEOREM JournalGapsReported == Spec => []NothingSilentlyDropped
  <1>1. Init => NothingSilentlyDropped
    BY DEF Init, NothingSilentlyDropped
  <1> QED BY <1>1, InvInit, InvNext, NothingDroppedNext, PTL DEF Spec


-----------------------------------------------------------------------------
(* Push notifications, for any number of notices, users and devices and any  *)
(* capacities.                                                               *)

CONSTANTS Notices, Requests, Users, Devices, OwnerOf, ToOf, ConvOf, NoDevice,
          BusCap, QueueCap, Permits, RateMax, MaxRetry, MaxConnects, MaxFaults
VARIABLES stored, published, received, met, revoked, connects, faults, bus, taken, rate,
          status, skipped, outgoing, queue, tasks, backoff, tokens, accepted, late
Pp == INSTANCE PushPipeline

(* A queue in which something of S is found, and one in which it is found    *)
(* once.                                                                     *)
Occurs(q, S) == \E i \in 1 .. Len(q) : q[i] \in S
Once(q, S) == \A i, j \in 1 .. Len(q) : q[i] \in S /\ q[j] \in S => i = j

LEMMA Shifted ==
    ASSUME NEW E, NEW q \in Seq(E), q # <<>>
    PROVE  /\ Tail(q) \in Seq(E) /\ Len(q) \in Nat /\ Len(q) > 0 /\ Len(Tail(q)) = Len(q) - 1 /\ Head(q) = q[1] /\ Head(q) \in E
           /\ \A i \in 1 .. Len(q) - 1 : Tail(q)[i] = q[i + 1]
  <1>1. Len(q) \in Nat /\ Len(q) > 0
    OBVIOUS
  <1>2. Tail(q) \in Seq(E) /\ Len(Tail(q)) = Len(q) - 1 /\ Head(q) = q[1] /\ Head(q) \in E
    BY <1>1
  <1>3. ASSUME NEW i \in 1 .. Len(q) - 1 PROVE Tail(q)[i] = q[i + 1]
    BY <1>1
  <1> QED BY <1>1, <1>2, <1>3

LEMMA Extended ==
    ASSUME NEW E, NEW q \in Seq(E), NEW e \in E
    PROVE  /\ Append(q, e) \in Seq(E) /\ Len(q) \in Nat /\ Len(Append(q, e)) = Len(q) + 1
           /\ Append(q, e)[Len(q) + 1] = e /\ \A i \in 1 .. Len(q) : Append(q, e)[i] = q[i]
  <1>1. Len(q) \in Nat
    OBVIOUS
  <1>2. Append(q, e) \in Seq(E) /\ Len(Append(q, e)) = Len(q) + 1 /\ Append(q, e)[Len(q) + 1] = e
    BY <1>1
  <1>3. ASSUME NEW i \in 1 .. Len(q) PROVE Append(q, e)[i] = q[i]
    BY <1>1
  <1> QED BY <1>1, <1>2, <1>3

LEMMA TailFinds ==
    ASSUME NEW E, NEW q \in Seq(E), q # <<>>, NEW S
    PROVE  /\ Occurs(Tail(q), S) => Occurs(q, S)
           /\ Once(q, S) => Once(Tail(q), S)
           /\ Once(q, S) /\ Head(q) \in S => ~Occurs(Tail(q), S)
           /\ Head(q) \in S => Occurs(q, S)
  <1>r. PICK r, n : r = Tail(q) /\ n = Len(q)
    OBVIOUS
  <1>1. /\ r = Tail(q) /\ n = Len(q) /\ n \in Nat /\ n > 0 /\ Len(r) = n - 1 /\ Head(q) = q[1]
        /\ \A i \in 1 .. n - 1 : r[i] = q[i + 1]
    BY <1>r, Shifted
  <1>2. ASSUME NEW i \in 1 .. n - 1 PROVE r[i] = q[i + 1] /\ i + 1 \in 1 .. n /\ i + 1 # 1
    BY <1>1
  <1>3. 1 \in 1 .. n
    BY <1>1
  <1>4. Occurs(r, S) => Occurs(q, S)
    BY <1>1, <1>2 DEF Occurs
  <1>5. ASSUME Once(q, S) PROVE Once(r, S)
    <2>1. ASSUME NEW i \in 1 .. n - 1, NEW j \in 1 .. n - 1, r[i] \in S, r[j] \in S PROVE i = j
      <3>1. i + 1 = j + 1
        BY <1>1, <1>2, <1>5, <2>1 DEF Once
      <3> QED BY <3>1
    <2> QED BY <1>1, <2>1 DEF Once
  <1>6. ASSUME Once(q, S), Head(q) \in S PROVE ~Occurs(r, S)
    BY <1>1, <1>2, <1>3, <1>6 DEF Once, Occurs
  <1>7. Head(q) \in S => Occurs(q, S)
    BY <1>1, <1>3 DEF Occurs
  <1> QED BY <1>1, <1>4, <1>5, <1>6, <1>7

LEMMA AppendFinds ==
    ASSUME NEW E, NEW q \in Seq(E), NEW e \in E, NEW S
    PROVE  /\ Occurs(Append(q, e), S) => Occurs(q, S) \/ e \in S
           /\ Once(q, S) /\ (e \in S => ~Occurs(q, S)) => Once(Append(q, e), S)
  <1>r. PICK r, n : r = Append(q, e) /\ n = Len(q)
    OBVIOUS
  <1>1. /\ r = Append(q, e) /\ n = Len(q) /\ n \in Nat /\ Len(r) = n + 1 /\ r[n + 1] = e
        /\ \A i \in 1 .. n : r[i] = q[i]
    BY <1>r, Extended
  <1>2. \A i \in 1 .. n + 1 : i \in 1 .. n \/ i = n + 1
    BY <1>1
  <1>3. Occurs(r, S) => Occurs(q, S) \/ e \in S
    BY <1>1, <1>2 DEF Occurs
  <1>4. ASSUME Once(q, S), e \in S => ~Occurs(q, S) PROVE Once(r, S)
    <2>1. ASSUME NEW i \in 1 .. n + 1, NEW j \in 1 .. n + 1, r[i] \in S, r[j] \in S PROVE i = j
      BY <1>1, <1>2, <1>4, <2>1 DEF Once, Occurs
    <2> QED BY <1>1, <2>1 DEF Once
  <1> QED BY <1>1, <1>3, <1>4


LEMMA PublishFinds ==
    ASSUME Pp!DevicesAndBus, NEW E, bus \in Seq(E), NEW e \in E, Pp!Publish(e)
    PROVE  /\ bus' \in Seq(E)
           /\ \A S : /\ Occurs(bus', S) => Occurs(bus, S) \/ e \in S
                     /\ Once(bus, S) /\ (e \in S => ~Occurs(bus, S)) => Once(bus', S)
  <1>1. PICK q : q = IF Len(bus) < BusCap THEN bus ELSE Tail(bus)
    OBVIOUS
  <1>2. bus' = Append(q, e)
    BY <1>1 DEF Pp!Publish
  <1>3. ASSUME q # bus PROVE q = Tail(bus) /\ bus # <<>>
    <2>1. Len(bus) >= BusCap /\ q = Tail(bus)
      BY <1>1, <1>3 DEF Pp!DevicesAndBus
    <2>2. Len(bus) > 0
      BY <2>1 DEF Pp!DevicesAndBus
    <2> QED BY <2>1, <2>2
  <1>4. q \in Seq(E)
    BY <1>3, Shifted
  <1>5. ASSUME NEW S PROVE (Occurs(q, S) => Occurs(bus, S)) /\ (Once(bus, S) => Once(q, S))
    BY <1>3, TailFinds
  <1>6. bus' \in Seq(E)
    BY <1>2, <1>4, Extended
  <1>7. ASSUME NEW S
        PROVE  /\ Occurs(bus', S) => Occurs(q, S) \/ e \in S
               /\ Once(q, S) /\ (e \in S => ~Occurs(q, S)) => Once(bus', S)
    BY <1>2, <1>4, AppendFinds
  <1> QED BY <1>5, <1>6, <1>7

Committed(n, u) == [kind |-> "committed", notice |-> n, user |-> u]
Delivered(n, u) == [kind |-> "delivered", notice |-> n, user |-> u]
RevokedEvent(n) == [kind |-> "revoked", notice |-> n]
Online(u) == [kind |-> "online", user |-> u]
PushEvents ==
    {Committed(n, u) : n \in Notices, u \in Users} \cup {Delivered(n, u) : n \in Notices, u \in Users}
    \cup {RevokedEvent(n) : n \in Notices} \cup {Online(u) : u \in Users}

(* An intent is for all devices of its user or, in a retry, for one of them. *)
Reaches(i, d) == OwnerOf[d] = i.user /\ i.device \in {NoDevice, d}
Intents ==
    {i \in [kind : {"notice", "revoke"}, notice : Notices, user : Users, device : Devices \cup {NoDevice}, retry : Nat] :
        /\ i.retry = 0 <=> i.device = NoDevice
        /\ i.device # NoDevice => OwnerOf[i.device] = i.user}

(* A task that has looked at the intent's state has devices left, all of     *)
(* them the intent's.                                                        *)
PushTasks ==
    {t \in [item : Intents, checked : BOOLEAN, left : SUBSET Devices] :
        /\ t.checked => t.left # {} /\ \A d \in t.left : Reaches(t.item, d)
        /\ ~t.checked => t.left = {}}

Keys == {"notice", "revoke"} \X Notices \X Devices

PushTypes ==
    /\ published \subseteq Notices \X Users /\ revoked \subseteq Notices
    /\ bus \in Seq(PushEvents)
    /\ outgoing \subseteq Intents /\ queue \in Seq(Intents) /\ backoff \subseteq Intents
    /\ tasks \subseteq PushTasks /\ tokens \subseteq Devices /\ accepted \subseteq Keys
    /\ status = [p \in Notices \X Users |-> status[p]]

LEMMA EventOf ==
    ASSUME NEW e \in PushEvents
    PROVE  /\ e.kind = "committed" => e.notice \in Notices /\ e.user \in Users /\ e = Committed(e.notice, e.user)
           /\ e.kind = "delivered" => e.notice \in Notices /\ e.user \in Users /\ e = Delivered(e.notice, e.user)
           /\ e.kind = "revoked" => e.notice \in Notices /\ e = RevokedEvent(e.notice)
           /\ e.kind = "online" => e.user \in Users /\ e = Online(e.user)
  BY DEF PushEvents, Committed, Delivered, RevokedEvent, Online

LEMMA IntentOf ==
    ASSUME NEW k \in {"notice", "revoke"}, NEW n \in Notices, NEW u \in Users
    PROVE  Pp!Item(k, n, u) \in Intents
  BY DEF Intents, Pp!Item

LEMMA RetryOf ==
    ASSUME Pp!DevicesAndBus, NEW i \in Intents, NEW d \in Devices, Reaches(i, d)
    PROVE  /\ Pp!ForRetry(i, d) \in Intents /\ Pp!ForRetry(i, d).kind = i.kind /\ Pp!ForRetry(i, d).notice = i.notice
           /\ Pp!ForRetry(i, d).user = i.user /\ Pp!ForRetry(i, d).device = d
  <1>1. PICK j : j = Pp!ForRetry(i, d)
    OBVIOUS
  <1>2. /\ j = [kind |-> i.kind, notice |-> i.notice, user |-> i.user, device |-> d, retry |-> i.retry + 1]
        /\ i.retry \in Nat
    BY <1>1 DEF Pp!ForRetry, Intents
  <1>3. j.kind = i.kind /\ j.notice = i.notice /\ j.user = i.user /\ j.device = d /\ j.retry = i.retry + 1
    BY <1>2
  <1>4. j \in Intents
    BY <1>2, <1>3 DEF Intents, Reaches, Pp!DevicesAndBus
  <1> QED BY <1>1, <1>3, <1>4


LEMMA CheckedTask ==
    ASSUME NEW i \in Intents, NEW L \in SUBSET Devices, L # {}, \A d \in L : Reaches(i, d),
           NEW t, t = [item |-> i, checked |-> TRUE, left |-> L]
    PROVE  t \in PushTasks /\ t.item = i /\ t.checked /\ t.left = L
  <1>1. t \in [item : Intents, checked : BOOLEAN, left : SUBSET Devices] /\ t.item = i /\ t.checked /\ t.left = L
    OBVIOUS
  <1> QED BY <1>1 DEF PushTasks

LEMMA FreshTask ==
    ASSUME NEW i \in Intents, NEW t, t = [item |-> i, checked |-> FALSE, left |-> {}]
    PROVE  t \in PushTasks /\ t.item = i /\ ~t.checked /\ t.left = {}
  <1>1. t \in [item : Intents, checked : BOOLEAN, left : SUBSET Devices] /\ t.item = i /\ ~t.checked /\ t.left = {}
    OBVIOUS
  <1> QED BY <1>1 DEF PushTasks

LEMMA TaskIs ==
    ASSUME NEW t \in PushTasks
    PROVE  /\ t.item \in Intents /\ t.checked \in BOOLEAN /\ t.left \subseteq Devices
           /\ t.checked => t.left # {} /\ \A d \in t.left : Reaches(t.item, d)
           /\ ~t.checked => t.left = {}
           /\ t = [item |-> t.item, checked |-> t.checked, left |-> t.left]
  BY DEF PushTasks

(* What a step makes of a task: the one that has looked at the state, and    *)
(* the one that has dealt with a device.                                     *)
LEMMA CheckDoes ==
    ASSUME PushTypes, NEW t, Pp!Check(t)
    PROVE  /\ t \in tasks /\ ~t.checked /\ tasks' \subseteq PushTasks
           /\ \A s \in tasks' : \/ s \in tasks /\ s # t
                                \/ /\ s.item = t.item /\ s.checked /\ ~Pp!Stops(t.item)
                                   /\ \A d \in s.left : d \in Devices /\ Reaches(t.item, d)
           /\ \A s, r \in tasks' : s \notin tasks /\ r \notin tasks => s = r
  <1>1. t \in tasks /\ ~t.checked /\ t \in PushTasks /\ tokens \subseteq Devices
    BY DEF Pp!Check, PushTypes
  <1>2. PICK i, T : i = t.item /\ T = Pp!Targets(i)
    OBVIOUS
  <1>3. i \in Intents /\ T \in SUBSET Devices /\ \A d \in T : Reaches(i, d)
    BY <1>1, <1>2, TaskIs DEF Pp!Targets, Reaches
  <1>4. CASE tasks' = tasks \ {t}
    BY <1>1, <1>4 DEF PushTypes
  <1>5. CASE ~Pp!Stops(i) /\ T # {} /\ tasks' = (tasks \ {t}) \cup {[t EXCEPT !.checked = TRUE, !.left = T]}
    <2>1. PICK s : s = [t EXCEPT !.checked = TRUE, !.left = T]
      OBVIOUS
    <2>2. s = [item |-> i, checked |-> TRUE, left |-> T]
      <3>1. PICK l, c : t = [item |-> i, checked |-> c, left |-> l]
        BY <1>1, <1>2, TaskIs
      <3> QED BY <2>1, <3>1
    <2>3. s \in PushTasks /\ s.item = i /\ s.checked /\ s.left = T
      BY <1>3, <1>5, <2>2, CheckedTask
    <2> QED BY <1>1, <1>2, <1>3, <1>5, <2>1, <2>3 DEF PushTypes
  <1> QED BY <1>2, <1>4, <1>5 DEF Pp!Check

LEMMA SendingDoes ==
    ASSUME PushTypes, NEW t, NEW d, Pp!Sending(t, d)
    PROVE  /\ t \in tasks /\ t \in PushTasks /\ t.item \in Intents /\ t.checked /\ d \in t.left /\ d \in Devices /\ Reaches(t.item, d)
           /\ tasks' \subseteq PushTasks
           /\ \A s \in tasks' : (s \in tasks /\ s # t) \/ (s.item = t.item /\ s.checked /\ s.left = t.left \ {d})
           /\ \A s, r \in tasks' : s \notin tasks /\ r \notin tasks => s = r
  <1>1. t \in tasks /\ t \in PushTasks /\ t.item \in Intents /\ t.checked /\ d \in t.left /\ d \in Devices /\ Reaches(t.item, d)
    <2>1. t \in tasks /\ t \in PushTasks /\ t.checked /\ d \in t.left
      BY DEF Pp!Sending, PushTypes
    <2> QED BY <2>1, TaskIs
  <1>2. CASE t.left = {d} /\ tasks' = tasks \ {t}
    BY <1>1, <1>2 DEF PushTypes
  <1>3. CASE t.left # {d} /\ tasks' = (tasks \ {t}) \cup {[t EXCEPT !.left = @ \ {d}]}
    <2>1. PICK s, i, L : s = [t EXCEPT !.left = @ \ {d}] /\ i = t.item /\ L = t.left \ {d}
      OBVIOUS
    <2>2. s = [item |-> i, checked |-> TRUE, left |-> L]
      <3>1. t.checked = TRUE
        BY <1>1, TaskIs
      <3>2. PICK l : t = [item |-> i, checked |-> TRUE, left |-> l]
        BY <1>1, <2>1, <3>1, TaskIs
      <3>3. s = [t EXCEPT !.left = L]
        BY <2>1
      <3> QED BY <3>2, <3>3
    <2>3. L # {} /\ L \in SUBSET Devices /\ i \in Intents /\ \A x \in L : Reaches(i, x)
      BY <1>1, <1>3, <2>1, TaskIs
    <2>4. s \in PushTasks /\ s.item = i /\ s.checked /\ s.left = L
      BY <2>2, <2>3, CheckedTask
    <2> QED BY <1>1, <1>3, <2>1, <2>4 DEF PushTypes
  <1>4. \/ t.left = {d} /\ tasks' = (tasks \ {t}) \cup {}
        \/ t.left # {d} /\ tasks' = (tasks \ {t}) \cup {[t EXCEPT !.left = @ \ {d}]}
    BY DEF Pp!Sending, Pp!Done
  <1> QED BY <1>1, <1>2, <1>3, <1>4

LEMMA MarkDoes ==
    ASSUME NEW P, NEW s, Pp!Mark(P, s)
    PROVE  /\ status' = [p \in Notices \X Users |-> status'[p]]
           /\ \A p \in Notices \X Users : status'[p] = IF p \in P /\ status[p] = "pending" THEN s ELSE status[p]
  <1>1. status' = [p \in Notices \X Users |-> IF p \in P /\ status[p] = "pending" THEN s ELSE status[p]]
    BY DEF Pp!Mark, Pp!Pairs
  <1> QED BY <1>1

LEMMA PlanDoes ==
    ASSUME PushTypes, NEW n \in Notices, NEW u \in Users, Pp!Plan(n, u)
    PROVE  /\ status' = [p \in Notices \X Users |-> status'[p]] /\ status'[<<n, u>>] = "pending"
           /\ \A p \in Notices \X Users : p # <<n, u>> => status'[p] = status[p]
           /\ outgoing' = {Pp!Item("notice", n, u)} /\ outgoing' \subseteq Intents
  <1>1. status' = [status EXCEPT ![<<n, u>>] = "pending"] /\ outgoing' = {Pp!Item("notice", n, u)}
    BY DEF Pp!Plan
  <1>2. <<n, u>> \in Notices \X Users
    OBVIOUS
  <1> QED BY <1>1, <1>2, IntentOf DEF PushTypes


(* The steps, by what they change. *)
carriers == <<outgoing, queue, tasks, backoff, accepted, tokens, status, late>>
Quiet == UNCHANGED <<carriers, published, received, met, revoked, bus>> /\ stored \subseteq stored'
Publishes ==
    \/ \E n \in Notices, u \in Users : Pp!PublishCommitted(n, u) \/ Pp!Deliver(n, u)
    \/ \E n \in Notices : Pp!Revoke(n)
    \/ \E u \in Users : Pp!Connect(u)
Handles ==
    \/ Pp!PlanMuted \/ Pp!PlanDuplicate \/ Pp!PlanMessage \/ Pp!PlanOverLimit \/ Pp!PlanRequest
    \/ Pp!HandleDelivered \/ Pp!HandleOnline \/ Pp!HandleRevoked
Works ==
    \/ \E i \in outgoing : Pp!Send(i)
    \/ Pp!Start
    \/ \E t \in tasks : Pp!Check(t) \/ Pp!Timeout(t)
    \/ \E t \in tasks, d \in Devices : Pp!SendOk(t, d) \/ Pp!SendFails(t, d) \/ Pp!TokenInvalid(t, d)
    \/ \E i \in backoff : Pp!RetryDue(i)

LEMMA PushSteps ==
    ASSUME [Pp!Next]_(Pp!vars)
    PROVE  Quiet \/ Publishes \/ Handles \/ Works
  <1>1. CASE UNCHANGED Pp!vars
    BY <1>1 DEF Pp!vars, Pp!world, Pp!planner, Pp!worker, Quiet, carriers
  <1>2. CASE Pp!Handlers
    <2>1. ASSUME NEW n \in Notices, Pp!Store(n) PROVE Quiet
      BY <2>1 DEF Pp!Store, Pp!planner, Pp!worker, Quiet, carriers
    <2>2. ASSUME NEW p \in Notices \X Users, Pp!PublishCommitted(p[1], p[2]) \/ Pp!Deliver(p[1], p[2]) PROVE Publishes
      <3>1. p[1] \in Notices /\ p[2] \in Users
        OBVIOUS
      <3> QED BY <2>2, <3>1 DEF Publishes
    <2> QED BY <1>2, <2>1, <2>2 DEF Pp!Handlers, Pp!Pairs, Publishes
  <1>3. CASE Pp!Planner
    <2>1. ASSUME NEW k, Pp!DedupExpires(k) PROVE Quiet
      BY <2>1 DEF Pp!DedupExpires, Pp!world, Pp!worker, Quiet, carriers
    <2>2. ASSUME NEW u, Pp!RateExpires(u) PROVE Quiet
      BY <2>2 DEF Pp!RateExpires, Pp!world, Pp!worker, Quiet, carriers
    <2> QED BY <1>3, <2>1, <2>2 DEF Pp!Planner, Handles, Works
  <1>4. CASE Pp!Worker
    BY <1>4 DEF Pp!Worker, Works
  <1> QED BY <1>1, <1>2, <1>3, <1>4 DEF Pp!Next

LEMMA PublishersDo ==
    ASSUME Pp!DevicesAndBus, PushTypes, Publishes
    PROVE  /\ UNCHANGED <<carriers, stored>> /\ published \subseteq published' /\ revoked \subseteq revoked'
           /\ \/ \E n \in Notices, u \in Users :
                   /\ n \in stored /\ <<n, u>> \notin published /\ published' = published \cup {<<n, u>>}
                   /\ UNCHANGED <<received, met, revoked>> /\ Pp!Publish(Committed(n, u))
              \/ \E n \in Notices, u \in Users :
                   /\ received' = received \cup {<<n, u>>}
                   /\ UNCHANGED <<published, met, revoked>> /\ Pp!Publish(Delivered(n, u))
              \/ \E n \in Notices :
                   /\ n \notin revoked /\ revoked' = revoked \cup {n}
                   /\ UNCHANGED <<published, received, met>> /\ Pp!Publish(RevokedEvent(n))
              \/ \E u \in Users :
                   /\ met' = met \cup (stored \X {u})
                   /\ UNCHANGED <<published, received, revoked>> /\ Pp!Publish(Online(u))
  <1>1. ASSUME NEW n \in Notices, NEW u \in Users, Pp!PublishCommitted(n, u) PROVE
           /\ UNCHANGED <<carriers, stored, received, met, revoked>> /\ n \in stored /\ <<n, u>> \notin published
           /\ published' = published \cup {<<n, u>>} /\ Pp!Publish(Committed(n, u))
    BY <1>1 DEF Pp!PublishCommitted, Pp!planner, Pp!worker, carriers, Committed
  <1>2. ASSUME NEW n \in Notices, NEW u \in Users, Pp!Deliver(n, u) PROVE
           /\ UNCHANGED <<carriers, stored, published, met, revoked>>
           /\ received' = received \cup {<<n, u>>} /\ Pp!Publish(Delivered(n, u))
    BY <1>2 DEF Pp!Deliver, Pp!planner, Pp!worker, carriers, Delivered
  <1>3. ASSUME NEW n \in Notices, Pp!Revoke(n) PROVE
           /\ UNCHANGED <<carriers, stored, published, received, met>> /\ n \notin revoked
           /\ revoked' = revoked \cup {n} /\ Pp!Publish(RevokedEvent(n))
    BY <1>3 DEF Pp!Revoke, Pp!planner, Pp!worker, carriers, RevokedEvent
  <1>4. ASSUME NEW u \in Users, Pp!Connect(u) PROVE
           /\ UNCHANGED <<carriers, stored, published, received, revoked>>
           /\ met' = met \cup (stored \X {u}) /\ Pp!Publish(Online(u))
    BY <1>4 DEF Pp!Connect, Pp!planner, Pp!worker, carriers, Online
  <1>5. CASE \E n \in Notices, u \in Users : Pp!PublishCommitted(n, u)
    BY <1>1, <1>5
  <1>6. CASE \E n \in Notices, u \in Users : Pp!Deliver(n, u)
    BY <1>2, <1>6
  <1>7. CASE \E n \in Notices : Pp!Revoke(n)
    BY <1>3, <1>7
  <1>8. CASE \E u \in Users : Pp!Connect(u)
    BY <1>4, <1>8
  <1> QED BY <1>5, <1>6, <1>7, <1>8 DEF Publishes

LEMMA HandlersDo ==
    ASSUME PushTypes, Handles
    PROVE  /\ outgoing = {} /\ bus # <<>> /\ bus' = Tail(bus)
           /\ UNCHANGED <<stored, published, received, met, revoked, queue, tasks, backoff, tokens, accepted, late>>
           /\ \/ UNCHANGED <<outgoing, status>>
              \/ \E n \in Notices, u \in Users : Head(bus) = Committed(n, u) /\ Pp!Plan(n, u)
              \/ \E n \in Notices, u \in Users :
                   Head(bus) = Delivered(n, u) /\ Pp!Mark({<<n, u>>}, "cancelled") /\ UNCHANGED outgoing
              \/ \E u \in Users : Head(bus) = Online(u) /\ Pp!Mark(Notices \X {u}, "cancelled") /\ UNCHANGED outgoing
              \/ \E n \in Notices : /\ Head(bus) = RevokedEvent(n) /\ Pp!Mark({n} \X Users, "revoked")
                                    /\ outgoing' = {Pp!Item("revoke", n, u) : u \in Pp!Notified(n)}
  <1>1. ASSUME NEW k, Pp!Handling(k) PROVE
           /\ outgoing = {} /\ bus # <<>> /\ bus' = Tail(bus) /\ Head(bus).kind = k /\ Head(bus) \in PushEvents
           /\ UNCHANGED <<stored, published, received, met, revoked, queue, tasks, backoff, tokens, accepted, late>>
    <2>1. /\ outgoing = {} /\ bus # <<>> /\ bus' = Tail(bus) /\ Head(bus).kind = k
          /\ UNCHANGED <<stored, published, received, met, revoked, queue, tasks, backoff, tokens, accepted, late>>
      BY <1>1 DEF Pp!Handling, Pp!world, Pp!worker
    <2>2. bus \in Seq(PushEvents)
      BY DEF PushTypes
    <2> QED BY <2>1, <2>2, Shifted
  <1>2. CASE Pp!PlanMuted \/ Pp!PlanDuplicate \/ Pp!PlanOverLimit
    BY <1>1, <1>2 DEF Pp!PlanMuted, Pp!PlanDuplicate, Pp!PlanOverLimit, Pp!planner
  <1>3. CASE Pp!PlanMessage \/ Pp!PlanRequest
    <2>1. Pp!Handling("committed") /\ Pp!Plan(Head(bus).notice, Head(bus).user)
      BY <1>3 DEF Pp!PlanMessage, Pp!PlanRequest
    <2> QED BY <1>1, <2>1, EventOf
  <1>4. CASE Pp!HandleDelivered
    <2>1. PICK n, u : n = Head(bus).notice /\ u = Head(bus).user
      OBVIOUS
    <2>2. Pp!Handling("delivered") /\ Pp!Mark({<<n, u>>}, "cancelled") /\ UNCHANGED outgoing
      BY <1>4, <2>1 DEF Pp!HandleDelivered, Pp!CancelledByDelivery
    <2>3. n \in Notices /\ u \in Users /\ Head(bus) = Delivered(n, u)
      BY <1>1, <2>1, <2>2, EventOf
    <2> QED BY <1>1, <2>2, <2>3
  <1>5. CASE Pp!HandleOnline
    <2>1. Pp!Handling("online") /\ Pp!Mark(Notices \X {Head(bus).user}, "cancelled") /\ UNCHANGED outgoing
      BY <1>5 DEF Pp!HandleOnline
    <2>2. PICK u : u = Head(bus).user
      OBVIOUS
    <2>3. u \in Users /\ Head(bus) = Online(u)
      BY <1>1, <2>1, <2>2, EventOf
    <2>4. Pp!Mark(Notices \X {u}, "cancelled")
      BY <2>1, <2>2
    <2> QED BY <1>1, <2>1, <2>3, <2>4
  <1>6. CASE Pp!HandleRevoked
    <2>1. PICK n : n = Head(bus).notice
      OBVIOUS
    <2>2. Pp!Handling("revoked") /\ Pp!Mark({n} \X Users, "revoked") /\ outgoing' = {Pp!Item("revoke", n, u) : u \in Pp!Notified(n)}
      BY <1>6, <2>1 DEF Pp!HandleRevoked
    <2>3. n \in Notices /\ Head(bus) = RevokedEvent(n)
      BY <1>1, <2>1, <2>2, EventOf
    <2> QED BY <1>1, <2>2, <2>3
  <1> QED BY <1>2, <1>3, <1>4, <1>5, <1>6 DEF Handles


LEMMA EventsAre ==
    /\ \A n \in Notices, u \in Users : Committed(n, u) \in PushEvents /\ Delivered(n, u) \in PushEvents
    /\ \A n \in Notices : RevokedEvent(n) \in PushEvents
    /\ \A u \in Users : Online(u) \in PushEvents
  BY DEF PushEvents

LEMMA WorksDo ==
    ASSUME Works
    PROVE  UNCHANGED <<stored, published, received, met, revoked, bus, status>>
  BY DEF Works, Pp!Send, Pp!Start, Pp!Check, Pp!Timeout, Pp!SendOk, Pp!SendFails, Pp!TokenInvalid, Pp!RetryDue, Pp!world, Pp!planner

LEMMA StartDoes ==
    ASSUME PushTypes, Pp!Start
    PROVE  /\ queue # <<>> /\ queue' = Tail(queue) /\ queue' \in Seq(Intents) /\ Head(queue) \in Intents
           /\ UNCHANGED <<outgoing, backoff, accepted, tokens, late>>
           /\ tasks' \subseteq PushTasks
           /\ \A s \in tasks' : s \in tasks \/ (s.item = Head(queue) /\ ~s.checked)
           /\ \A s, r \in tasks' : s \notin tasks /\ r \notin tasks => s = r
  <1>1. /\ queue # <<>> /\ queue' = Tail(queue) /\ UNCHANGED <<outgoing, backoff, accepted, tokens, late>>
        /\ tasks' = tasks \cup {[item |-> Head(queue), checked |-> FALSE, left |-> {}]}
    BY DEF Pp!Start, Pp!planner
  <1>2. queue' \in Seq(Intents) /\ Head(queue) \in Intents
    BY <1>1, Shifted DEF PushTypes
  <1>3. PICK t : t = [item |-> Head(queue), checked |-> FALSE, left |-> {}]
    OBVIOUS
  <1>4. t \in PushTasks /\ t.item = Head(queue) /\ ~t.checked
    BY <1>2, <1>3, FreshTask
  <1> QED BY <1>1, <1>2, <1>3, <1>4 DEF PushTypes

LEMMA PushTypesNext ==
    ASSUME Pp!DevicesAndBus, PushTypes, Quiet \/ Publishes \/ Handles \/ Works
    PROVE  PushTypes'
  <1>1. CASE Quiet
    BY <1>1 DEF Quiet, carriers, PushTypes
  <1>2. CASE Publishes
    <2>1. UNCHANGED <<outgoing, queue, tasks, backoff, accepted, tokens, status>> /\ bus \in Seq(PushEvents)
      BY <1>2, PublishersDo DEF carriers, PushTypes
    <2>2. ASSUME NEW e \in PushEvents, Pp!Publish(e) PROVE bus' \in Seq(PushEvents)
      BY <2>1, <2>2, PublishFinds
    <2>3. bus' \in Seq(PushEvents) /\ published' \subseteq Notices \X Users /\ revoked' \subseteq Notices
      <3>1. CASE \E n \in Notices, u \in Users : published' = published \cup {<<n, u>>} /\ UNCHANGED revoked /\ Pp!Publish(Committed(n, u))
        BY <2>2, <3>1, EventsAre DEF PushTypes
      <3>2. CASE \E n \in Notices, u \in Users : UNCHANGED <<published, revoked>> /\ Pp!Publish(Delivered(n, u))
        BY <2>2, <3>2, EventsAre DEF PushTypes
      <3>3. CASE \E n \in Notices : revoked' = revoked \cup {n} /\ UNCHANGED published /\ Pp!Publish(RevokedEvent(n))
        BY <2>2, <3>3, EventsAre DEF PushTypes
      <3>4. CASE \E u \in Users : UNCHANGED <<published, revoked>> /\ Pp!Publish(Online(u))
        BY <2>2, <3>4, EventsAre DEF PushTypes
      <3> QED BY <1>2, <3>1, <3>2, <3>3, <3>4, PublishersDo
    <2> QED BY <2>1, <2>3 DEF PushTypes
  <1>3. CASE Handles
    <2>1. UNCHANGED <<published, revoked, queue, tasks, backoff, tokens, accepted>> /\ bus' \in Seq(PushEvents)
      <3>1. bus # <<>> /\ bus' = Tail(bus) /\ bus \in Seq(PushEvents)
        BY <1>3, HandlersDo DEF PushTypes
      <3> QED BY <1>3, <3>1, HandlersDo, Shifted
    <2>2. outgoing' \subseteq Intents /\ status' = [p \in Notices \X Users |-> status'[p]]
      <3>1. CASE UNCHANGED <<outgoing, status>>
        BY <3>1 DEF PushTypes
      <3>2. CASE \E n \in Notices, u \in Users : Pp!Plan(n, u)
        BY <3>2, PlanDoes
      <3>3. CASE \E P, s : Pp!Mark(P, s) /\ UNCHANGED outgoing
        BY <3>3, MarkDoes DEF PushTypes
      <3>4. CASE \E n \in Notices : Pp!Mark({n} \X Users, "revoked") /\ outgoing' = {Pp!Item("revoke", n, u) : u \in Pp!Notified(n)}
        BY <3>4, MarkDoes, IntentOf DEF Pp!Notified
      <3> QED BY <1>3, <3>1, <3>2, <3>3, <3>4, HandlersDo
    <2> QED BY <2>1, <2>2 DEF PushTypes
  <1>4. CASE Works
    <2>u. UNCHANGED <<published, revoked, bus, status>>
      BY <1>4, WorksDo
    <2>1. ASSUME NEW i \in outgoing, Pp!Send(i) PROVE PushTypes'
      <3>1. outgoing' = outgoing \ {i} /\ queue' = Append(queue, i) /\ UNCHANGED <<tasks, backoff, accepted, tokens>> /\ i \in Intents
        BY <2>1 DEF Pp!Send, Pp!worker, PushTypes
      <3>2. queue' \in Seq(Intents)
        BY <3>1, Extended DEF PushTypes
      <3> QED BY <2>u, <3>1, <3>2 DEF PushTypes
    <2>2. ASSUME Pp!Start PROVE PushTypes'
      BY <2>u, <2>2, StartDoes DEF PushTypes
    <2>3. ASSUME NEW t \in tasks, Pp!Check(t) PROVE PushTypes'
      <3>1. UNCHANGED <<outgoing, queue, backoff, tokens, accepted>>
        BY <2>3 DEF Pp!Check, Pp!planner
      <3> QED BY <2>u, <2>3, <3>1, CheckDoes DEF PushTypes
    <2>4. ASSUME NEW t \in tasks, Pp!Timeout(t) PROVE PushTypes'
      BY <2>u, <2>4 DEF Pp!Timeout, Pp!planner, PushTypes
    <2>5. ASSUME NEW t \in tasks, NEW d \in Devices, Pp!SendOk(t, d) \/ Pp!SendFails(t, d) \/ Pp!TokenInvalid(t, d) PROVE PushTypes'
      <3>1. Pp!Sending(t, d) /\ UNCHANGED <<outgoing, queue>>
        BY <2>5 DEF Pp!SendOk, Pp!SendFails, Pp!TokenInvalid, Pp!planner
      <3>2. t.item \in Intents /\ Reaches(t.item, d) /\ tasks' \subseteq PushTasks
        BY <3>1, SendingDoes
      <3>3. accepted' \subseteq Keys
        <4>1. <<t.item.kind, t.item.notice, d>> \in Keys
          BY <3>2 DEF Intents, Keys
        <4> QED BY <2>5, <4>1 DEF Pp!SendOk, Pp!SendFails, Pp!TokenInvalid, PushTypes
      <3>4. backoff' \subseteq Intents
        BY <2>5, <3>2, RetryOf DEF Pp!SendOk, Pp!SendFails, Pp!TokenInvalid, PushTypes
      <3>5. tokens' \subseteq Devices
        BY <2>5 DEF Pp!SendOk, Pp!SendFails, Pp!TokenInvalid, PushTypes
      <3> QED BY <2>u, <3>1, <3>2, <3>3, <3>4, <3>5 DEF PushTypes
    <2>6. ASSUME NEW i \in backoff, Pp!RetryDue(i) PROVE PushTypes'
      <3>1. i \in Intents /\ backoff' = backoff \ {i} /\ (queue' = queue \/ queue' = Append(queue, i)) /\ UNCHANGED <<outgoing, tasks, accepted, tokens>>
        BY <2>6 DEF Pp!RetryDue, Pp!planner, PushTypes
      <3>2. queue' \in Seq(Intents)
        BY <3>1, Extended DEF PushTypes
      <3> QED BY <2>u, <3>1, <3>2 DEF PushTypes
    <2> QED BY <1>4, <2>1, <2>2, <2>3, <2>4, <2>5, <2>6 DEF Works
  <1> QED BY <1>1, <1>2, <1>3, <1>4


(* Only what is stored is published, and only what was published has an      *)
(* intent; a committed event is on the bus once, before there is an intent.  *)
Fresh(n, u) ==
    /\ Once(bus, {Committed(n, u)})
    /\ Occurs(bus, {Committed(n, u)}) => <<n, u>> \in published /\ status[<<n, u>>] = "none"
    /\ status[<<n, u>>] # "none" => <<n, u>> \in published
    /\ <<n, u>> \in published => n \in stored

FreshInv == \A n \in Notices, u \in Users : Fresh(n, u)

LEMMA EventsDiffer ==
    \A n, m \in Notices, u, v \in Users :
        /\ Committed(n, u) = Committed(m, v) => n = m /\ u = v
        /\ Delivered(n, u) # Committed(m, v) /\ RevokedEvent(n) # Committed(m, v) /\ Online(u) # Committed(m, v)
        /\ Delivered(n, u) = Delivered(m, v) => n = m /\ u = v
        /\ Delivered(n, u) # RevokedEvent(m) /\ Delivered(n, u) # Online(v)
        /\ RevokedEvent(n) = RevokedEvent(m) => n = m
        /\ RevokedEvent(n) # Online(u)
        /\ Online(u) = Online(v) => u = v
  BY DEF Committed, Delivered, RevokedEvent, Online

LEMMA FreshNext ==
    ASSUME Pp!DevicesAndBus, PushTypes, FreshInv, Quiet \/ Publishes \/ Handles \/ Works
    PROVE  FreshInv'
  <1> SUFFICES ASSUME NEW n \in Notices, NEW u \in Users PROVE Fresh(n, u)'
    BY DEF FreshInv
  <1>f. Fresh(n, u) /\ bus \in Seq(PushEvents) /\ <<n, u>> \in Notices \X Users
    BY DEF FreshInv, PushTypes
  <1>s. PICK S : S = {Committed(n, u)}
    OBVIOUS
  <1>1. ASSUME UNCHANGED <<bus, status, published>>, stored \subseteq stored' PROVE Fresh(n, u)'
    BY <1>1, <1>f DEF Fresh
  <1>2. CASE Publishes
    <2>1. UNCHANGED <<status, stored>> /\ published \subseteq published'
      BY <1>2, PublishersDo DEF carriers
    <2>2. ASSUME NEW e \in PushEvents, e # Committed(n, u), Pp!Publish(e), UNCHANGED published PROVE Fresh(n, u)'
      <3>1. (Occurs(bus', S) => Occurs(bus, S)) /\ (Once(bus, S) => Once(bus', S))
        BY <1>f, <1>s, <2>2, PublishFinds
      <3> QED BY <1>f, <1>s, <2>1, <2>2, <3>1 DEF Fresh
    <2>3. ASSUME NEW m \in Notices, NEW v \in Users, m \in stored, <<m, v>> \notin published,
                 published' = published \cup {<<m, v>>}, Pp!Publish(Committed(m, v)) PROVE Fresh(n, u)'
      <3>1. Committed(m, v) \in S => n = m /\ u = v
        BY <1>s, EventsDiffer
      <3>2. Occurs(bus, S) => <<n, u>> \in published
        BY <1>f, <1>s DEF Fresh
      <3>3. Committed(m, v) \in S => ~Occurs(bus, S)
        BY <2>3, <3>1, <3>2
      <3>4. (Occurs(bus', S) => Occurs(bus, S) \/ Committed(m, v) \in S) /\ (Once(bus, S) => Once(bus', S))
        <4>1. Committed(m, v) \in PushEvents
          BY EventsAre
        <4> QED BY <1>f, <2>3, <3>3, <4>1, PublishFinds
      <3>5. status[<<n, u>>] # "none" => <<n, u>> \in published
        BY <1>f DEF Fresh
      <3>6. /\ Once(bus', S) /\ (Occurs(bus', S) => <<n, u>> \in published' /\ status'[<<n, u>>] = "none")
            /\ (status'[<<n, u>>] # "none" => <<n, u>> \in published') /\ (<<n, u>> \in published' => n \in stored')
        BY <1>f, <1>s, <2>1, <2>3, <3>1, <3>2, <3>4, <3>5 DEF Fresh
      <3> QED BY <1>s, <3>6 DEF Fresh
    <2>4. CASE \E m \in Notices, v \in Users : UNCHANGED published /\ Pp!Publish(Delivered(m, v))
      BY <2>2, <2>4, EventsAre, EventsDiffer
    <2>5. CASE \E m \in Notices : UNCHANGED published /\ Pp!Publish(RevokedEvent(m))
      BY <2>2, <2>5, EventsAre, EventsDiffer
    <2>6. CASE \E v \in Users : UNCHANGED published /\ Pp!Publish(Online(v))
      BY <2>2, <2>6, EventsAre, EventsDiffer
    <2> QED BY <1>2, <2>3, <2>4, <2>5, <2>6, PublishersDo
  <1>3. CASE Handles
    <2>1. UNCHANGED <<published, stored>> /\ bus # <<>> /\ bus' = Tail(bus)
      BY <1>3, HandlersDo
    <2>2. /\ Occurs(bus', S) => Occurs(bus, S)
          /\ Once(bus, S) => Once(bus', S)
          /\ Once(bus, S) /\ Head(bus) \in S => ~Occurs(bus', S) /\ Occurs(bus, S)
      BY <1>f, <2>1, TailFinds
    <2>3. ASSUME status'[<<n, u>>] = "none" <=> status[<<n, u>>] = "none" PROVE Fresh(n, u)'
      BY <1>f, <1>s, <2>1, <2>2, <2>3 DEF Fresh
    <2>4. ASSUME NEW P, NEW s, s # "none", Pp!Mark(P, s) PROVE Fresh(n, u)'
      BY <1>f, <2>3, <2>4, MarkDoes
    <2>5. ASSUME NEW m \in Notices, NEW v \in Users, Head(bus) = Committed(m, v), Pp!Plan(m, v) PROVE Fresh(n, u)'
      <3>1. CASE n = m /\ u = v
        BY <1>f, <1>s, <2>1, <2>2, <2>5, <3>1, PlanDoes DEF Fresh
      <3>2. CASE ~(n = m /\ u = v)
        BY <1>f, <2>3, <2>5, <3>2, PlanDoes
      <3> QED BY <3>1, <3>2
    <2> QED BY <1>3, <2>3, <2>4, <2>5, HandlersDo
  <1> QED BY <1>1, <1>2, <1>3, WorksDo DEF Quiet, carriers


(* The push of a notice, or its removal, to one device is in one place at    *)
(* most: announced on the bus, planned, queued, with a task, waiting for its *)
(* retry, or accepted by a provider.                                         *)
Announcing(x) == IF x[1] = "notice" THEN {Committed(x[2], OwnerOf[x[3]])} ELSE {RevokedEvent(x[2])}
Carrying(x) == {i \in Intents : i.kind = x[1] /\ i.notice = x[2] /\ Reaches(i, x[3])}
Working(x) ==
    {t \in PushTasks : /\ t.item.kind = x[1] /\ t.item.notice = x[2] /\ Reaches(t.item, x[3])
                       /\ t.checked => x[3] \in t.left}
Begun(x) == IF x[1] = "notice" THEN <<x[2], OwnerOf[x[3]]>> \in published ELSE x[2] \in revoked

Within(Q, S) == \E i \in Q : i \in S
Single(Q, S) == \A i, j \in Q : i \in S /\ j \in S => i = j

OnlyCarrier(x) ==
    /\ Once(bus, Announcing(x)) /\ Once(queue, Carrying(x))
    /\ Single(outgoing, Carrying(x)) /\ Single(backoff, Carrying(x)) /\ Single(tasks, Working(x))
    /\ Occurs(bus, Announcing(x)) =>
          /\ ~Within(outgoing, Carrying(x)) /\ ~Occurs(queue, Carrying(x)) /\ ~Within(tasks, Working(x))
          /\ ~Within(backoff, Carrying(x)) /\ x \notin accepted
    /\ Within(outgoing, Carrying(x)) =>
          /\ ~Occurs(queue, Carrying(x)) /\ ~Within(tasks, Working(x)) /\ ~Within(backoff, Carrying(x)) /\ x \notin accepted
    /\ Occurs(queue, Carrying(x)) => ~Within(tasks, Working(x)) /\ ~Within(backoff, Carrying(x)) /\ x \notin accepted
    /\ Within(tasks, Working(x)) => ~Within(backoff, Carrying(x)) /\ x \notin accepted
    /\ Within(backoff, Carrying(x)) => x \notin accepted
    /\ \/ Occurs(bus, Announcing(x)) \/ Within(outgoing, Carrying(x)) \/ Occurs(queue, Carrying(x))
       \/ Within(tasks, Working(x)) \/ Within(backoff, Carrying(x)) \/ x \in accepted
       => Begun(x)

CarrierInv == \A x \in Keys : OnlyCarrier(x)

LEMMA ItemOfKey ==
    ASSUME Pp!DevicesAndBus, NEW x \in Keys, NEW k \in {"notice", "revoke"}, NEW n \in Notices, NEW u \in Users,
           Pp!Item(k, n, u) \in Carrying(x)
    PROVE  x[1] = k /\ x[2] = n /\ OwnerOf[x[3]] = u
  BY DEF Carrying, Pp!Item, Reaches

LEMMA AnnouncedKey ==
    ASSUME Pp!DevicesAndBus, NEW x \in Keys
    PROVE  /\ \A n \in Notices, u \in Users :
                /\ Committed(n, u) \in Announcing(x) => x[1] = "notice" /\ x[2] = n /\ OwnerOf[x[3]] = u
                /\ Delivered(n, u) \notin Announcing(x)
           /\ \A n \in Notices : RevokedEvent(n) \in Announcing(x) => x[1] = "revoke" /\ x[2] = n
           /\ \A u \in Users : Online(u) \notin Announcing(x)
           /\ x[1] = "notice" => Committed(x[2], OwnerOf[x[3]]) \in Announcing(x)
           /\ x[1] = "revoke" => RevokedEvent(x[2]) \in Announcing(x)
  <1>1. x[1] \in {"notice", "revoke"} /\ x[2] \in Notices /\ OwnerOf[x[3]] \in Users
    BY DEF Keys, Pp!DevicesAndBus
  <1> QED BY <1>1, EventsDiffer DEF Announcing

LEMMA RetryOfKey ==
    ASSUME Pp!DevicesAndBus, NEW x \in Keys, NEW i \in Intents, NEW d \in Devices, Reaches(i, d), Pp!ForRetry(i, d) \in Carrying(x)
    PROVE  x = <<i.kind, i.notice, d>>
  <1>1. PICK j : j = Pp!ForRetry(i, d)
    OBVIOUS
  <1>2. j.kind = i.kind /\ j.notice = i.notice /\ j.device = d
    BY <1>1, RetryOf
  <1>3. x[1] = i.kind /\ x[2] = i.notice /\ x[3] = d
    BY <1>1, <1>2 DEF Carrying, Reaches, Pp!DevicesAndBus
  <1> QED BY <1>3 DEF Keys

(* One task stands for another, or for none. *)
LEMMA TaskMoves ==
    ASSUME NEW W, NEW t \in tasks, Single(tasks, W),
           \A s \in tasks' : (s \in tasks => s # t) /\ (s \in W /\ s \notin tasks => t \in W),
           \A s, r \in tasks' : s \notin tasks /\ r \notin tasks => s = r
    PROVE  Single(tasks', W) /\ (Within(tasks', W) => Within(tasks, W))
  BY DEF Single, Within

LEMMA CarrierPublished ==
    ASSUME Pp!DevicesAndBus, PushTypes, Publishes, NEW x \in Keys, OnlyCarrier(x)
    PROVE  OnlyCarrier(x)'
  <1>1. PICK N : N = Announcing(x)
    OBVIOUS
  <1>2. UNCHANGED <<outgoing, queue, tasks, backoff, accepted>> /\ published \subseteq published' /\ revoked \subseteq revoked' /\ bus \in Seq(PushEvents)
    BY PublishersDo DEF carriers, PushTypes
  <1>3. Begun(x) => Begun(x)'
    BY <1>2 DEF Begun
  <1>4. ASSUME NEW e \in PushEvents, Pp!Publish(e), e \in N => ~Begun(x) /\ Begun(x)' PROVE OnlyCarrier(x)'
    <2>1. /\ Occurs(bus', N) => Occurs(bus, N) \/ e \in N
          /\ Once(bus, N) /\ (e \in N => ~Occurs(bus, N)) => Once(bus', N)
      BY <1>2, <1>4, PublishFinds
    <2> QED BY <1>1, <1>2, <1>3, <1>4, <2>1 DEF OnlyCarrier
  <1>5. ASSUME NEW n \in Notices, NEW u \in Users, <<n, u>> \notin published, published' = published \cup {<<n, u>>}, Pp!Publish(Committed(n, u))
        PROVE  OnlyCarrier(x)'
    <2>1. Committed(n, u) \in N => ~Begun(x) /\ Begun(x)'
      BY <1>1, <1>5, AnnouncedKey DEF Begun
    <2> QED BY <1>4, <1>5, <2>1, EventsAre
  <1>6. ASSUME NEW n \in Notices, n \notin revoked, revoked' = revoked \cup {n}, Pp!Publish(RevokedEvent(n)) PROVE OnlyCarrier(x)'
    <2>1. RevokedEvent(n) \in N => ~Begun(x) /\ Begun(x)'
      BY <1>1, <1>6, AnnouncedKey DEF Begun
    <2> QED BY <1>4, <1>6, <2>1, EventsAre
  <1>7. ASSUME NEW n \in Notices, NEW u \in Users, Pp!Publish(Delivered(n, u)) PROVE OnlyCarrier(x)'
    BY <1>1, <1>4, <1>7, EventsAre, AnnouncedKey
  <1>8. ASSUME NEW u \in Users, Pp!Publish(Online(u)) PROVE OnlyCarrier(x)'
    BY <1>1, <1>4, <1>8, EventsAre, AnnouncedKey
  <1> QED BY <1>5, <1>6, <1>7, <1>8, PublishersDo

LEMMA CarrierHandled ==
    ASSUME Pp!DevicesAndBus, PushTypes, Handles, NEW x \in Keys, OnlyCarrier(x)
    PROVE  OnlyCarrier(x)'
  <1>1. PICK N, C : N = Announcing(x) /\ C = Carrying(x)
    OBVIOUS
  <1>2. /\ outgoing = {} /\ bus # <<>> /\ bus' = Tail(bus) /\ bus \in Seq(PushEvents)
        /\ UNCHANGED <<published, revoked, queue, tasks, backoff, accepted>>
    BY HandlersDo DEF PushTypes
  <1>3. /\ Occurs(bus', N) => Occurs(bus, N)
        /\ Once(bus, N) => Once(bus', N)
        /\ Once(bus, N) /\ Head(bus) \in N => ~Occurs(bus', N) /\ Occurs(bus, N)
    BY <1>2, TailFinds
  <1>4. Single(outgoing', C) /\ (Within(outgoing', C) => Head(bus) \in N)
    <2>1. CASE outgoing' = {}
      BY <2>1 DEF Single, Within
    <2>2. CASE \E n \in Notices, u \in Users : Head(bus) = Committed(n, u) /\ Pp!Plan(n, u)
      <3>1. PICK n \in Notices, u \in Users : Head(bus) = Committed(n, u) /\ outgoing' = {Pp!Item("notice", n, u)}
        BY <2>2, PlanDoes
      <3>2. Pp!Item("notice", n, u) \in C => Head(bus) \in N
        BY <1>1, <3>1, ItemOfKey, AnnouncedKey
      <3> QED BY <3>1, <3>2 DEF Single, Within
    <2>3. CASE \E n \in Notices : /\ Head(bus) = RevokedEvent(n)
                                  /\ outgoing' = {Pp!Item("revoke", n, u) : u \in Pp!Notified(n)}
      <3>1. PICK n \in Notices : Head(bus) = RevokedEvent(n) /\ outgoing' = {Pp!Item("revoke", n, u) : u \in Pp!Notified(n)}
        BY <2>3
      <3>2. Pp!Notified(n) \subseteq Users
        BY DEF Pp!Notified
      <3>3. ASSUME NEW u \in Users, Pp!Item("revoke", n, u) \in C PROVE u = OwnerOf[x[3]] /\ Head(bus) \in N
        BY <1>1, <3>1, <3>3, ItemOfKey, AnnouncedKey
      <3> QED BY <3>1, <3>2, <3>3 DEF Single, Within
    <2> QED BY <1>2, <2>1, <2>2, <2>3, HandlersDo
  <1>5. Begun(x)' <=> Begun(x)
    BY <1>2 DEF Begun
  <1> QED BY <1>1, <1>2, <1>3, <1>4, <1>5 DEF OnlyCarrier


LEMMA CarrierSent ==
    ASSUME Pp!DevicesAndBus, PushTypes, NEW t \in tasks, NEW d \in Devices,
           Pp!SendOk(t, d) \/ Pp!SendFails(t, d) \/ Pp!TokenInvalid(t, d), NEW x \in Keys, OnlyCarrier(x)
    PROVE  OnlyCarrier(x)'
  <1>1. PICK C, W, y : C = Carrying(x) /\ W = Working(x) /\ y = <<t.item.kind, t.item.notice, d>>
    OBVIOUS
  <1>2. Pp!Sending(t, d) /\ UNCHANGED <<bus, outgoing, queue, published, revoked>>
    BY DEF Pp!SendOk, Pp!SendFails, Pp!TokenInvalid, Pp!planner, Pp!world
  <1>3. /\ t \in PushTasks /\ t.item \in Intents /\ t.checked /\ d \in t.left /\ Reaches(t.item, d) /\ tasks' \subseteq PushTasks
        /\ \A s \in tasks' : (s \in tasks /\ s # t) \/ (s.item = t.item /\ s.checked /\ s.left = t.left \ {d})
        /\ \A s, r \in tasks' : s \notin tasks /\ r \notin tasks => s = r
    BY <1>2, SendingDoes
  <1>4. x[3] = d /\ x[1] = t.item.kind /\ x[2] = t.item.notice <=> x = y
    BY <1>1 DEF Keys
  <1>5. x = y => t \in W
    BY <1>1, <1>3, <1>4 DEF Working
  <1>6. Single(tasks', W) /\ (Within(tasks', W) => Within(tasks, W))
    <2>1. \A s \in tasks' : (s \in tasks => s # t) /\ (s \in W /\ s \notin tasks => t \in W)
      BY <1>1, <1>3 DEF Working
    <2>2. Single(tasks, W)
      BY <1>1 DEF OnlyCarrier
    <2> QED BY <1>3, <2>1, <2>2, TaskMoves
  <1>7. x = y => ~Within(tasks', W) /\ Within(tasks, W)
    <2>1. ASSUME x = y, NEW s \in tasks', s \in W PROVE FALSE
      <3>1. CASE s \in tasks /\ s # t
        BY <1>1, <1>5, <2>1, <3>1 DEF OnlyCarrier, Single
      <3>2. CASE s.checked /\ s.left = t.left \ {d}
        BY <1>1, <1>4, <2>1, <3>2 DEF Working
      <3> QED BY <1>3, <3>1, <3>2
    <2> QED BY <1>5, <2>1 DEF Within
  <1>8. x \in accepted' => x \in accepted \/ (x = y /\ backoff' = backoff)
    BY <1>1 DEF Pp!SendOk, Pp!SendFails, Pp!TokenInvalid
  <1>9. \A i \in backoff' : i \in backoff \/ (i = Pp!ForRetry(t.item, d) /\ accepted' = accepted)
    BY DEF Pp!SendOk, Pp!SendFails, Pp!TokenInvalid
  <1>10. Pp!ForRetry(t.item, d) \in C => x = y
    BY <1>1, <1>3, RetryOfKey
  <1>11. Single(backoff, C) /\ (x = y => ~Within(backoff, C) /\ x \notin accepted)
    BY <1>1, <1>7 DEF OnlyCarrier
  <1>12. Single(backoff', C) /\ (Within(backoff', C) => Within(backoff, C) \/ (x = y /\ accepted' = accepted))
    BY <1>9, <1>10, <1>11 DEF Single, Within
  <1>13. Begun(x)' <=> Begun(x)
    BY <1>2 DEF Begun
  <1>14. CASE x = y
    <2>1. /\ ~Occurs(bus, Announcing(x)) /\ ~Within(outgoing, C) /\ ~Occurs(queue, C) /\ Begun(x)
      BY <1>1, <1>7, <1>14 DEF OnlyCarrier
    <2>2. ~(Within(backoff', C) /\ x \in accepted')
      BY <1>8, <1>11, <1>12, <1>14
    <2> QED BY <1>1, <1>2, <1>6, <1>7, <1>12, <1>13, <1>14, <2>1, <2>2 DEF OnlyCarrier
  <1>15. CASE x # y
    BY <1>1, <1>2, <1>6, <1>8, <1>12, <1>13, <1>15 DEF OnlyCarrier
  <1> QED BY <1>14, <1>15

LEMMA CarrierWorked ==
    ASSUME Pp!DevicesAndBus, PushTypes, Works, NEW x \in Keys, OnlyCarrier(x)
    PROVE  OnlyCarrier(x)'
  <1>1. PICK C, W : C = Carrying(x) /\ W = Working(x)
    OBVIOUS
  <1>2. UNCHANGED <<bus, published, revoked>> /\ queue \in Seq(Intents)
    BY WorksDo DEF PushTypes
  <1>3. Begun(x)' <=> Begun(x)
    BY <1>2 DEF Begun
  <1>4. ASSUME NEW i \in outgoing, Pp!Send(i) PROVE OnlyCarrier(x)'
    <2>1. outgoing' = outgoing \ {i} /\ queue' = Append(queue, i) /\ UNCHANGED <<tasks, backoff, accepted>> /\ i \in Intents
      BY <1>4 DEF Pp!Send, Pp!worker, PushTypes
    <2>2. Single(outgoing', C) /\ (Within(outgoing', C) => Within(outgoing, C)) /\ (i \in C => Within(outgoing, C) /\ ~Within(outgoing', C))
      BY <1>1, <2>1 DEF OnlyCarrier, Single, Within
    <2>3. (Occurs(queue', C) => Occurs(queue, C) \/ i \in C) /\ (Once(queue, C) /\ (i \in C => ~Occurs(queue, C)) => Once(queue', C))
      BY <1>2, <2>1, AppendFinds
    <2> QED BY <1>1, <1>2, <1>3, <2>1, <2>2, <2>3 DEF OnlyCarrier
  <1>5. ASSUME Pp!Start PROVE OnlyCarrier(x)'
    <2>1. /\ queue # <<>> /\ queue' = Tail(queue) /\ Head(queue) \in Intents /\ UNCHANGED <<outgoing, backoff, accepted>>
          /\ \A s \in tasks' : s \in tasks \/ (s.item = Head(queue) /\ ~s.checked)
          /\ \A s, r \in tasks' : s \notin tasks /\ r \notin tasks => s = r
      BY <1>5, StartDoes
    <2>2. /\ (Occurs(queue', C) => Occurs(queue, C)) /\ (Once(queue, C) => Once(queue', C))
          /\ (Once(queue, C) /\ Head(queue) \in C => ~Occurs(queue', C) /\ Occurs(queue, C))
      BY <1>2, <2>1, TailFinds
    <2>3. \A s \in tasks' : s \in W /\ s \notin tasks => Head(queue) \in C
      BY <1>1, <2>1 DEF Working, Carrying
    <2>4. Within(tasks', W) => Within(tasks, W) \/ Head(queue) \in C
      BY <2>3 DEF Within
    <2>5. Head(queue) \in C => ~Within(tasks, W)
      BY <1>1, <2>2 DEF OnlyCarrier
    <2>6. Single(tasks', W)
      BY <1>1, <2>1, <2>3, <2>5 DEF OnlyCarrier, Single, Within
    <2> QED BY <1>1, <1>2, <1>3, <2>1, <2>2, <2>4, <2>5, <2>6 DEF OnlyCarrier
  <1>6. ASSUME NEW t \in tasks, Pp!Check(t) \/ Pp!Timeout(t) PROVE OnlyCarrier(x)'
    <2>1. UNCHANGED <<outgoing, queue, backoff, accepted>>
      BY <1>6 DEF Pp!Check, Pp!Timeout, Pp!planner
    <2>2. Single(tasks', W) /\ (Within(tasks', W) => Within(tasks, W))
      <3>1. Single(tasks, W)
        BY <1>1 DEF OnlyCarrier
      <3>2. CASE Pp!Check(t)
        <4>1. \A s \in tasks' : (s \in tasks => s # t) /\ (s \in W /\ s \notin tasks => t \in W)
          <5>1. t \in PushTasks
            BY DEF PushTypes
          <5> QED BY <1>1, <3>2, <5>1, CheckDoes DEF Working
        <4> QED BY <3>1, <3>2, <4>1, CheckDoes, TaskMoves
      <3>3. CASE Pp!Timeout(t)
        BY <3>1, <3>3 DEF Pp!Timeout, Single, Within
      <3> QED BY <1>6, <3>2, <3>3
    <2> QED BY <1>1, <1>2, <1>3, <2>1, <2>2 DEF OnlyCarrier
  <1>7. ASSUME NEW i \in backoff, Pp!RetryDue(i) PROVE OnlyCarrier(x)'
    <2>1. i \in Intents /\ backoff' = backoff \ {i} /\ (queue' = queue \/ queue' = Append(queue, i)) /\ UNCHANGED <<outgoing, tasks, accepted>>
      BY <1>7 DEF Pp!RetryDue, Pp!planner, PushTypes
    <2>2. Single(backoff', C) /\ (Within(backoff', C) => Within(backoff, C)) /\ (i \in C => Within(backoff, C) /\ ~Within(backoff', C))
      BY <1>1, <2>1 DEF OnlyCarrier, Single, Within
    <2>3. (Occurs(queue', C) => Occurs(queue, C) \/ i \in C) /\ (Once(queue, C) /\ (i \in C => ~Occurs(queue, C)) => Once(queue', C))
      <3>1. CASE queue' = queue
        BY <3>1
      <3>2. CASE queue' = Append(queue, i)
        BY <1>2, <2>1, <3>2, AppendFinds
      <3> QED BY <2>1, <3>1, <3>2
    <2> QED BY <1>1, <1>2, <1>3, <2>1, <2>2, <2>3 DEF OnlyCarrier
  <1> QED BY <1>4, <1>5, <1>6, <1>7, CarrierSent DEF Works

LEMMA CarrierNext ==
    ASSUME Pp!DevicesAndBus, PushTypes, CarrierInv, Quiet \/ Publishes \/ Handles \/ Works
    PROVE  CarrierInv'
  <1> SUFFICES ASSUME NEW x \in Keys PROVE OnlyCarrier(x)'
    BY DEF CarrierInv
  <1>1. OnlyCarrier(x)
    BY DEF CarrierInv
  <1>2. CASE Quiet
    BY <1>1, <1>2 DEF Quiet, carriers, OnlyCarrier, Begun
  <1> QED BY <1>1, <1>2, CarrierPublished, CarrierHandled, CarrierWorked


LEMMA PushInit ==
    ASSUME Pp!Init
    PROVE  PushTypes /\ FreshInv /\ CarrierInv
  <1>1. /\ published = {} /\ revoked = {} /\ bus = <<>> /\ outgoing = {} /\ queue = <<>> /\ tasks = {} /\ backoff = {}
        /\ tokens = Devices /\ accepted = {} /\ status = [p \in Notices \X Users |-> "none"]
    BY DEF Pp!Init, Pp!Pairs
  <1>2. PushTypes
    BY <1>1 DEF PushTypes
  <1>3. \A S : ~Occurs(bus, S) /\ Once(bus, S) /\ ~Occurs(queue, S) /\ Once(queue, S)
    BY <1>1 DEF Occurs, Once
  <1>4. FreshInv
    BY <1>1, <1>3 DEF FreshInv, Fresh
  <1>5. CarrierInv
    BY <1>1, <1>3 DEF CarrierInv, OnlyCarrier, Within, Single
  <1> QED BY <1>2, <1>4, <1>5

PushInv == PushTypes /\ FreshInv /\ CarrierInv

LEMMA PushNext == ASSUME Pp!DevicesAndBus PROVE PushInv /\ [Pp!Next]_(Pp!vars) => PushInv'
  BY PushSteps, PushTypesNext, FreshNext, CarrierNext DEF PushInv

LEMMA CarriersApart ==
    ASSUME Pp!DevicesAndBus, PushTypes, CarrierInv
    PROVE  Pp!AcceptedOnce
  <1> SUFFICES ASSUME NEW a \in accepted
               PROVE  /\ \A t \in tasks : t.item.kind = a[1] /\ t.item.notice = a[2] => a[3] \notin t.left
                      /\ \A i \in Pp!Waiting \cup Pp!Running :
                            i.kind = a[1] /\ i.notice = a[2] /\ i.retry > 0 => i.device # a[3]
                      /\ \A i \in Pp!Waiting \cup {t.item : t \in {t \in tasks : ~t.checked}} :
                            i.kind = a[1] /\ i.notice = a[2] /\ i.retry = 0 => i.user # OwnerOf[a[3]]
    BY DEF Pp!AcceptedOnce
  <1>1. /\ a \in Keys /\ a[3] \in Devices /\ ~Within(outgoing, Carrying(a)) /\ ~Occurs(queue, Carrying(a))
        /\ ~Within(tasks, Working(a)) /\ ~Within(backoff, Carrying(a))
    BY DEF PushTypes, CarrierInv, OnlyCarrier, Keys
  <1>2. \A i \in Pp!Waiting : i \in Intents /\ i \notin Carrying(a)
    <2>1. ASSUME NEW k \in DOMAIN queue PROVE queue[k] \in Intents /\ queue[k] \notin Carrying(a)
      <3>1. queue \in Seq(Intents)
        BY DEF PushTypes
      <3>2. k \in 1 .. Len(queue) /\ queue[k] \in Intents
        BY <3>1
      <3> QED BY <1>1, <3>2 DEF Occurs
    <2> QED BY <1>1, <2>1 DEF Pp!Waiting, Within, PushTypes
  <1>3. ASSUME NEW t \in tasks PROVE t \in PushTasks /\ t \notin Working(a) /\ t.item \in Intents
    BY <1>1, TaskIs DEF Within, PushTypes
  <1>4. ASSUME NEW t \in tasks, t.item.kind = a[1], t.item.notice = a[2] PROVE a[3] \notin t.left
    BY <1>3, <1>4, TaskIs DEF Working
  <1>5. ASSUME NEW i \in Intents, i.retry > 0, i.device = a[3] PROVE Reaches(i, a[3]) /\ i.device # NoDevice
    BY <1>1, <1>5 DEF Intents, Reaches, Pp!DevicesAndBus
  <1>6. ASSUME NEW i \in Intents, i.retry = 0, i.user = OwnerOf[a[3]] PROVE Reaches(i, a[3])
    BY <1>6 DEF Intents, Reaches
  <1>7. ASSUME NEW t \in tasks, t.item.kind = a[1], t.item.notice = a[2], t.item.retry > 0 PROVE t.item.device # a[3]
    <2> SUFFICES ASSUME t.item.device = a[3] PROVE FALSE
      OBVIOUS
    <2>1. Reaches(t.item, a[3]) /\ t.item.device # NoDevice
      BY <1>3, <1>5, <1>7
    <2>2. CASE t.checked
      <3>1. PICK d \in t.left : d \in Devices /\ Reaches(t.item, d)
        BY <1>3, <2>2, TaskIs
      <3>2. d = a[3]
        BY <2>1, <3>1 DEF Reaches
      <3> QED BY <1>4, <1>7, <3>1, <3>2
    <2>3. CASE ~t.checked
      BY <1>3, <1>7, <2>1, <2>3 DEF Working
    <2> QED BY <2>2, <2>3
  <1>8. \A i \in Pp!Waiting : i.kind = a[1] /\ i.notice = a[2] => ~Reaches(i, a[3])
    BY <1>2 DEF Carrying
  <1>9. ASSUME NEW i \in Pp!Waiting \cup Pp!Running, i.kind = a[1], i.notice = a[2], i.retry > 0 PROVE i.device # a[3]
    BY <1>2, <1>5, <1>7, <1>8, <1>9 DEF Pp!Running
  <1>10. ASSUME NEW t \in tasks, ~t.checked, t.item.kind = a[1], t.item.notice = a[2], t.item.retry = 0 PROVE t.item.user # OwnerOf[a[3]]
    BY <1>3, <1>6, <1>10 DEF Working
  <1>11. ASSUME NEW i \in Pp!Waiting, i.kind = a[1], i.notice = a[2], i.retry = 0 PROVE i.user # OwnerOf[a[3]]
    BY <1>2, <1>6, <1>8, <1>11
  <1> QED BY <1>4, <1>9, <1>10, <1>11

(* Once a provider has accepted a push for a device, nothing that is queued, *)
(* planned, running or waiting for its retry is for that device again: a     *)
(* retry goes to the device that failed (PushIntent::for_retry), whatever    *)
(* the bus drops, the queue refuses or the worker's timeouts interrupt.      *)
THEOREM AcceptedStaysOnce == ASSUME Pp!DevicesAndBus PROVE Pp!Spec => []Pp!AcceptedOnce
  <1>1. Pp!Init => PushInv
    BY PushInit DEF PushInv
  <1>2. PushInv /\ [Pp!Next]_(Pp!vars) => PushInv'
    BY PushNext
  <1>3. PushInv => Pp!AcceptedOnce
    BY CarriersApart DEF PushInv
  <1> QED BY <1>1, <1>2, <1>3, PTL DEF Pp!Spec


(* A push that went out although it was called off was the last for its      *)
(* device: no other task that has looked at the intent has the device left,  *)
(* and the intent stays called off.                                          *)
OffStates == {"revoked", "cancelled"}
LateWasLast(n, d) ==
    /\ late[<<n, d>>] <= 1
    /\ late[<<n, d>>] # 0 => /\ status[<<n, OwnerOf[d]>>] \in OffStates
                             /\ \A t \in tasks : t.checked /\ t.item.kind = "notice" /\ t.item.notice = n => d \notin t.left
LateInv == late \in [Notices \X Devices -> Nat] /\ \A n \in Notices, d \in Devices : LateWasLast(n, d)

LEMMA OffIsFinal ==
    ASSUME Pp!DevicesAndBus, PushTypes, FreshInv, Quiet \/ Publishes \/ Handles \/ Works, NEW p \in Notices \X Users, status[p] \in OffStates
    PROVE  status'[p] = status[p]
  <1>1. status[p] # "pending" /\ status[p] # "none"
    BY DEF OffStates
  <1>2. CASE Quiet \/ Publishes \/ Works
    BY <1>2, PublishersDo, WorksDo DEF Quiet, carriers
  <1>3. CASE Handles
    <2>1. ASSUME NEW n \in Notices, NEW u \in Users, Head(bus) = Committed(n, u), Pp!Plan(n, u) PROVE status'[p] = status[p]
      <3>1. Occurs(bus, {Committed(n, u)})
        <4>1. bus # <<>> /\ bus \in Seq(PushEvents)
          BY <1>3, HandlersDo DEF PushTypes
        <4> QED BY <2>1, <4>1, TailFinds
      <3>2. status[<<n, u>>] = "none"
        BY <3>1 DEF FreshInv, Fresh
      <3> QED BY <1>1, <2>1, <3>2, PlanDoes
    <2>2. ASSUME NEW P, NEW s, Pp!Mark(P, s) PROVE status'[p] = status[p]
      BY <1>1, <2>2, MarkDoes
    <2> QED BY <1>3, <2>1, <2>2, HandlersDo
  <1> QED BY <1>2, <1>3

LEMMA CountDoes ==
    ASSUME LateInv, NEW t, NEW d, Pp!Count(t, d), <<t.item.notice, d>> \in Notices \X Devices
    PROVE  /\ late' \in [Notices \X Devices -> Nat]
           /\ \A p \in Notices \X Devices :
                IF p = <<t.item.notice, d>> /\ Pp!CalledOff(t.item) THEN late'[p] = late[p] + 1 ELSE late'[p] = late[p]
  <1>1. CASE Pp!CalledOff(t.item)
    <2>1. late' = [late EXCEPT ![<<t.item.notice, d>>] = @ + 1]
      BY <1>1 DEF Pp!Count
    <2> QED BY <1>1, <2>1 DEF LateInv
  <1>2. CASE ~Pp!CalledOff(t.item)
    BY <1>2 DEF Pp!Count, LateInv
  <1> QED BY <1>1, <1>2

LEMMA LateSent ==
    ASSUME Pp!DevicesAndBus, PushTypes, CarrierInv, LateInv, NEW t, NEW e, Pp!Sending(t, e), UNCHANGED status
    PROVE  LateInv'
  <1>1. /\ t \in tasks /\ t \in PushTasks /\ t.item \in Intents /\ t.checked /\ e \in t.left /\ e \in Devices /\ Reaches(t.item, e)
        /\ \A s \in tasks' : (s \in tasks /\ s # t) \/ (s.item = t.item /\ s.checked /\ s.left = t.left \ {e})
    BY SendingDoes
  <1>2. PICK m, i : i = t.item /\ m = i.notice
    OBVIOUS
  <1>3. m \in Notices /\ <<m, e>> \in Notices \X Devices /\ Pp!Count(t, e)
    BY <1>1, <1>2 DEF Intents, Pp!Sending
  <1>4. /\ late' \in [Notices \X Devices -> Nat]
        /\ \A p \in Notices \X Devices : IF p = <<m, e>> /\ Pp!CalledOff(i) THEN late'[p] = late[p] + 1 ELSE late'[p] = late[p]
    BY <1>2, <1>3, CountDoes
  <1>5. ASSUME NEW n \in Notices, NEW d \in Devices PROVE LateWasLast(n, d)'
    <2>1. LateWasLast(n, d) /\ <<n, d>> \in Notices \X Devices /\ late[<<n, d>>] \in Nat
      BY DEF LateInv
    <2>2. CASE n = m /\ d = e /\ Pp!CalledOff(i)
      <3>1. i.kind = "notice" /\ status[<<m, i.user>>] \in OffStates /\ OwnerOf[e] = i.user
        BY <1>1, <1>2, <2>2 DEF Pp!CalledOff, OffStates, Reaches
      <3>2. late[<<n, d>>] = 0 /\ late'[<<n, d>>] = 1
        BY <1>1, <1>2, <1>4, <2>1, <2>2, <3>1 DEF LateWasLast
      <3>3. ASSUME NEW s \in tasks', s.checked, s.item.kind = "notice", s.item.notice = n, d \in s.left PROVE FALSE
        <4>1. s \in tasks /\ s # t
          BY <1>1, <2>2, <3>3
        <4>2. PICK x : x = <<"notice", n, d>>
          OBVIOUS
        <4>3. x \in Keys /\ x[1] = "notice" /\ x[2] = n /\ x[3] = d
          BY <4>2 DEF Keys
        <4>4. s \in Working(x) /\ t \in Working(x)
          BY <1>1, <1>2, <2>2, <3>1, <3>3, <4>1, <4>3, TaskIs DEF Working, PushTypes
        <4>5. Single(tasks, Working(x))
          BY <4>3 DEF CarrierInv, OnlyCarrier
        <4> QED BY <1>1, <4>1, <4>4, <4>5 DEF Single
      <3> QED BY <2>2, <3>1, <3>2, <3>3 DEF LateWasLast
    <2>3. CASE ~(n = m /\ d = e /\ Pp!CalledOff(i))
      <3>1. late'[<<n, d>>] = late[<<n, d>>]
        <4>1. <<n, d>> = <<m, e>> <=> n = m /\ d = e
          OBVIOUS
        <4> QED BY <1>4, <2>1, <2>3, <4>1
      <3>2. \A s \in tasks' : \E r \in tasks : s.item = r.item /\ (s.checked => r.checked /\ s.left \subseteq r.left)
        BY <1>1
      <3> QED BY <2>1, <3>1, <3>2 DEF LateWasLast
    <2> QED BY <2>2, <2>3
  <1> QED BY <1>4, <1>5 DEF LateInv

LEMMA LateNext ==
    ASSUME Pp!DevicesAndBus, PushTypes, FreshInv, CarrierInv, LateInv, Quiet \/ Publishes \/ Handles \/ Works
    PROVE  LateInv'
  <1>1. ASSUME UNCHANGED late,
               \A s \in tasks' : \/ s \in tasks \/ ~s.checked
                                 \/ /\ ~Pp!CalledOff(s.item)
                                    /\ \A d \in s.left : OwnerOf[d] = s.item.user
        PROVE  LateInv'
    <2>1. ASSUME NEW n \in Notices, NEW d \in Devices PROVE LateWasLast(n, d)'
      <3>1. LateWasLast(n, d) /\ <<n, OwnerOf[d]>> \in Notices \X Users
        BY DEF LateInv, Pp!DevicesAndBus
      <3>2. CASE late[<<n, d>>] = 0
        BY <1>1, <3>1, <3>2 DEF LateWasLast
      <3>3. CASE late[<<n, d>>] # 0
        <4>1. status[<<n, OwnerOf[d]>>] \in OffStates /\ status'[<<n, OwnerOf[d]>>] \in OffStates
          BY <3>1, <3>3, OffIsFinal DEF LateWasLast
        <4>2. ASSUME NEW s \in tasks', s.checked, s.item.kind = "notice", s.item.notice = n, d \in s.left PROVE FALSE
          <5>1. CASE s \in tasks
            BY <3>1, <3>3, <4>2, <5>1 DEF LateWasLast
          <5>2. CASE s \notin tasks
            BY <1>1, <4>1, <4>2, <5>2 DEF Pp!CalledOff, OffStates
          <5> QED BY <5>1, <5>2
        <4> QED BY <1>1, <3>1, <4>1, <4>2 DEF LateWasLast
      <3> QED BY <3>2, <3>3
    <2> QED BY <1>1, <2>1 DEF LateInv
  <1>2. CASE UNCHANGED <<late, tasks>>
    BY <1>1, <1>2
  <1>3. ASSUME Works PROVE LateInv'
    <2>1. ASSUME NEW i \in outgoing, Pp!Send(i) PROVE UNCHANGED <<late, tasks>>
      BY <2>1 DEF Pp!Send, Pp!worker
    <2>2. ASSUME NEW i \in backoff, Pp!RetryDue(i) PROVE UNCHANGED <<late, tasks>>
      BY <2>2 DEF Pp!RetryDue
    <2>3. ASSUME Pp!Start PROVE LateInv'
      BY <1>1, <2>3, StartDoes
    <2>4. ASSUME NEW t \in tasks, Pp!Check(t) PROVE LateInv'
      <3>1. UNCHANGED late
        BY <2>4 DEF Pp!Check
      <3>2. \A s \in tasks' : s \in tasks \/ (~Pp!CalledOff(s.item) /\ \A d \in s.left : OwnerOf[d] = s.item.user)
        BY <2>4, CheckDoes DEF Pp!Stops, Reaches
      <3> QED BY <1>1, <3>1, <3>2
    <2>5. ASSUME NEW t \in tasks, Pp!Timeout(t) PROVE LateInv'
      <3>1. UNCHANGED late /\ tasks' \subseteq tasks
        BY <2>5 DEF Pp!Timeout
      <3> QED BY <1>1, <3>1
    <2>6. ASSUME NEW t \in tasks, NEW d \in Devices, Pp!SendOk(t, d) \/ Pp!SendFails(t, d) \/ Pp!TokenInvalid(t, d) PROVE LateInv'
      <3>1. Pp!Sending(t, d)
        BY <2>6 DEF Pp!SendOk, Pp!SendFails, Pp!TokenInvalid
      <3>2. UNCHANGED status
        BY <1>3, WorksDo
      <3> QED BY <3>1, <3>2, LateSent
    <2> QED BY <1>2, <1>3, <2>1, <2>2, <2>3, <2>4, <2>5, <2>6 DEF Works
  <1> QED BY <1>2, <1>3, PublishersDo, HandlersDo DEF Quiet, carriers

(* Once an intent is cancelled or revoked at most one more call is made for  *)
(* each device: by the task that had looked at the intent before             *)
(* (process_intent reads the state once), never by a retry.                  *)
THEOREM CalledOffMeansStop == ASSUME Pp!DevicesAndBus PROVE Pp!Spec => []Pp!CalledOffStops
  <1>1. Pp!Init => PushInv /\ LateInv
    <2>1. Pp!Init => PushInv
      BY PushInit DEF PushInv
    <2>2. Pp!Init => late = [p \in Notices \X Devices |-> 0]
      BY DEF Pp!Init
    <2>3. ASSUME late = [p \in Notices \X Devices |-> 0] PROVE LateInv
      <3>1. \A n \in Notices, d \in Devices : late[<<n, d>>] = 0
        BY <2>3
      <3> QED BY <2>3, <3>1 DEF LateInv, LateWasLast
    <2> QED BY <2>1, <2>2, <2>3
  <1>2. PushInv /\ LateInv /\ [Pp!Next]_(Pp!vars) => (PushInv /\ LateInv)'
    BY PushNext, PushSteps, LateNext DEF PushInv
  <1>3. LateInv => Pp!CalledOffStops
    <2>1. ASSUME LateInv, NEW p \in DOMAIN late PROVE late[p] <= 1
      <3>1. p \in Notices \X Devices
        BY <2>1 DEF LateInv
      <3>2. PICK n \in Notices, d \in Devices : p = <<n, d>>
        BY <3>1
      <3> QED BY <2>1, <3>2 DEF LateInv, LateWasLast
    <2> QED BY <2>1 DEF Pp!CalledOffStops
  <1> QED BY <1>1, <1>2, <1>3, PTL DEF Pp!Spec


(* One event comes before another in a queue. *)
Before(q, a, b) == \E i, j \in 1 .. Len(q) : i < j /\ q[i] = a /\ q[j] = b

LEMMA TailBefore ==
    ASSUME NEW E, NEW q \in Seq(E), q # <<>>, NEW a, NEW b
    PROVE  /\ Before(Tail(q), a, b) => Before(q, a, b)
           /\ Head(q) = a /\ Occurs(Tail(q), {b}) => Before(q, a, b)
  <1>r. PICK r, n : r = Tail(q) /\ n = Len(q)
    OBVIOUS
  <1>1. /\ r = Tail(q) /\ n = Len(q) /\ n \in Nat /\ n > 0 /\ Len(r) = n - 1 /\ Head(q) = q[1]
        /\ \A i \in 1 .. n - 1 : r[i] = q[i + 1]
    BY <1>r, Shifted
  <1>2. ASSUME NEW i \in 1 .. n - 1 PROVE r[i] = q[i + 1] /\ i + 1 \in 1 .. n /\ 1 < i + 1 /\ 1 \in 1 .. n
    BY <1>1
  <1>3. ASSUME NEW i \in 1 .. n - 1, NEW j \in 1 .. n - 1, i < j PROVE i + 1 < j + 1
    BY <1>3
  <1>4. Before(r, a, b) => Before(q, a, b)
    BY <1>1, <1>2, <1>3 DEF Before
  <1>5. Head(q) = a /\ Occurs(r, {b}) => Before(q, a, b)
    BY <1>1, <1>2 DEF Before, Occurs
  <1> QED BY <1>1, <1>4, <1>5

LEMMA AppendBefore ==
    ASSUME NEW E, NEW q \in Seq(E), NEW e \in E, NEW a, NEW b, Before(Append(q, e), a, b)
    PROVE  Before(q, a, b) \/ (e = b /\ Occurs(q, {a}))
  <1>r. PICK r, n : r = Append(q, e) /\ n = Len(q)
    OBVIOUS
  <1>1. /\ r = Append(q, e) /\ n = Len(q) /\ n \in Nat /\ Len(r) = n + 1 /\ r[n + 1] = e
        /\ \A i \in 1 .. n : r[i] = q[i]
    BY <1>r, Extended
  <1>2. PICK i \in 1 .. n + 1, j \in 1 .. n + 1 : i < j /\ r[i] = a /\ r[j] = b
    BY <1>1 DEF Before
  <1>3. i \in 1 .. n /\ (j \in 1 .. n \/ j = n + 1)
    BY <1>1, <1>2
  <1> QED BY <1>1, <1>2, <1>3 DEF Before, Occurs

LEMMA PublishBefore ==
    ASSUME Pp!DevicesAndBus, NEW E, bus \in Seq(E), NEW e \in E, Pp!Publish(e), NEW a, NEW b, Before(bus', a, b)
    PROVE  Before(bus, a, b) \/ (e = b /\ Occurs(bus, {a}))
  <1>1. PICK q : q = IF Len(bus) < BusCap THEN bus ELSE Tail(bus)
    OBVIOUS
  <1>2. bus' = Append(q, e)
    BY <1>1 DEF Pp!Publish
  <1>3. ASSUME q # bus PROVE q = Tail(bus) /\ bus # <<>>
    <2>1. Len(bus) >= BusCap /\ q = Tail(bus)
      BY <1>1, <1>3 DEF Pp!DevicesAndBus
    <2>2. Len(bus) > 0
      BY <2>1 DEF Pp!DevicesAndBus
    <2> QED BY <2>1, <2>2
  <1>4. q \in Seq(E)
    BY <1>3, Shifted
  <1>5. Before(q, a, b) \/ (e = b /\ Occurs(q, {a}))
    BY <1>2, <1>4, AppendBefore
  <1>6. (Before(q, a, b) => Before(bus, a, b)) /\ (Occurs(q, {a}) => Occurs(bus, {a}))
    BY <1>3, TailBefore, TailFinds
  <1> QED BY <1>5, <1>6

(* What is still to cancel a push has a reason: a delivery has happened, and *)
(* a user whose connection is announced met every notice whose intent is     *)
(* pending or will be created first.                                         *)
Reached(n, u) ==
    /\ Occurs(bus, {Delivered(n, u)}) => <<n, u>> \in received
    /\ Occurs(bus, {Online(u)}) /\ status[<<n, u>>] = "pending" => <<n, u>> \in met
    /\ Before(bus, Committed(n, u), Online(u)) => <<n, u>> \in met
    /\ status[<<n, u>>] = "cancelled" => <<n, u>> \in received \cup met
ReachedInv == \A n \in Notices, u \in Users : Reached(n, u)

LEMMA ReachedNext ==
    ASSUME Pp!DevicesAndBus, PushTypes, FreshInv, ReachedInv, Quiet \/ Publishes \/ Handles \/ Works
    PROVE  ReachedInv'
  <1> SUFFICES ASSUME NEW n \in Notices, NEW u \in Users PROVE Reached(n, u)'
    BY DEF ReachedInv
  <1>f. Reached(n, u) /\ Fresh(n, u) /\ bus \in Seq(PushEvents) /\ <<n, u>> \in Notices \X Users
    BY DEF FreshInv, ReachedInv, PushTypes
  <1>n. PICK c, d, o : c = Committed(n, u) /\ d = Delivered(n, u) /\ o = Online(u)
    OBVIOUS
  <1>1. CASE UNCHANGED <<bus, status, received, met>>
    BY <1>1, <1>f DEF Reached
  <1>2. CASE Publishes
    <2>1. UNCHANGED <<status, stored>>
      BY <1>2, PublishersDo DEF carriers
    <2>2. ASSUME NEW e \in PushEvents, Pp!Publish(e), received \subseteq received', met \subseteq met',
                 e = d => <<n, u>> \in received', e = o /\ n \in stored => <<n, u>> \in met'
          PROVE  Reached(n, u)'
      <3>1. /\ Occurs(bus', {d}) => Occurs(bus, {d}) \/ e = d
            /\ Occurs(bus', {o}) => Occurs(bus, {o}) \/ e = o
        BY <1>f, <2>2, PublishFinds
      <3>2. Before(bus', c, o) => Before(bus, c, o) \/ (e = o /\ Occurs(bus, {c}))
        BY <1>f, <2>2, PublishBefore
      <3>3. (status[<<n, u>>] = "pending" => n \in stored) /\ (Occurs(bus, {c}) => n \in stored)
        BY <1>f, <1>n DEF Fresh
      <3>4. /\ Occurs(bus', {d}) => <<n, u>> \in received'
            /\ Occurs(bus', {o}) /\ status'[<<n, u>>] = "pending" => <<n, u>> \in met'
            /\ Before(bus', c, o) => <<n, u>> \in met'
            /\ status'[<<n, u>>] = "cancelled" => <<n, u>> \in received' \cup met'
        BY <1>f, <1>n, <2>1, <2>2, <3>1, <3>2, <3>3 DEF Reached
      <3> QED BY <1>n, <3>4 DEF Reached
    <2>3. CASE \E m \in Notices, v \in Users : UNCHANGED <<received, met>> /\ Pp!Publish(Committed(m, v))
      BY <1>n, <2>2, <2>3, EventsAre, EventsDiffer
    <2>4. CASE \E m \in Notices, v \in Users : received' = received \cup {<<m, v>>} /\ UNCHANGED met /\ Pp!Publish(Delivered(m, v))
      BY <1>n, <2>2, <2>4, EventsAre, EventsDiffer
    <2>5. CASE \E m \in Notices : UNCHANGED <<received, met>> /\ Pp!Publish(RevokedEvent(m))
      BY <1>n, <2>2, <2>5, EventsAre, EventsDiffer
    <2>6. CASE \E v \in Users : UNCHANGED received /\ met' = met \cup (stored \X {v}) /\ Pp!Publish(Online(v))
      BY <1>n, <2>2, <2>6, EventsAre, EventsDiffer
    <2> QED BY <1>2, <2>3, <2>4, <2>5, <2>6, PublishersDo
  <1>3. CASE Handles
    <2>1. UNCHANGED <<received, met>> /\ bus # <<>> /\ bus' = Tail(bus)
      BY <1>3, HandlersDo
    <2>2. /\ Occurs(bus', {d}) => Occurs(bus, {d})
          /\ Occurs(bus', {o}) => Occurs(bus, {o})
          /\ Head(bus) = d => Occurs(bus, {d})
          /\ Head(bus) = o => Occurs(bus, {o})
      BY <1>f, <2>1, TailFinds
    <2>3. (Before(bus', c, o) => Before(bus, c, o)) /\ (Head(bus) = c /\ Occurs(bus', {o}) => Before(bus, c, o))
      BY <1>f, <2>1, TailBefore
    <2>4. ASSUME status'[<<n, u>>] = "pending" => status[<<n, u>>] = "pending" \/ Head(bus) = c,
                 status'[<<n, u>>] = "cancelled" => \/ status[<<n, u>>] = "cancelled" \/ Head(bus) = d
                                                    \/ status[<<n, u>>] = "pending" /\ Head(bus) = o
          PROVE  Reached(n, u)'
      <3>1. /\ Occurs(bus', {d}) => <<n, u>> \in received'
            /\ Occurs(bus', {o}) /\ status'[<<n, u>>] = "pending" => <<n, u>> \in met'
            /\ Before(bus', c, o) => <<n, u>> \in met'
            /\ status'[<<n, u>>] = "cancelled" => <<n, u>> \in received' \cup met'
        BY <1>f, <1>n, <2>1, <2>2, <2>3, <2>4 DEF Reached
      <3> QED BY <1>n, <3>1 DEF Reached
    <2>5. CASE UNCHANGED status
      BY <2>4, <2>5
    <2>6. CASE \E m \in Notices, v \in Users : Head(bus) = Committed(m, v) /\ Pp!Plan(m, v)
      BY <1>f, <1>n, <2>4, <2>6, PlanDoes
    <2>7. CASE \E m \in Notices, v \in Users : Head(bus) = Delivered(m, v) /\ Pp!Mark({<<m, v>>}, "cancelled")
      BY <1>f, <1>n, <2>4, <2>7, MarkDoes
    <2>8. CASE \E v \in Users : Head(bus) = Online(v) /\ Pp!Mark(Notices \X {v}, "cancelled")
      BY <1>f, <1>n, <2>4, <2>8, MarkDoes
    <2>9. CASE \E m \in Notices : Pp!Mark({m} \X Users, "revoked")
      BY <1>f, <2>4, <2>9, MarkDoes
    <2> QED BY <1>3, <2>5, <2>6, <2>7, <2>8, <2>9, HandlersDo
  <1> QED BY <1>1, <1>2, <1>3, WorksDo DEF Quiet, carriers

(* Only the push of a message its user has received, or of a notice the user *)
(* has connected after, is cancelled: a delivered event cancels that message *)
(* for that user (mark_cancelled_by_message_user), and an event that         *)
(* announces a connection cancels nothing that came after it.                *)
THEOREM CancelledHasReached == ASSUME Pp!DevicesAndBus PROVE Pp!Spec => []Pp!CancelledWasReached
  <1>1. Pp!Init => PushInv /\ ReachedInv
    <2>1. Pp!Init => PushInv
      BY PushInit DEF PushInv
    <2>2. Pp!Init => bus = <<>> /\ status = [p \in Notices \X Users |-> "none"]
      BY DEF Pp!Init, Pp!Pairs
    <2>3. ASSUME bus = <<>>, status = [p \in Notices \X Users |-> "none"] PROVE ReachedInv
      <3>1. /\ \A S : ~Occurs(bus, S)
            /\ \A a, b : ~Before(bus, a, b)
        BY <2>3 DEF Occurs, Before
      <3> QED BY <2>3, <3>1 DEF ReachedInv, Reached
    <2> QED BY <2>1, <2>2, <2>3
  <1>2. PushInv /\ ReachedInv /\ [Pp!Next]_(Pp!vars) => (PushInv /\ ReachedInv)'
    BY PushNext, PushSteps, ReachedNext DEF PushInv
  <1>3. ReachedInv => Pp!CancelledWasReached
    <2>1. ASSUME ReachedInv, NEW p \in Notices \X Users, status[p] = "cancelled" PROVE p \in received \cup met
      <3>1. PICK n \in Notices, u \in Users : p = <<n, u>>
        OBVIOUS
      <3> QED BY <2>1, <3>1 DEF ReachedInv, Reached
    <2> QED BY <2>1 DEF Pp!CancelledWasReached, Pp!Pairs
  <1> QED BY <1>1, <1>2, <1>3, PTL DEF Pp!Spec
=============================================================================
