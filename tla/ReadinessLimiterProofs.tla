---------------------- MODULE ReadinessLimiterProofs ----------------------
(***************************************************************************)
(* Theorems of ReadinessLimiter, for any guests, jobs and limit: the slots *)
(* are counted and bounded, none is idle while a call waits, the queue is  *)
(* what waits, and the limiter implements the semaphore of ProbeSlots.     *)
(*                                                                         *)
(* The argument: when a call arrives either no call waits or no slot is    *)
(* free, so draining the limiter starts one call at most, the oldest.      *)
(***************************************************************************)
EXTENDS ReadinessLimiter, FunctionTheorems, FiniteSetTheorems, SequenceTheorems, TLAPS

\* The calls in q are those of the guests that wait in f, once each.
Lists(q, f) ==
  /\ \A g \in Guests : f[g] = "queued" <=> \E i \in 1 .. Len(q) : q[i] = g
  /\ \A i, k \in 1 .. Len(q) : q[i] = q[k] => i = k

\* No call in q belongs to a job of A.
NoneOf(A, q) == \A i \in 1 .. Len(q) : JobOf[q[i]] \notin A

\* A guest whose finally callback is pending has gone on with its loop, and is not
\* back at its top.
LoopsLeft == \A g \in releasing : pc[g] \in {"answered", "rejected", "backoff"} \cup Ended

IInv == TypeOK /\ SlotsCounted /\ NoIdleSlot /\ QueueIsWaiting /\ LoopsLeft

---------------------------------------------------------------------------
(* The queue *)

\* QueueIsWaiting in terms of Lists, before and after a step.
LEMMA QueueLists ==
  /\ QueueIsWaiting <=> Lists(queue, pc) /\ NoneOf(aborted, queue)
  /\ QueueIsWaiting' <=> Lists(queue', pc') /\ NoneOf(aborted', queue')
BY DEF QueueIsWaiting, Lists, NoneOf, Aborted

\* A guest that does not wait may join the queue.
LEMMA ListsAppend ==
  ASSUME NEW q \in Seq(Guests), NEW f \in [Guests -> Phase], Lists(q, f),
         NEW g \in Guests, f[g] # "queued"
  PROVE  Lists(Append(q, g), [f EXCEPT ![g] = "queued"])
<1>. DEFINE r == Append(q, g)
            h == [f EXCEPT ![g] = "queued"]
<1>1. /\ r \in Seq(Guests) /\ Len(r) = Len(q) + 1
      /\ \A i \in 1 .. Len(q) : r[i] = q[i]
      /\ r[Len(q) + 1] = g
  BY AppendProperties
<1>2. /\ Len(q) \in Nat
      /\ \A i \in 1 .. Len(r) : i \in 1 .. Len(q) \/ i = Len(q) + 1
      /\ \A i \in 1 .. Len(q) : i \in 1 .. Len(r)
      /\ Len(q) + 1 \in 1 .. Len(r)
  BY <1>1
<1>3. \A i \in 1 .. Len(q) : q[i] # g
  BY DEF Lists
<1>4. ASSUME NEW k \in Guests PROVE h[k] = "queued" <=> \E i \in 1 .. Len(r) : r[i] = k
  <2>1. CASE k = g
    BY <2>1, <1>1, <1>2
  <2>2. CASE k # g
    <3>1. h[k] = f[k]
      BY <2>2
    <3>2. (\E i \in 1 .. Len(r) : r[i] = k) <=> (\E i \in 1 .. Len(q) : q[i] = k)
      BY <2>2, <1>1, <1>2
    <3>. QED
      BY <3>1, <3>2 DEF Lists
  <2>. QED
    BY <2>1, <2>2
<1>5. ASSUME NEW i \in 1 .. Len(r), NEW k \in 1 .. Len(r), r[i] = r[k] PROVE i = k
  BY <1>1, <1>2, <1>3, <1>5 DEF Lists
<1>. QED
  BY <1>4, <1>5 DEF Lists

\* The head of the queue may leave it.
LEMMA ListsTail ==
  ASSUME NEW q \in Seq(Guests), NEW f \in [Guests -> Phase], Lists(q, f), q # <<>>
  PROVE  /\ Head(q) \in Guests /\ f[Head(q)] = "queued"
         /\ Tail(q) \in Seq(Guests)
         /\ Lists(Tail(q), [f EXCEPT ![Head(q)] = "starting"])
<1>. DEFINE r == Tail(q)
            h == [f EXCEPT ![Head(q)] = "starting"]
<1>1. /\ r \in Seq(Guests) /\ Len(r) = Len(q) - 1
      /\ \A i \in 1 .. Len(r) : r[i] = q[i + 1]
      /\ Head(q) \in Guests
  BY HeadTailProperties
<1>2. Head(q) = q[1] /\ Len(q) \in Nat \ {0} /\ 1 \in 1 .. Len(q)
  BY EmptySeq, LenProperties
<1>3. f[Head(q)] = "queued"
  BY <1>1, <1>2 DEF Lists
<1>4. ASSUME NEW k \in Guests PROVE h[k] = "queued" <=> \E i \in 1 .. Len(r) : r[i] = k
  <2>1. CASE k = Head(q)
    <3>1. \A i \in 1 .. Len(r) : i + 1 \in 1 .. Len(q) /\ i + 1 # 1
      BY <1>1, <1>2
    <3>2. \A i \in 1 .. Len(r) : r[i] # k
      BY <2>1, <3>1, <1>1, <1>2 DEF Lists
    <3>. QED
      BY <2>1, <3>2
  <2>2. CASE k # Head(q)
    <3>1. h[k] = f[k]
      BY <2>2
    <3>2. ASSUME NEW i \in 1 .. Len(q), q[i] = k PROVE \E n \in 1 .. Len(r) : r[n] = k
      <4>1. i - 1 \in 1 .. Len(r) /\ (i - 1) + 1 = i
        BY <3>2, <2>2, <1>1, <1>2
      <4>. QED
        BY <4>1, <3>2, <1>1
    <3>3. ASSUME NEW i \in 1 .. Len(r), r[i] = k PROVE \E n \in 1 .. Len(q) : q[n] = k
      <4>1. i + 1 \in 1 .. Len(q)
        BY <1>1, <1>2
      <4>. QED
        BY <4>1, <3>3, <1>1
    <3>. QED
      BY <3>1, <3>2, <3>3 DEF Lists
  <2>. QED
    BY <2>1, <2>2
<1>5. ASSUME NEW i \in 1 .. Len(r), NEW k \in 1 .. Len(r), r[i] = r[k] PROVE i = k
  <2>1. i + 1 \in 1 .. Len(q) /\ k + 1 \in 1 .. Len(q)
    BY <1>1, <1>2
  <2>2. i + 1 = k + 1
    BY <2>1, <1>1, <1>5 DEF Lists
  <2>. QED
    BY <2>2
<1>. QED
  BY <1>1, <1>3, <1>4, <1>5 DEF Lists

\* Draining starts the oldest call or none, unless several calls and several slots
\* are waiting for each other.
LEMMA DrainStartsOne ==
  ASSUME NEW q \in Seq(Guests), NEW a \in Nat, a <= Limit, NEW f \in [Guests -> Phase],
         Len(q) <= 1 \/ a + 1 >= Limit, Drain(q, a, f)
  PROVE  \/ /\ q = <<>> \/ a = Limit
            /\ queue' = q /\ active' = a /\ pc' = f
         \/ /\ q # <<>> /\ a < Limit
            /\ queue' = Tail(q) /\ active' = a + 1
            /\ pc' = [f EXCEPT ![Head(q)] = "starting"]
<1>. DEFINE n == Starts(q, a)
<1>1. Len(q) \in Nat /\ Limit \in Nat
  BY ReadinessAssumption, LenProperties
<1>2. n \in {0, 1} /\ (n = 0 <=> Len(q) = 0 \/ a = Limit)
  <2>1. CASE Len(q) <= Limit - a
    <3>1. n = Len(q)
      BY <2>1 DEF Starts
    <3>. QED
      BY <3>1, <2>1, <1>1
  <2>2. CASE ~(Len(q) <= Limit - a)
    <3>1. n = Limit - a
      BY <2>2 DEF Starts
    <3>. QED
      BY <3>1, <2>2, <1>1
  <2>. QED
    BY <2>1, <2>2
<1>3. CASE n = 0
  <2>1. queue' = SubSeq(q, 1, Len(q)) /\ active' = a
    BY <1>3, <1>1 DEF Drain
  <2>2. queue' = q
    BY <2>1, SubSeqFull
  <2>3. pc' = [g \in Guests |-> f[g]]
    BY <1>3 DEF Drain
  <2>4. q = <<>> \/ a = Limit
    BY <1>2, <1>3, EmptySeq
  <2>. QED
    BY <2>1, <2>2, <2>3, <2>4
<1>4. CASE n = 1
  <2>1. q # <<>> /\ a < Limit
    BY <1>1, <1>2, <1>4, EmptySeq
  <2>2. queue' = SubSeq(q, 2, Len(q)) /\ active' = a + 1
    BY <1>4 DEF Drain
  <2>3. queue' = Tail(q)
    BY <2>1, <2>2, TailIsSubSeq
  <2>4. pc' = [g \in Guests |-> IF q[1] = g THEN "starting" ELSE f[g]]
    BY <1>4 DEF Drain
  <2>5. Head(q) = q[1] /\ Head(q) \in Guests
    BY <2>1, HeadTailProperties
  <2>. QED
    BY <2>1, <2>2, <2>3, <2>4, <2>5
<1>. QED
  BY <1>2, <1>3, <1>4

---------------------------------------------------------------------------
(* The slots *)

\* Slots and pending releases are finite, so they can be counted.
LEMMA SlotsFinite ==
  ASSUME TypeOK
  PROVE  /\ IsFiniteSet(Holding) /\ Cardinality(Holding) \in Nat
         /\ IsFiniteSet(releasing) /\ Cardinality(releasing) \in Nat
BY ReadinessAssumption, FS_Subset, FS_CardinalityType DEF Holding, TypeOK

\* How the slots in use change when one guest moves.
LEMMA HoldingMoves ==
  ASSUME TypeOK, NEW g \in Guests, NEW phase \in Phase, pc' = [pc EXCEPT ![g] = phase]
  PROVE  /\ phase \in {"starting", "probing"} =>
              /\ Holding' = Holding \cup {g}
              /\ Cardinality(Holding') =
                   IF g \in Holding THEN Cardinality(Holding) ELSE Cardinality(Holding) + 1
         /\ phase \notin {"starting", "probing"} =>
              /\ Holding' = Holding \ {g}
              /\ Cardinality(Holding') =
                   IF g \in Holding THEN Cardinality(Holding) - 1 ELSE Cardinality(Holding)
<1>1. phase \in {"starting", "probing"} => Holding' = Holding \cup {g}
  BY DEF Holding, TypeOK
<1>2. phase \notin {"starting", "probing"} => Holding' = Holding \ {g}
  BY DEF Holding, TypeOK
<1>. QED
  BY <1>1, <1>2, SlotsFinite, FS_AddElement, FS_RemoveElement

\* What a call does: it is refused, joins the queue of a full limiter, or starts.
LEMMA CallCases ==
  ASSUME IInv, NEW g \in Guests, pc[g] \in {"check", "prepare"}, Call(g)
  PROVE  \/ Goto(g, "rejected") /\ UNCHANGED <<queue, active>>
         \/ /\ active = Limit /\ ~Aborted(g)
            /\ Goto(g, "queued") /\ queue' = Append(queue, g) /\ UNCHANGED active
         \/ /\ queue = <<>> /\ active < Limit
            /\ Goto(g, "starting") /\ active' = active + 1 /\ UNCHANGED queue
<1>. DEFINE q == Append(queue, g)
            f == [pc EXCEPT ![g] = "queued"]
<1>1. CASE Aborted(g)
  BY <1>1 DEF Call
<1>2. CASE ~Aborted(g)
  <2>1. Drain(q, active, f)
    BY <1>2 DEF Call
  <2>2. /\ queue \in Seq(Guests) /\ active \in Nat /\ active <= Limit /\ Limit \in Nat
        /\ pc \in [Guests -> Phase] /\ f \in [Guests -> Phase]
    BY ReadinessAssumption DEF IInv, TypeOK, SlotsCounted, Phase
  <2>3. q \in Seq(Guests) /\ Len(q) = Len(queue) + 1 /\ q # <<>>
    BY <2>2, AppendProperties
  <2>4. Len(q) <= 1 \/ active + 1 >= Limit
    <3>1. CASE queue = <<>>
      BY <3>1, <2>3, EmptySeq
    <3>2. CASE queue # <<>>
      BY <3>2, <2>2 DEF IInv, NoIdleSlot
    <3>. QED
      BY <3>1, <3>2
  <2>5. CASE active = Limit
    <3>1. queue' = q /\ active' = active /\ pc' = f
      <4>1. ~(active < Limit)
        BY <2>5, <2>2
      <4>. HIDE DEF q, f
      <4>. QED
        BY <4>1, <2>1, <2>2, <2>3, <2>4, DrainStartsOne
    <3>. QED
      BY <3>1, <2>5, <1>2 DEF Goto
  <2>6. CASE active # Limit
    <3>1. queue = <<>> /\ active < Limit
      BY <2>6, <2>2 DEF IInv, NoIdleSlot
    <3>2. queue' = Tail(q) /\ active' = active + 1 /\ pc' = [f EXCEPT ![Head(q)] = "starting"]
      BY <2>1, <2>2, <2>3, <2>4, <2>6, DrainStartsOne
    <3>3. Head(q) = g /\ Tail(q) = <<>>
      BY <3>1, <2>2, HeadTailAppend
    <3>4. pc' = [pc EXCEPT ![g] = "starting"]
      BY <3>2, <3>3, <2>2
    <3>. QED
      BY <3>1, <3>2, <3>3, <3>4 DEF Goto
  <2>. QED
    BY <2>5, <2>6
<1>. QED
  BY <1>1, <1>2

\* What the finally callback does: free the slot, or give it to the oldest call.
LEMMA ReleaseCases ==
  ASSUME IInv, NEW g \in Guests, Release(g)
  PROVE  /\ Cardinality(releasing') = Cardinality(releasing) - 1
         /\ Cardinality(Holding) < active
         /\ \/ queue = <<>> /\ active' = active - 1 /\ UNCHANGED <<pc, queue>>
            \/ /\ queue # <<>> /\ active = Limit /\ UNCHANGED active
               /\ Goto(Head(queue), "starting") /\ queue' = Tail(queue)
<1>1. /\ queue \in Seq(Guests) /\ active \in Nat /\ active <= Limit /\ Limit \in Nat
      /\ pc \in [Guests -> Phase]
  BY ReadinessAssumption DEF IInv, TypeOK, SlotsCounted
<1>2. Cardinality(Holding) \in Nat /\ Cardinality(releasing) \in Nat /\ IsFiniteSet(releasing)
  BY SlotsFinite DEF IInv
<1>3. Cardinality(releasing') = Cardinality(releasing) - 1 /\ Cardinality(releasing') \in Nat
  <2>1. g \in releasing /\ releasing' = releasing \ {g}
    BY DEF Release
  <2>. QED
    BY <2>1, <1>2, FS_RemoveElement, FS_CardinalityType
<1>4. active - 1 \in Nat /\ Cardinality(Holding) < active
  BY <1>1, <1>2, <1>3 DEF IInv, SlotsCounted
<1>5. Drain(queue, active - 1, pc)
  BY DEF Release
<1>6. Len(queue) <= 1 \/ (active - 1) + 1 >= Limit
  <2>1. CASE queue = <<>>
    BY <2>1, EmptySeq
  <2>2. CASE queue # <<>>
    BY <2>2, <1>1 DEF IInv, NoIdleSlot
  <2>. QED
    BY <2>1, <2>2
<1>7. \/ /\ queue = <<>> \/ active - 1 = Limit
         /\ queue' = queue /\ active' = active - 1 /\ pc' = pc
      \/ /\ queue # <<>> /\ active - 1 < Limit
         /\ queue' = Tail(queue) /\ active' = (active - 1) + 1
         /\ pc' = [pc EXCEPT ![Head(queue)] = "starting"]
  BY <1>1, <1>4, <1>5, <1>6, DrainStartsOne
<1>8. queue # <<>> => active = Limit
  BY DEF IInv, NoIdleSlot
<1>. QED
  BY <1>1, <1>3, <1>4, <1>7, <1>8 DEF Goto

---------------------------------------------------------------------------
(* The invariant *)

\* A guest moves between phases in which it neither waits nor holds a slot.
LEMMA PlainMove ==
  ASSUME IInv, NEW g \in Guests, NEW phase \in Phase,
         pc[g] \notin {"queued", "starting", "probing"},
         phase \notin {"queued", "starting", "probing"},
         Goto(g, phase), UNCHANGED <<queue, active, releasing, aborted, late>>,
         g \in releasing => phase \in {"answered", "rejected", "backoff"} \cup Ended
  PROVE  IInv' /\ Holding' = Holding
<1>1. Holding' = Holding
  BY DEF Goto, Holding, IInv, TypeOK
<1>2. SlotsCounted' /\ NoIdleSlot'
  BY <1>1 DEF IInv, SlotsCounted, NoIdleSlot
<1>3. TypeOK' /\ LoopsLeft'
  BY DEF IInv, TypeOK, LoopsLeft, Goto
<1>4. QueueIsWaiting'
  BY DEF IInv, TypeOK, QueueIsWaiting, Goto, Aborted
<1>. QED
  BY <1>1, <1>2, <1>3, <1>4 DEF IInv

\* A call that is refused, waits or starts keeps the invariant.
LEMMA CallKeeps ==
  ASSUME IInv, NEW g \in Guests, pc[g] \in {"check", "prepare"}, Call(g),
         UNCHANGED <<releasing, aborted, late>>
  PROVE  IInv'
<1>0. /\ queue \in Seq(Guests) /\ active \in Nat /\ active <= Limit /\ Limit \in Nat
      /\ pc \in [Guests -> Phase] /\ Cardinality(Holding) \in Nat /\ Cardinality(releasing) \in Nat
      /\ g \notin Holding /\ g \notin releasing
      /\ "queued" \in Phase /\ "starting" \in Phase /\ "rejected" \in Phase
      /\ Lists(queue, pc) /\ NoneOf(aborted, queue)
  BY ReadinessAssumption, SlotsFinite, QueueLists
  DEF IInv, TypeOK, SlotsCounted, Phase, Holding, LoopsLeft, Ended
<1>1. CASE Goto(g, "rejected") /\ UNCHANGED <<queue, active>>
  BY <1>0, <1>1, PlainMove
<1>2. CASE /\ active = Limit /\ ~Aborted(g)
           /\ Goto(g, "queued") /\ queue' = Append(queue, g) /\ UNCHANGED active
  <2>1. Lists(queue', pc')
    BY <1>0, <1>2, ListsAppend DEF Goto
  <2>2. NoneOf(aborted', queue')
    <3>1. /\ Len(queue') = Len(queue) + 1 /\ Len(queue) \in Nat
          /\ \A i \in 1 .. Len(queue) : queue'[i] = queue[i]
          /\ queue'[Len(queue) + 1] = g
      BY <1>0, <1>2, AppendProperties
    <3>2. \A i \in 1 .. Len(queue') : i \in 1 .. Len(queue) \/ i = Len(queue) + 1
      BY <3>1
    <3>. QED
      BY <3>1, <3>2, <1>0, <1>2 DEF Aborted, NoneOf
  <2>3. QueueIsWaiting'
    BY <2>1, <2>2, QueueLists
  <2>4. TypeOK'
    BY <1>0, <1>2, AppendProperties DEF IInv, TypeOK, Goto
  <2>5. SlotsCounted' /\ NoIdleSlot'
    <3>1. Cardinality(Holding') = Cardinality(Holding)
      BY <1>0, <1>2, HoldingMoves DEF Goto, IInv
    <3>. QED
      BY <3>1, <1>2 DEF IInv, SlotsCounted, NoIdleSlot
  <2>6. LoopsLeft'
    BY <1>0, <1>2 DEF IInv, LoopsLeft, Goto
  <2>. QED
    BY <2>3, <2>4, <2>5, <2>6 DEF IInv
<1>3. CASE /\ queue = <<>> /\ active < Limit
           /\ Goto(g, "starting") /\ active' = active + 1 /\ UNCHANGED queue
  <2>1. TypeOK' /\ LoopsLeft' /\ NoIdleSlot'
    BY <1>0, <1>3 DEF IInv, TypeOK, LoopsLeft, NoIdleSlot, Goto
  <2>2. SlotsCounted'
    <3>1. Cardinality(Holding') = Cardinality(Holding) + 1
      BY <1>0, <1>3, HoldingMoves DEF Goto, IInv
    <3>. QED
      BY <3>1, <1>0, <1>3 DEF IInv, SlotsCounted
  <2>3. QueueIsWaiting'
    BY <1>0, <1>3 DEF IInv, TypeOK, QueueIsWaiting, Goto, Aborted
  <2>. QED
    BY <2>1, <2>2, <2>3 DEF IInv
<1>. QED
  BY <1>1, <1>2, <1>3, CallCases

\* An operation that ends, or is refused its start, hands its slot to the release.
LEMMA SettleKeeps ==
  ASSUME IInv, NEW g \in Guests, pc[g] \in {"starting", "probing"},
         NEW phase \in {"answered", "rejected"}, Goto(g, phase),
         releasing' = releasing \cup {g}, UNCHANGED <<queue, active, aborted, late>>
  PROVE  IInv'
<1>1. TypeOK' /\ LoopsLeft' /\ NoIdleSlot'
  BY DEF IInv, TypeOK, LoopsLeft, NoIdleSlot, Goto, Phase
<1>2. QueueIsWaiting'
  BY DEF IInv, TypeOK, QueueIsWaiting, Goto, Aborted
<1>3. SlotsCounted'
  <2>1. g \in Holding /\ g \notin releasing /\ phase \in Phase
    BY DEF Holding, IInv, LoopsLeft, Ended, Phase
  <2>2. Cardinality(Holding') = Cardinality(Holding) - 1
    BY <2>1, HoldingMoves DEF Goto, IInv
  <2>3. Cardinality(releasing') = Cardinality(releasing) + 1
    BY <2>1, SlotsFinite, FS_AddElement DEF IInv
  <2>. QED
    BY <2>2, <2>3, SlotsFinite DEF IInv, SlotsCounted
<1>. QED
  BY <1>1, <1>2, <1>3 DEF IInv

\* The finally callback keeps the invariant.
LEMMA ReleaseKeeps ==
  ASSUME IInv, NEW g \in Guests, Release(g)
  PROVE  IInv'
<1>0. /\ queue \in Seq(Guests) /\ active \in Nat /\ active <= Limit /\ Limit \in Nat
      /\ pc \in [Guests -> Phase] /\ Cardinality(Holding) \in Nat /\ Cardinality(releasing) \in Nat
      /\ "starting" \in Phase /\ UNCHANGED <<aborted, late>> /\ releasing' \subseteq releasing
      /\ active = Cardinality(Holding) + Cardinality(releasing)
      /\ Lists(queue, pc) /\ NoneOf(aborted, queue)
      /\ Cardinality(releasing') = Cardinality(releasing) - 1 /\ Cardinality(Holding) < active
  BY ReadinessAssumption, SlotsFinite, QueueLists, ReleaseCases
  DEF IInv, TypeOK, SlotsCounted, Phase, Release
<1>1. CASE queue = <<>> /\ active' = active - 1 /\ UNCHANGED <<pc, queue>>
  <2>1. TypeOK' /\ LoopsLeft' /\ NoIdleSlot' /\ QueueIsWaiting'
    BY <1>0, <1>1 DEF IInv, TypeOK, LoopsLeft, NoIdleSlot, QueueIsWaiting, Aborted
  <2>2. SlotsCounted'
    BY <1>0, <1>1 DEF IInv, SlotsCounted, Holding
  <2>. QED
    BY <2>1, <2>2 DEF IInv
<1>2. CASE /\ queue # <<>> /\ active = Limit /\ UNCHANGED active
           /\ Goto(Head(queue), "starting") /\ queue' = Tail(queue)
  <2>1. /\ Head(queue) \in Guests /\ pc[Head(queue)] = "queued"
        /\ queue' \in Seq(Guests) /\ Lists(queue', pc')
    BY <1>0, <1>2, ListsTail DEF Goto
  <2>2. NoneOf(aborted', queue')
    <3>1. /\ Len(queue') = Len(queue) - 1 /\ Len(queue) \in Nat
          /\ \A i \in 1 .. Len(queue') : queue'[i] = queue[i + 1]
      BY <1>0, <1>2, HeadTailProperties
    <3>2. \A i \in 1 .. Len(queue') : i + 1 \in 1 .. Len(queue)
      BY <3>1
    <3>. QED
      BY <3>1, <3>2, <1>0 DEF NoneOf
  <2>3. QueueIsWaiting'
    BY <2>1, <2>2, QueueLists
  <2>4. TypeOK' /\ NoIdleSlot'
    BY <1>0, <1>2, <2>1 DEF IInv, TypeOK, NoIdleSlot, Goto
  <2>5. LoopsLeft'
    BY <1>0, <1>2, <2>1 DEF IInv, LoopsLeft, Goto, Ended
  <2>6. SlotsCounted'
    <3>1. Head(queue) \notin Holding
      BY <2>1 DEF Holding
    <3>2. Cardinality(Holding') = Cardinality(Holding) + 1
      BY <3>1, <2>1, <1>0, <1>2, HoldingMoves DEF Goto, IInv
    <3>. QED
      BY <3>2, <1>0, <1>2 DEF SlotsCounted
  <2>. QED
    BY <2>3, <2>4, <2>5, <2>6 DEF IInv
<1>. QED
  BY <1>1, <1>2, ReleaseCases

\* An abort takes the job's calls out of the queue and leaves the others in order.
LEMMA AbortKeeps ==
  ASSUME IInv, NEW job \in Jobs, Abort(job)
  PROVE  IInv' /\ Holding' = Holding
<1>. DEFINE stay == {i \in 1 .. Len(queue) : JobOf[queue[i]] # job}
            n == Cardinality(stay)
<1>1. PICK at \in [1 .. n -> stay] :
        /\ \A i, k \in DOMAIN at : i < k => at[i] < at[k]
        /\ queue' = [i \in DOMAIN at |-> queue[at[i]]]
  BY DEF Abort
<1>2. /\ queue \in Seq(Guests) /\ Len(queue) \in Nat /\ active \in Nat /\ pc \in [Guests -> Phase]
      /\ \A i \in 1 .. Len(queue) : queue[i] \in Guests
  BY LenProperties, ElementOfSeq DEF IInv, TypeOK
<1>3. IsFiniteSet(stay) /\ n \in Nat
  <2>1. IsFiniteSet(1 .. Len(queue)) /\ stay \subseteq 1 .. Len(queue)
    BY <1>2, FS_Interval
  <2>2. IsFiniteSet(stay)
    BY <2>1, FS_Subset
  <2>. HIDE DEF stay
  <2>. QED
    BY <2>2, FS_CardinalityType
<1>4. /\ Len(queue') = n /\ queue' \in Seq(Guests)
      /\ \A i \in 1 .. n : at[i] \in stay /\ queue'[i] = queue[at[i]]
  <2>1. \A i \in 1 .. n : queue[at[i]] \in Guests
    BY <1>1, <1>2
  <2>2. queue' \in [1 .. n -> Guests]
    BY <1>1, <2>1
  <2>3. queue' \in Seq(Guests)
    <3>. HIDE DEF n
    <3>. QED
      BY <2>2, <1>3, SeqDef
  <2>4. DOMAIN queue' = 1 .. n
    BY <2>2
  <2>5. Len(queue') = n
    BY <2>3, <2>4, <1>3, LenProperties
  <2>. QED
    BY <2>3, <2>5, <1>1
<1>5. \A i, k \in 1 .. n : at[i] = at[k] => i = k
  BY <1>1, <1>3
<1>6. \A i \in stay : \E k \in 1 .. n : at[k] = i
  <2>1. at \in Injection(1 .. n, stay)
    BY <1>1, <1>5 DEF Injection, IsInjective
  <2>2. Cardinality(1 .. n) = n
    BY <1>3, FS_Interval
  <2>3. at \in Surjection(1 .. n, stay)
    BY <2>1, <2>2, <1>3, FS_Injection
  <2>. QED
    BY <2>3 DEF Surjection
<1>7. Holding' = Holding
  BY <1>2 DEF Abort, Holding
<1>8. TypeOK' /\ LoopsLeft'
  BY <1>2, <1>4 DEF IInv, TypeOK, LoopsLeft, Abort, Phase, Ended
<1>9. SlotsCounted' /\ NoIdleSlot'
  <2>1. queue' # <<>> => queue # <<>>
    <3>1. ASSUME queue = <<>> PROVE queue' = <<>>
      <4>1. stay = {}
        BY <3>1, EmptySeq
      <4>2. n = 0
        BY <4>1, FS_EmptySet
      <4>. QED
        BY <4>2, <1>4, EmptySeq
    <3>. QED
      BY <3>1
  <2>. QED
    BY <2>1, <1>7 DEF IInv, SlotsCounted, NoIdleSlot, Abort
<1>10. QueueIsWaiting'
  <2>1. ASSUME NEW g \in Guests
        PROVE  pc'[g] = "queued" <=> \E i \in 1 .. Len(queue') : queue'[i] = g
    <3>1. pc'[g] = "queued" <=> pc[g] = "queued" /\ JobOf[g] # job
      BY <1>2 DEF Abort
    <3>2. ASSUME pc'[g] = "queued" PROVE \E i \in 1 .. Len(queue') : queue'[i] = g
      <4>1. PICK i \in 1 .. Len(queue) : queue[i] = g
        BY <3>1, <3>2 DEF IInv, QueueIsWaiting
      <4>2. i \in stay
        BY <4>1, <3>1, <3>2
      <4>3. PICK k \in 1 .. n : at[k] = i
        BY <4>2, <1>6
      <4>4. k \in 1 .. Len(queue') /\ queue'[k] = g
        BY <4>1, <4>3, <1>4
      <4>. QED
        BY <4>4
    <3>3. ASSUME NEW i \in 1 .. Len(queue'), queue'[i] = g PROVE pc'[g] = "queued"
      <4>1. at[i] \in stay /\ queue[at[i]] = g
        BY <3>3, <1>4
      <4>. QED
        BY <4>1, <3>1 DEF IInv, QueueIsWaiting
    <3>. QED
      BY <3>2, <3>3
  <2>2. ASSUME NEW i \in 1 .. Len(queue'), NEW k \in 1 .. Len(queue'), queue'[i] = queue'[k]
        PROVE  i = k
    <3>1. at[i] \in 1 .. Len(queue) /\ at[k] \in 1 .. Len(queue) /\ queue[at[i]] = queue[at[k]]
      BY <2>2, <1>4
    <3>2. at[i] = at[k]
      BY <3>1 DEF IInv, QueueIsWaiting
    <3>. QED
      BY <3>2, <1>4, <1>5
  <2>3. ASSUME NEW i \in 1 .. Len(queue') PROVE JobOf[queue'[i]] \notin aborted'
    <3>1. at[i] \in stay /\ queue'[i] = queue[at[i]]
      BY <1>4
    <3>2. ~Aborted(queue[at[i]]) /\ JobOf[queue[at[i]]] # job
      BY <3>1 DEF IInv, QueueIsWaiting
    <3>. QED
      BY <3>1, <3>2 DEF Aborted, Abort
  <2>. QED
    BY <2>1, <2>2, <2>3, QueueLists DEF Lists, NoneOf
<1>. QED
  BY <1>7, <1>8, <1>9, <1>10 DEF IInv

\* A call that has its slot goes on to its command: the slot stays in use.
LEMMA StartKeeps ==
  ASSUME IInv, NEW g \in Guests, pc[g] = "starting", Goto(g, "probing"),
         UNCHANGED <<queue, active, releasing, aborted, late>>
  PROVE  IInv'
<1>1. TypeOK' /\ LoopsLeft' /\ NoIdleSlot'
  BY DEF IInv, TypeOK, LoopsLeft, NoIdleSlot, Goto, Phase, Ended
<1>2. QueueIsWaiting'
  BY DEF IInv, TypeOK, QueueIsWaiting, Goto, Aborted
<1>3. SlotsCounted'
  <2>1. Holding' = Holding
    BY DEF Goto, Holding, IInv, TypeOK
  <2>. QED
    BY <2>1 DEF IInv, SlotsCounted
<1>. QED
  BY <1>1, <1>2, <1>3 DEF IInv

\* No action of the loops or of the limiter breaks the invariant.
LEMMA InvariantStep == IInv /\ [Next]_vars => IInv'
<1>. SUFFICES ASSUME IInv, [Next]_vars PROVE IInv'
  OBVIOUS
<1>1. ASSUME NEW g \in Guests, Check(g) PROVE IInv'
  <2>. pc[g] = "check" /\ g \notin releasing /\ UNCHANGED <<releasing, aborted, late>>
    BY <1>1 DEF Check, IInv, LoopsLeft, Ended
  <2>1. CASE Goto(g, "failed") /\ UNCHANGED <<queue, active>>
    BY <2>1, PlainMove DEF Phase, Ended
  <2>2. CASE Call(g)
    BY <2>2, CallKeeps
  <2>3. CASE Goto(g, "prepare") /\ UNCHANGED <<queue, active>>
    BY <2>3, PlainMove DEF Phase, Ended
  <2>. QED
    BY <1>1, <2>1, <2>2, <2>3 DEF Check
<1>2. ASSUME NEW g \in Guests, Prepare(g) PROVE IInv'
  <2>. pc[g] = "prepare" /\ g \notin releasing /\ UNCHANGED <<releasing, aborted, late>>
    BY <1>2 DEF Prepare, IInv, LoopsLeft, Ended
  <2>1. CASE Call(g)
    BY <2>1, CallKeeps
  <2>2. ASSUME NEW phase \in {"failed", "rejected"}, Goto(g, phase), UNCHANGED <<queue, active>>
        PROVE  IInv'
    BY <2>2, PlainMove DEF Phase, Ended
  <2>. QED
    BY <1>2, <2>1, <2>2 DEF Prepare
<1>3. ASSUME NEW g \in Guests, Begin(g) PROVE IInv'
  BY <1>3, SettleKeeps, StartKeeps DEF Begin
<1>4. ASSUME NEW g \in Guests, EndProbe(g) PROVE IInv'
  BY <1>4, SettleKeeps DEF EndProbe
<1>5. ASSUME NEW g \in Guests, Release(g) PROVE IInv'
  BY <1>5, ReleaseKeeps
<1>6. ASSUME NEW g \in Guests, Catch(g) PROVE IInv'
  BY <1>6, PlainMove DEF Catch, Phase, Ended
<1>7. ASSUME NEW g \in Guests, Wake(g) PROVE IInv'
  BY <1>7, PlainMove DEF Wake, Phase, Ended
<1>8. ASSUME NEW g \in Guests, Conclude(g) PROVE IInv'
  BY <1>8, PlainMove DEF Conclude, Phase, Ended
<1>9. ASSUME NEW g \in Guests, Deadline(g) PROVE IInv'
  BY <1>9 DEF Deadline, IInv, TypeOK, SlotsCounted, NoIdleSlot, QueueIsWaiting, LoopsLeft,
              Holding, Aborted
<1>10. ASSUME NEW job \in Jobs, Abort(job) PROVE IInv'
  BY <1>10, AbortKeeps
<1>11. CASE UNCHANGED vars
  BY <1>11 DEF vars, IInv, TypeOK, SlotsCounted, NoIdleSlot, QueueIsWaiting, LoopsLeft,
               Holding, Aborted
<1>. QED
  BY <1>1, <1>2, <1>3, <1>4, <1>5, <1>6, <1>7, <1>8, <1>9, <1>10, <1>11 DEF Next, Step

\* The invariant holds in every state of every execution.
LEMMA Invariant == Spec => []IInv
<1>1. Init => IInv
  <2>. SUFFICES ASSUME Init PROVE IInv
    OBVIOUS
  <2>1. TypeOK /\ NoIdleSlot /\ LoopsLeft
    BY ReadinessAssumption, EmptySeq DEF Init, TypeOK, NoIdleSlot, LoopsLeft, Phase
  <2>2. Len(queue) = 0
    BY EmptySeq DEF Init
  <2>3. QueueIsWaiting
    BY <2>2 DEF Init, QueueIsWaiting
  <2>4. SlotsCounted
    <3>1. Holding = {} /\ releasing = {}
      BY DEF Init, Holding
    <3>. QED
      BY <3>1, FS_EmptySet, ReadinessAssumption DEF Init, SlotsCounted
  <2>. QED
    BY <2>1, <2>3, <2>4 DEF IInv
<1>2. IInv /\ [Next]_vars => IInv'
  BY InvariantStep
<1>. QED
  BY <1>1, <1>2, PTL DEF Spec

---------------------------------------------------------------------------
(* Theorems of the invariant *)

\* Every variable of the limiter and the loops keeps its type.
THEOREM LimiterTypes == Spec => []TypeOK
BY Invariant, PTL DEF IInv

\* The limiter's counter is exact and never above the limit, whatever mixture of
\* successes, failures, aborts before the start and aborts during the command: a
\* slot is neither lost nor handed out twice.
THEOREM SlotsExact == Spec => []SlotsCounted
BY Invariant, PTL DEF IInv

\* A call waits only while every slot is in use.
THEOREM SlotsNeverIdle == Spec => []NoIdleSlot
BY Invariant, PTL DEF IInv

\* The queue is the waiting calls of jobs that are not aborted, once each.
THEOREM QueueExact == Spec => []QueueIsWaiting
BY Invariant, PTL DEF IInv

---------------------------------------------------------------------------
(* What a step does to the guests that wait and to those that hold a slot *)

Waiting == {g \in Guests : pc[g] = "queued"}

\* The bodies of FirstComeFirstServed and NoProbeAfterAbort.
Ordered == \A i, k \in 1 .. Len(queue) :
             i < k /\ pc'[queue[k]] = "starting" => pc'[queue[i]] # "queued"
Checked == \A g \in Guests : pc[g] # "probing" /\ pc'[g] = "probing" => ~Aborted(g)

\* A step is one of the semaphore, and respects the order and the aborts.
Serves == [Slots!Next]_(Slots!vars) /\ Ordered /\ Checked

\* The steps of the semaphore, in terms of Waiting and Holding.
LEMMA SlotsSteps ==
  /\ UNCHANGED <<Waiting, Holding>> => [Slots!Next]_(Slots!vars)
  /\ \A g \in Guests :
       \/ g \notin Waiting \cup Holding /\ Waiting' = Waiting \cup {g} /\ Holding' = Holding
       \/ /\ g \notin Holding /\ Cardinality(Holding) < Limit
          /\ Waiting' = Waiting \ {g} /\ Holding' = Holding \cup {g}
       \/ g \in Holding /\ Waiting' = Waiting /\ Holding' = Holding \ {g}
       => [Slots!Next]_(Slots!vars)
  /\ Waiting' \subseteq Waiting /\ Holding' = Holding => [Slots!Next]_(Slots!vars)
<1>1. UNCHANGED <<Waiting, Holding>> => [Slots!Next]_(Slots!vars)
  BY DEF Slots!vars, Waiting
<1>2. ASSUME NEW g \in Guests,
             g \notin Waiting \cup Holding, Waiting' = Waiting \cup {g}, Holding' = Holding
      PROVE  Slots!Next
  BY <1>2 DEF Slots!Next, Slots!Want, Waiting
<1>3. ASSUME NEW g \in Guests, g \notin Holding, Cardinality(Holding) < Limit,
             Waiting' = Waiting \ {g}, Holding' = Holding \cup {g}
      PROVE  Slots!Next
  <2>1. Slots!Cardinality(Holding) = Cardinality(Holding)
    BY DEF Slots!Cardinality, Cardinality
  <2>. QED
    BY <2>1, <1>3 DEF Slots!Next, Slots!Grant, Waiting
<1>4. ASSUME NEW g \in Guests, g \in Holding, Waiting' = Waiting, Holding' = Holding \ {g}
      PROVE  Slots!Next
  BY <1>4 DEF Slots!Next, Slots!Return, Waiting
<1>5. ASSUME Waiting' \subseteq Waiting, Holding' = Holding
      PROVE  Slots!Next
  <2>. DEFINE G == Waiting \ Waiting'
  <2>1. G \in SUBSET Waiting /\ Waiting' = Waiting \ G
    BY <1>5
  <2>. QED
    BY <2>1, <1>5 DEF Slots!Next, Slots!Withdraw, Waiting
<1>. QED
  BY <1>1, <1>2, <1>3, <1>4, <1>5

\* How Waiting changes when one guest moves, and what the move means for the others.
LEMMA WaitingMoves ==
  ASSUME TypeOK, NEW g \in Guests, NEW phase \in Phase, Goto(g, phase)
  PROVE  /\ phase = "queued" => Waiting' = Waiting \cup {g}
         /\ phase # "queued" => Waiting' = Waiting \ {g}
         /\ phase # "probing" \/ ~Aborted(g) => Checked
         /\ phase # "starting" /\ QueueIsWaiting => Ordered
<1>1. \A k \in Guests : pc'[k] = IF k = g THEN phase ELSE pc[k]
  BY DEF Goto, TypeOK
<1>2. /\ phase = "queued" => Waiting' = Waiting \cup {g}
      /\ phase # "queued" => Waiting' = Waiting \ {g}
  BY <1>1 DEF Waiting
<1>3. phase # "probing" \/ ~Aborted(g) => Checked
  BY <1>1 DEF Checked
<1>4. ASSUME phase # "starting", QueueIsWaiting PROVE Ordered
  <2>1. \A k \in 1 .. Len(queue) : queue[k] \in Guests /\ pc[queue[k]] = "queued"
    BY <1>4, ElementOfSeq DEF TypeOK, QueueIsWaiting
  <2>2. \A k \in 1 .. Len(queue) : pc'[queue[k]] # "starting"
    BY <2>1, <1>1, <1>4
  <2>. QED
    BY <2>2 DEF Ordered
<1>. QED
  BY <1>2, <1>3, <1>4

\* A move between phases that neither wait nor hold a slot does not concern the semaphore.
LEMMA PlainServes ==
  ASSUME IInv, NEW g \in Guests, NEW phase \in Phase,
         pc[g] \notin {"queued", "starting", "probing"},
         phase \notin {"queued", "starting", "probing"}, Goto(g, phase)
  PROVE  Serves
<1>1. Holding' = Holding
  BY DEF Goto, Holding, IInv, TypeOK
<1>2. Waiting' = Waiting /\ Ordered /\ Checked
  BY WaitingMoves DEF IInv, Waiting
<1>. QED
  BY <1>1, <1>2, SlotsSteps DEF Serves

\* A call wants a slot, or is granted one at once.
LEMMA CallServes ==
  ASSUME IInv, NEW g \in Guests, pc[g] \in {"check", "prepare"}, Call(g)
  PROVE  Serves
<1>0. /\ {"queued", "starting", "rejected"} \subseteq Phase
      /\ g \notin Waiting /\ g \notin Holding
  BY DEF Phase, Waiting, Holding
<1>1. CASE Goto(g, "rejected")
  BY <1>0, <1>1, PlainServes
<1>2. CASE Goto(g, "queued")
  <2>1. Waiting' = Waiting \cup {g} /\ Ordered /\ Checked
    BY <1>0, <1>2, WaitingMoves DEF IInv
  <2>2. Holding' = Holding
    BY <1>2 DEF Goto, Holding, IInv, TypeOK
  <2>. QED
    BY <1>0, <2>1, <2>2, SlotsSteps DEF Serves
<1>3. CASE queue = <<>> /\ active < Limit /\ Goto(g, "starting")
  <2>1. Waiting' = Waiting \ {g} /\ Checked
    BY <1>0, <1>3, WaitingMoves DEF IInv
  <2>2. Holding' = Holding \cup {g}
    BY <1>0, <1>3, HoldingMoves DEF Goto, IInv
  <2>3. Cardinality(Holding) < Limit
    BY <1>3, SlotsFinite, ReadinessAssumption DEF IInv, TypeOK, SlotsCounted
  <2>4. Ordered
    BY <1>3, EmptySeq DEF Ordered
  <2>. QED
    BY <1>0, <2>1, <2>2, <2>3, <2>4, SlotsSteps DEF Serves
<1>. QED
  BY <1>1, <1>2, <1>3, CallCases

\* An operation that ends, or is refused its start, returns its slot.
LEMMA SettleServes ==
  ASSUME IInv, NEW g \in Guests, pc[g] \in {"starting", "probing"},
         NEW phase \in {"answered", "rejected"}, Goto(g, phase)
  PROVE  Serves
<1>0. phase \in Phase /\ g \in Holding /\ g \notin Waiting
  BY DEF Phase, Holding, Waiting
<1>1. Holding' = Holding \ {g}
  BY <1>0, HoldingMoves DEF Goto, IInv
<1>2. Waiting' = Waiting /\ Ordered /\ Checked
  BY <1>0, WaitingMoves DEF IInv
<1>. QED
  BY <1>0, <1>1, <1>2, SlotsSteps DEF Serves

\* A call that has its slot and is not aborted goes on to its command.
LEMMA StartServes ==
  ASSUME IInv, NEW g \in Guests, pc[g] = "starting", ~Aborted(g), Goto(g, "probing")
  PROVE  Serves
<1>0. "probing" \in Phase /\ g \notin Waiting
  BY DEF Phase, Waiting
<1>1. Holding' = Holding
  BY DEF Goto, Holding, IInv, TypeOK
<1>2. Waiting' = Waiting /\ Ordered /\ Checked
  BY <1>0, WaitingMoves DEF IInv
<1>. QED
  BY <1>1, <1>2, SlotsSteps DEF Serves

\* The finally callback grants the freed slot to the oldest call.
LEMMA ReleaseServes ==
  ASSUME IInv, NEW g \in Guests, Release(g)
  PROVE  Serves
<1>1. CASE UNCHANGED <<pc, queue>>
  <2>1. UNCHANGED <<Waiting, Holding>>
    BY <1>1 DEF Waiting, Holding
  <2>2. Checked
    BY <1>1 DEF Checked
  <2>3. Ordered
    <3>1. \A k \in 1 .. Len(queue) : pc[queue[k]] = "queued"
      BY ElementOfSeq DEF IInv, TypeOK, QueueIsWaiting
    <3>. QED
      BY <1>1, <3>1 DEF Ordered
  <2>. QED
    BY <2>1, <2>2, <2>3, SlotsSteps DEF Serves
<1>2. CASE queue # <<>> /\ active = Limit /\ Goto(Head(queue), "starting")
  <2>0. /\ Head(queue) \in Guests /\ pc[Head(queue)] = "queued" /\ Head(queue) = queue[1]
        /\ "starting" \in Phase /\ Len(queue) \in Nat
    <3>1. queue \in Seq(Guests) /\ pc \in [Guests -> Phase] /\ Lists(queue, pc)
      BY QueueLists DEF IInv, TypeOK
    <3>2. Head(queue) \in Guests /\ pc[Head(queue)] = "queued"
      BY <3>1, <1>2, ListsTail
    <3>. QED
      BY <3>1, <3>2, <1>2, HeadTailProperties, LenProperties DEF Phase
  <2>1. Head(queue) \notin Holding /\ Cardinality(Holding) < Limit
    BY <2>0, <1>2, ReleaseCases DEF Holding
  <2>2. Waiting' = Waiting \ {Head(queue)} /\ Checked
    BY <2>0, <1>2, WaitingMoves DEF IInv
  <2>3. Holding' = Holding \cup {Head(queue)}
    BY <2>0, <1>2, HoldingMoves DEF Goto, IInv
  <2>4. Ordered
    <3>. SUFFICES ASSUME NEW i \in 1 .. Len(queue), NEW k \in 1 .. Len(queue), i < k,
                         pc'[queue[k]] = "starting"
                  PROVE  FALSE
      BY DEF Ordered
    <3>1. queue[k] \in Guests /\ pc[queue[k]] = "queued"
      BY ElementOfSeq DEF IInv, TypeOK, QueueIsWaiting
    <3>2. queue[k] = queue[1]
      BY <3>1, <2>0, <1>2 DEF Goto, IInv, TypeOK
    <3>3. k = 1
      BY <3>2, <2>0 DEF IInv, QueueIsWaiting
    <3>. QED
      BY <3>3, <2>0
  <2>. QED
    BY <2>0, <2>1, <2>2, <2>3, <2>4, SlotsSteps DEF Serves
<1>. QED
  BY <1>1, <1>2, ReleaseCases

\* An abort withdraws the waiting calls of its job.
LEMMA AbortServes ==
  ASSUME IInv, NEW job \in Jobs, Abort(job)
  PROVE  Serves
<1>1. \A g \in Guests :
        pc'[g] = IF pc[g] = "queued" /\ JobOf[g] = job THEN "rejected" ELSE pc[g]
  BY DEF Abort
<1>2. Waiting' \subseteq Waiting /\ Holding' = Holding
  BY <1>1, AbortKeeps DEF Waiting
<1>3. Checked
  BY <1>1 DEF Checked
<1>4. Ordered
  <2>1. \A k \in 1 .. Len(queue) : queue[k] \in Guests /\ pc[queue[k]] = "queued"
    BY ElementOfSeq DEF IInv, TypeOK, QueueIsWaiting
  <2>. QED
    BY <2>1, <1>1 DEF Ordered
<1>. QED
  BY <1>2, <1>3, <1>4, SlotsSteps DEF Serves

\* Every step serves.
LEMMA ServesStep == IInv /\ [Next]_vars => Serves
<1>. SUFFICES ASSUME IInv, [Next]_vars PROVE Serves
  OBVIOUS
<1>1. ASSUME NEW g \in Guests, Check(g) PROVE Serves
  <2>1. CASE Goto(g, "failed")
    BY <2>1, <1>1, PlainServes DEF Check, Phase, Ended
  <2>2. CASE Call(g)
    BY <2>2, <1>1, CallServes DEF Check
  <2>3. CASE Goto(g, "prepare")
    BY <2>3, <1>1, PlainServes DEF Check, Phase, Ended
  <2>. QED
    BY <1>1, <2>1, <2>2, <2>3 DEF Check
<1>2. ASSUME NEW g \in Guests, Prepare(g) PROVE Serves
  <2>1. CASE Call(g)
    BY <2>1, <1>2, CallServes DEF Prepare
  <2>2. ASSUME NEW phase \in {"failed", "rejected"}, Goto(g, phase)
        PROVE  Serves
    BY <2>2, <1>2, PlainServes DEF Prepare, Phase, Ended
  <2>. QED
    BY <1>2, <2>1, <2>2 DEF Prepare
<1>3. ASSUME NEW g \in Guests, Begin(g) PROVE Serves
  BY <1>3, SettleServes, StartServes DEF Begin
<1>4. ASSUME NEW g \in Guests, EndProbe(g) PROVE Serves
  BY <1>4, SettleServes DEF EndProbe
<1>5. ASSUME NEW g \in Guests, Release(g) PROVE Serves
  BY <1>5, ReleaseServes
<1>6. ASSUME NEW g \in Guests, Catch(g) PROVE Serves
  BY <1>6, PlainServes DEF Catch, Phase, Ended
<1>7. ASSUME NEW g \in Guests, Wake(g) PROVE Serves
  BY <1>7, PlainServes DEF Wake, Phase, Ended
<1>8. ASSUME NEW g \in Guests, Conclude(g) PROVE Serves
  BY <1>8, PlainServes DEF Conclude, Phase, Ended
<1>9. CASE UNCHANGED pc
  <2>1. UNCHANGED <<Waiting, Holding>> /\ Checked
    BY <1>9 DEF Waiting, Holding, Checked
  <2>2. \A k \in 1 .. Len(queue) : pc[queue[k]] = "queued"
    BY ElementOfSeq DEF IInv, TypeOK, QueueIsWaiting
  <2>3. Ordered
    BY <1>9, <2>2 DEF Ordered
  <2>. QED
    BY <2>1, <2>3, SlotsSteps DEF Serves
<1>10. ASSUME NEW job \in Jobs, Abort(job) PROVE Serves
  BY <1>10, AbortServes
<1>. QED
  BY <1>1, <1>2, <1>3, <1>4, <1>5, <1>6, <1>7, <1>8, <1>9, <1>10 DEF Next, Step, Deadline, vars

---------------------------------------------------------------------------
(* Theorems of the steps *)

\* No call overtakes an older one, however many slots are freed and calls aborted.
THEOREM ServedInOrder == Spec => FirstComeFirstServed
<1>1. IInv /\ [Next]_vars =>
        [\A i, k \in 1 .. Len(queue) :
           i < k /\ pc'[queue[k]] = "starting" => pc'[queue[i]] # "queued"]_vars
  BY ServesStep DEF Serves, Ordered
<1>. QED
  BY <1>1, Invariant, PTL DEF Spec, FirstComeFirstServed

\* No command is started on a guest of an aborted job.
THEOREM AbortedNotProbed == Spec => NoProbeAfterAbort
<1>1. IInv /\ [Next]_vars =>
        [\A g \in Guests : pc[g] # "probing" /\ pc'[g] = "probing" => ~Aborted(g)]_vars
  BY ServesStep DEF Serves, Checked
<1>. QED
  BY <1>1, Invariant, PTL DEF Spec, NoProbeAfterAbort

\* The limiter implements the counting semaphore the readiness loops rely on.
THEOREM SemaphoreImplemented == Spec => ImplementsSlots
<1>1. Init => Slots!Init
  BY DEF Init, Slots!Init, Holding
<1>2. IInv /\ [Next]_vars => [Slots!Next]_(Slots!vars)
  BY ServesStep DEF Serves
<1>. QED
  BY <1>1, <1>2, Invariant, PTL DEF Spec, ImplementsSlots, Slots!Spec

===========================================================================
