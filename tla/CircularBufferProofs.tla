------------------------ MODULE CircularBufferProofs ------------------------
(***************************************************************************)
(* Proofs about CircularBuffer for every capacity, every number of events  *)
(* and every mode: the types, that the indices stay in step, that          *)
(* poll_event never returns more events than have left the buffer, nor one *)
(* that had left it before the poll began; and that the buffer is the FIFO *)
(* queue of EventQueue wherever no put overwrites in the middle of a poll  *)
(* and stores are seen in program order.                                   *)
(***************************************************************************)
EXTENDS CircularBuffer, SequenceTheorems, TLAPS

LEMMA SuccWraps ==
    ASSUME NEW i \in Slots
    PROVE  Succ(i) = IF i = Capacity THEN 0 ELSE i + 1
BY CapacityAssumption DEF Succ, Slots, Size

LEMMA SuccInSlots ==
    ASSUME NEW i \in Slots
    PROVE  Succ(i) \in Slots
BY SuccWraps, CapacityAssumption DEF Slots

LEMMA AppendInSeq ==
    ASSUME NEW S, NEW s \in Seq(S), NEW e \in S
    PROVE  Append(s, e) \in Seq(S)
OBVIOUS

\* A second read yields a slot if the register and the field hold slots.
LEMMA RereadInSlots ==
    ASSUME NEW r \in Slots, NEW f \in Slots, NEW v \in Reread(r, f)
    PROVE  v \in Slots
BY DEF Reread

-----------------------------------------------------------------------------
(* Types *)

LEMMA TypeInit == Init => TypeOK
BY CapacityAssumption
   DEF Init, TypeOK, Slots, Halves, EmptyValue

LEMMA TypeStep == TypeOK /\ [Next]_vars => TypeOK'
<1> SUFFICES ASSUME TypeOK, [Next]_vars PROVE TypeOK'
    OBVIOUS
<1>1. CASE PutBegin
    BY <1>1 DEF TypeOK, PutBegin, shared, consumer
<1>2. CASE PutOverwrite
    <2>1. indGet' \in Slots /\ head' \in Nat
        BY <1>2, SuccInSlots DEF TypeOK, PutOverwrite
    <2> QED BY <1>2, <2>1 DEF TypeOK, PutOverwrite, consumer
<1>3. ASSUME NEW h \in Halves, PutStore(h) PROVE TypeOK'
    <2>1. body' \in [Slots -> [Halves -> Nat]]
        BY <1>3 DEF TypeOK, PutStore
    <2> QED BY <1>3, <2>1 DEF TypeOK, PutStore, PutDone, consumer
<1>4. CASE PutPublish
    <2>1. indPut' \in Slots
        BY <1>4, SuccInSlots DEF TypeOK, PutPublish
    <2> QED BY <1>4, <2>1, SMTT(40) DEF TypeOK, PutPublish, PutDone, consumer
<1>5. CASE CheckBegin
    BY <1>5 DEF TypeOK, CheckBegin, shared, producer
<1>6. CASE CheckEmpty
    BY <1>6 DEF TypeOK, CheckEmpty, shared, producer
<1>7. CASE GetCheck
    <2> PICK p \in Reread(rput, indPut), g \in Reread(rget, indGet) :
            /\ rput' = p /\ rget' = g
            /\ IF IsEmpty(p, g)
               THEN /\ cPc' = "idle"
                    /\ res' = EmptyValue
                    /\ delivered' = IF draining THEN delivered
                                    ELSE Append(delivered, EmptyValue)
               ELSE cPc' = "kind" /\ UNCHANGED <<res, delivered>>
        BY <1>7 DEF GetCheck
    <2>1. rput' \in Slots /\ rget' \in Slots
        BY RereadInSlots DEF TypeOK
    <2>2. EmptyValue \in [Halves -> Nat]
        BY DEF EmptyValue
    <2>3. Append(delivered, EmptyValue) \in Seq([Halves -> Nat])
        BY <2>2, AppendInSeq DEF TypeOK
    <2>4. delivered' \in Seq([Halves -> Nat]) /\ res' \in [Halves -> Nat]
        BY <2>2, <2>3 DEF TypeOK
    <2> QED BY <1>7, <2>1, <2>4 DEF TypeOK, GetCheck, shared, producer
<1>8. CASE GetKind
    <2> PICK g \in Reread(rget, indGet) :
            rget' = g /\ res' = [res EXCEPT !["kind"] = body[g]["kind"]]
        BY <1>8 DEF GetKind
    <2>1. g \in Slots
        BY RereadInSlots DEF TypeOK
    <2>2. res' \in [Halves -> Nat]
        BY <2>1, SMTT(40) DEF TypeOK, Halves
    <2> QED BY <1>8, <2>1, <2>2 DEF TypeOK, GetKind, shared, producer
<1>9. CASE GetPayload
    <2>1. rget' \in Slots
        BY <1>9, RereadInSlots DEF TypeOK, GetPayload
    <2>2. res' \in [Halves -> Nat]
        <3>1. rget \in Slots /\ body[rget]["payload"] \in Nat
            BY DEF TypeOK, Halves
        <3>2. res' = [res EXCEPT !["payload"] = body[rget]["payload"]]
            BY <1>9 DEF GetPayload
        <3> QED BY <3>1, <3>2 DEF TypeOK
    <2> QED BY <1>9, <2>1, <2>2 DEF TypeOK, GetPayload, shared, producer
<1>10. CASE GetAdvance
    <2>1. indGet' \in Slots /\ head' \in Nat
        BY <1>10, SuccInSlots DEF TypeOK, GetAdvance
    <2>2. delivered' \in Seq([Halves -> Nat])
        BY <1>10, AppendInSeq DEF TypeOK, GetAdvance
    <2> QED BY <1>10, <2>1, <2>2 DEF TypeOK, GetAdvance, producer
<1>11. CASE UserInputDestroy
    BY <1>11 DEF TypeOK, UserInputDestroy, shared, producer
<1>13. CASE LeaveOrResume
    BY <1>13 DEF TypeOK, LeaveOrResume, shared, producer
<1>12. CASE UNCHANGED vars
    BY <1>12 DEF TypeOK, vars, shared, producer, consumer
<1> QED
    BY <1>1, <1>2, <1>3, <1>4, <1>5, <1>6, <1>7, <1>8, <1>9, <1>10, <1>11, <1>12, <1>13
    DEF Next, Producer, Poll

\* Every field and register keeps its type: in particular an index is always a
\* slot, so CBUF_PUT and CBUF_GET never touch memory outside body.
THEOREM TypeCorrect == Spec => []TypeOK
<1> QED BY TypeInit, TypeStep, PTL DEF Spec

-----------------------------------------------------------------------------
(* The indices stay in step *)

\* What makes IndicesInStep inductive.  Once the consumer has seen two different
\* indices the buffer stays non-empty until it advances; while the producer is
\* about to store an element there is room for it, or it is about to make room.
Inv ==
    /\ TypeOK
    /\ IndicesInStep
    /\ cPc = "check" /\ head = tail => rput = indPut
    /\ cPc \in {"get", "kind", "payload", "cas"} => head < tail
    /\ pPc = "overwrite" => slot = indPut /\ rcur = Succ(indPut)
    /\ pPc = "store" /\ "index" \in pending => slot = indPut /\ tail - head < Capacity

\* The distance of the indices decides between full, empty and neither.
LEMMA Distance ==
    ASSUME TypeOK, IndicesInStep
    PROVE  /\ (indPut = indGet) <=> (head = tail)
           /\ (Succ(indPut) = indGet) <=> (tail - head = Capacity)
<1>1. indPut \in Slots /\ indGet \in Slots /\ head \in Nat /\ tail \in Nat
    BY DEF TypeOK
<1>2. indPut - indGet = tail - head \/ indPut - indGet = tail - head - (Capacity + 1)
    BY DEF IndicesInStep, Size
<1>3. head <= tail /\ tail - head <= Capacity
    BY DEF IndicesInStep
<1>4. Succ(indPut) = IF indPut = Capacity THEN 0 ELSE indPut + 1
    BY <1>1, SuccWraps
<1> QED BY <1>1, <1>2, <1>3, <1>4, CapacityAssumption DEF Slots

LEMMA InvInit == Init => Inv
<1> SUFFICES ASSUME Init PROVE Inv
    OBVIOUS
<1>1. TypeOK
    BY TypeInit
<1> QED BY <1>1, CapacityAssumption DEF Inv, Init, IndicesInStep, Size

\* Advancing the read index of a non-empty buffer keeps the indices in step.
LEMMA AdvanceHead ==
    ASSUME TypeOK, IndicesInStep, head < tail,
           indGet' = Succ(indGet), head' = head + 1, UNCHANGED <<indPut, tail>>
    PROVE  IndicesInStep'
<1>1. indPut \in Slots /\ indGet \in Slots /\ head \in Nat /\ tail \in Nat
    BY DEF TypeOK
<1>2. indGet' = IF indGet = Capacity THEN 0 ELSE indGet + 1
    BY <1>1, SuccWraps
<1>3. head' <= tail' /\ tail' - head' <= Capacity
    BY <1>1, CapacityAssumption DEF IndicesInStep
<1>4. indPut' - indGet' = tail' - head' \/ indPut' - indGet' = tail' - head' - (Capacity + 1)
    BY <1>1, <1>2, <1>3, CapacityAssumption DEF IndicesInStep, Size, Slots
<1> QED BY <1>3, <1>4 DEF IndicesInStep, Size

\* So does advancing the write index of a buffer that is not full.
LEMMA AdvanceTail ==
    ASSUME TypeOK, IndicesInStep, tail - head < Capacity,
           indPut' = Succ(indPut), tail' = tail + 1, UNCHANGED <<indGet, head>>
    PROVE  IndicesInStep'
<1>1. indPut \in Slots /\ indGet \in Slots /\ head \in Nat /\ tail \in Nat
    BY DEF TypeOK
<1>2. indPut' = IF indPut = Capacity THEN 0 ELSE indPut + 1
    BY <1>1, SuccWraps
<1>3. head' <= tail' /\ tail' - head' <= Capacity
    BY <1>1, CapacityAssumption DEF IndicesInStep
<1>4. indPut' - indGet' = tail' - head' \/ indPut' - indGet' = tail' - head' - (Capacity + 1)
    BY <1>1, <1>2, <1>3, CapacityAssumption DEF IndicesInStep, Size, Slots
<1> QED BY <1>3, <1>4 DEF IndicesInStep, Size

LEMMA InvStep == Inv /\ [Next]_vars => Inv'
<1> SUFFICES ASSUME Inv, [Next]_vars PROVE Inv'
    OBVIOUS
<1>0. TypeOK /\ TypeOK' /\ IndicesInStep
    BY TypeStep DEF Inv
<1> USE CapacityAssumption
<1>1. CASE PutBegin
    <2>1. IndicesInStep'
        BY <1>0, <1>1 DEF PutBegin, shared, IndicesInStep
    <2>2. IsFull <=> tail - head = Capacity
        BY <1>0, Distance DEF IsFull
    <2> QED BY <1>0, <1>1, <2>1, <2>2
            DEF Inv, PutBegin, IsFull, shared, consumer, IndicesInStep, TypeOK
<1>2. CASE PutOverwrite
    <2>1. CASE Cas(rcur)
        <3>1. tail - head = Capacity /\ indGet' = Succ(indGet) /\ head' = head + 1
            BY <1>0, <1>2, <2>1, Distance DEF Cas, PutOverwrite, Inv
        <3>2. IndicesInStep'
            BY <1>0, <1>2, <3>1, AdvanceHead DEF PutOverwrite, TypeOK
        <3>3. head' < tail' /\ tail' - head' < Capacity
            BY <1>0, <1>2, <3>1 DEF PutOverwrite, TypeOK
        <3> QED BY <1>0, <1>2, <2>1, <3>1, <3>2, <3>3 DEF Inv, PutOverwrite, consumer, TypeOK
    <2>2. CASE ~Cas(rcur)
        <3>1. tail - head < Capacity
            BY <1>0, <1>2, <2>2, Distance
               DEF Cas, PutOverwrite, Inv, IndicesInStep, TypeOK
        <3> QED BY <1>0, <1>2, <2>2, <3>1
                DEF Inv, PutOverwrite, consumer, IndicesInStep, TypeOK
    <2> QED BY <2>1, <2>2
<1>3. ASSUME NEW h \in Halves, PutStore(h) PROVE Inv'
    <2>1. pPc' = "store" /\ "index" \in pending' => pPc = "store" /\ "index" \in pending
        BY <1>3 DEF PutStore, PutDone
    <2> QED BY <1>0, <1>3, <2>1 DEF Inv, PutStore, PutDone, consumer, IndicesInStep
<1>4. CASE PutPublish
    <2>1. slot = indPut /\ tail - head < Capacity
        BY <1>4 DEF Inv, PutPublish
    <2>2. IndicesInStep'
        BY <1>0, <1>4, <2>1, AdvanceTail DEF PutPublish
    <2>3. head' < tail' /\ "index" \notin pending' /\ pPc' # "overwrite"
        BY <1>0, <1>4 DEF PutPublish, PutDone, IndicesInStep, TypeOK
    <2> QED BY <1>0, <1>4, <2>2, <2>3 DEF Inv, PutPublish, consumer
<1>5. CASE CheckBegin
    BY <1>0, <1>5 DEF Inv, CheckBegin, shared, producer, IndicesInStep
<1>6. CASE CheckEmpty
    <2>1. cPc' = "get" => head < tail
        BY <1>0, <1>6, Distance DEF Inv, CheckEmpty, IsEmpty, IndicesInStep, TypeOK
    <2> QED BY <1>0, <1>6, <2>1 DEF Inv, CheckEmpty, shared, producer, IndicesInStep
<1>7. CASE GetCheck
    <2>1. cPc' \in {"idle", "kind"} /\ head < tail
        BY <1>7 DEF Inv, GetCheck
    <2> QED BY <1>0, <1>7, <2>1 DEF Inv, GetCheck, shared, producer, IndicesInStep
<1>8. CASE GetKind
    BY <1>0, <1>8 DEF Inv, GetKind, shared, producer, IndicesInStep
<1>9. CASE GetPayload
    BY <1>0, <1>9 DEF Inv, GetPayload, shared, producer, IndicesInStep
<1>10. CASE GetAdvance
    <2>1. head < tail
        BY <1>10 DEF Inv, GetAdvance
    <2>2. IndicesInStep'
        <3>1. CASE Cas(rget)
            BY <1>0, <1>10, <2>1, <3>1, AdvanceHead DEF Cas, GetAdvance
        <3>2. CASE ~Cas(rget)
            BY <1>0, <1>10, <3>2 DEF GetAdvance, IndicesInStep
        <3> QED BY <3>1, <3>2
    <2>3. tail' = tail /\ (head' = head \/ head' = head + 1) /\ cPc' = "idle"
        BY <1>10 DEF GetAdvance
    <2>4. UNCHANGED <<pPc, slot, rcur, pending, indPut>>
        BY <1>10 DEF GetAdvance, producer
    <2>5. tail - head < Capacity => tail' - head' < Capacity
        <3>1. head \in Nat /\ tail \in Nat /\ Capacity \in Nat
            BY <1>0 DEF TypeOK
        <3> QED BY <2>3, <3>1
    <2> QED BY <1>0, <2>2, <2>3, <2>4, <2>5 DEF Inv
<1>11. CASE UserInputDestroy
    BY <1>0, <1>11 DEF Inv, UserInputDestroy, shared, producer, IndicesInStep
<1>13. CASE LeaveOrResume
    BY <1>0, <1>13 DEF Inv, LeaveOrResume, shared, producer, IndicesInStep
<1>12. CASE UNCHANGED vars
    BY <1>0, <1>12 DEF Inv, vars, shared, producer, consumer, IndicesInStep
<1> QED
    BY <1>1, <1>2, <1>3, <1>4, <1>5, <1>6, <1>7, <1>8, <1>9, <1>10, <1>11, <1>12, <1>13
    DEF Next, Producer, Poll

\* In every mode, whatever the interleaving, the order of the stores and the
\* re-reads, the read index stays between the write index and a ring behind it.
THEOREM IndicesStayInStep == Spec => []IndicesInStep
<1>1. Inv => IndicesInStep
    BY DEF Inv
<1> QED BY InvInit, InvStep, <1>1, PTL DEF Spec

-----------------------------------------------------------------------------
(* What poll_event returns. *)

Reading == {"get", "kind", "payload", "cas"}

LEMMA AppendLen ==
    ASSUME NEW S, NEW s \in Seq(S), NEW e \in S
    PROVE  Len(s) \in Nat /\ Len(Append(s, e)) = Len(s) + 1
OBVIOUS

LEMMA EmptyInType == EmptyValue \in [Halves -> Nat]
BY DEF EmptyValue

-----------------------------------------------------------------------------
(* No surplus *)

\* What makes NoSurplus inductive.  When its compare-and-swap fails, a poll returns
\* an element without advancing the read index; that is made up for by the put that
\* advanced it after the poll had begun.
SurplusInv ==
    /\ NoSurplus
    /\ cPc \in Reading \cup {"check"} => Len(delivered) <= base /\ base <= head
    /\ cPc \in Reading => rget = indGet \/ base < head
    /\ cPc = "get" => rput # rget

LEMMA SurplusInit == Init => SurplusInv
BY DEF Init, SurplusInv, NoSurplus, Reading

LEMMA SurplusStep == Inv /\ SurplusInv /\ [Next]_vars => SurplusInv'
<1> SUFFICES ASSUME Inv, SurplusInv, [Next]_vars PROVE SurplusInv'
    OBVIOUS
<1>0. TypeOK /\ IndicesInStep
    BY DEF Inv
<1>a. head \in Nat /\ tail \in Nat /\ base \in Nat /\ Len(delivered) \in Nat
    BY <1>0 DEF TypeOK
<1> USE DEF Reading
<1>1. CASE PutBegin
    BY <1>1 DEF SurplusInv, NoSurplus, PutBegin, shared, consumer
<1>2. CASE PutOverwrite
    BY <1>a, <1>2 DEF SurplusInv, NoSurplus, PutOverwrite, consumer
<1>3. ASSUME NEW h \in Halves, PutStore(h) PROVE SurplusInv'
    BY <1>3 DEF SurplusInv, NoSurplus, PutStore, consumer
<1>4. CASE PutPublish
    BY <1>4 DEF SurplusInv, NoSurplus, PutPublish, consumer
<1>5. CASE CheckBegin
    BY <1>a, <1>5 DEF SurplusInv, NoSurplus, CheckBegin, shared
<1>6. CASE CheckEmpty
    BY <1>a, <1>6 DEF SurplusInv, NoSurplus, CheckEmpty, IsEmpty, shared
<1>7. CASE GetCheck
    <2> PICK p \in Reread(rput, indPut), g \in Reread(rget, indGet) :
            /\ rput' = p /\ rget' = g
            /\ IF IsEmpty(p, g)
               THEN /\ cPc' = "idle"
                    /\ delivered' = IF draining THEN delivered
                                    ELSE Append(delivered, EmptyValue)
               ELSE cPc' = "kind" /\ UNCHANGED delivered
        BY <1>7 DEF GetCheck
    <2>1. head < tail /\ indPut # indGet
        BY <1>0, <1>a, <1>7, Distance DEF Inv, GetCheck
    <2>2. p \in {rput, indPut} /\ g \in {rget, indGet}
        BY DEF Reread
    <2>3. UNCHANGED <<indGet, head, base>>
        BY <1>7 DEF GetCheck, shared
    <2>4. g = indGet \/ base < head
        BY <1>7, <2>2 DEF SurplusInv, GetCheck
    <2>5. CASE IsEmpty(p, g)
        <3>1. base < head
            BY <1>7, <2>1, <2>2, <2>5 DEF SurplusInv, GetCheck, IsEmpty
        <3>2. Len(delivered') <= Len(delivered) + 1
            BY <1>0, <1>a, <2>5, EmptyInType, AppendLen DEF TypeOK
        <3>3. Len(delivered') \in Nat
            BY <1>0, <1>a, <2>5, EmptyInType, AppendLen DEF TypeOK
        <3> QED BY <1>a, <1>7, <2>3, <2>5, <3>1, <3>2, <3>3 DEF SurplusInv, NoSurplus, GetCheck
    <2>6. CASE ~IsEmpty(p, g)
        BY <1>a, <1>7, <2>3, <2>4, <2>6 DEF SurplusInv, NoSurplus, GetCheck
    <2> QED BY <2>5, <2>6
<1>8. CASE GetKind
    <2>1. rget' = rget \/ rget' = indGet
        BY <1>8 DEF GetKind, Reread
    <2> QED BY <1>a, <1>8, <2>1 DEF SurplusInv, NoSurplus, GetKind, shared
<1>9. CASE GetPayload
    <2>1. rget' = rget \/ rget' = indGet
        BY <1>9 DEF GetPayload, Reread
    <2> QED BY <1>a, <1>9, <2>1 DEF SurplusInv, NoSurplus, GetPayload, shared
<1>10. CASE GetAdvance
    <2>1. Len(delivered) < head'
        BY <1>a, <1>10 DEF SurplusInv, GetAdvance, Cas
    <2>2. Len(delivered') \in Nat /\ Len(delivered') <= Len(delivered) + 1
        BY <1>0, <1>a, <1>10, AppendLen DEF TypeOK, GetAdvance
    <2>3. head' \in Nat
        BY <1>a, <1>10 DEF GetAdvance
    <2> QED BY <1>a, <1>10, <2>1, <2>2, <2>3 DEF SurplusInv, NoSurplus, GetAdvance
<1>11. CASE UserInputDestroy
    BY <1>11 DEF SurplusInv, NoSurplus, UserInputDestroy, shared
<1>13. CASE LeaveOrResume
    BY <1>13 DEF SurplusInv, NoSurplus, LeaveOrResume, shared
<1>12. CASE UNCHANGED vars
    BY <1>12 DEF SurplusInv, NoSurplus, vars, shared, consumer
<1> QED
    BY <1>1, <1>2, <1>3, <1>4, <1>5, <1>6, <1>7, <1>8, <1>9, <1>10, <1>11, <1>12, <1>13
    DEF Next, Producer, Poll

\* In every mode, poll_event never returns more events than have left the buffer.
THEOREM NeverSurplus == Spec => []NoSurplus
<1>1. SurplusInv => NoSurplus
    BY DEF SurplusInv
<1> QED BY InvInit, InvStep, SurplusInit, SurplusStep, <1>1, PTL DEF Spec

-----------------------------------------------------------------------------
(* Never stale *)

\* The elements a slot holds only get newer, and the n-th put stores n.
PutInv ==
    /\ pPc = "overwrite" \/ (pPc = "store" /\ "index" \in pending) => puts = tail + 1
    /\ pPc = "store" /\ "index" \notin pending => puts = tail /\ reordered
    /\ pPc = "idle" => pending = {} /\ puts = tail
    /\ puts \in {tail, tail + 1}
    /\ \A i \in Slots, h \in Halves : body[i][h] <= puts
    /\ pPc = "store" => \A h \in Halves \ pending : body[slot][h] = puts

\* How far slot i is ahead of the read index.
Ahead(i) == IF indGet <= i THEN i - indGet ELSE i - indGet + Size

\* The slots from the read index on hold the events that are in the buffer.
Content ==
    ~reordered => \A i \in Slots, h \in Halves :
        Ahead(i) < tail - head => body[i][h] = head + Ahead(i) + 1

\* A slot that a poll has in its register held an event of the buffer when it was
\* read, and can only have been given a newer one since.
Fresh ==
    ~reordered =>
        /\ cPc \in {"get", "kind", "payload"} => \A h \in Halves : body[rget][h] > base
        /\ cPc \in {"payload", "cas"} => res["kind"] > base
        /\ cPc = "cas" => res["payload"] > base

LEMMA PutInit == Init => PutInv /\ Content
BY DEF Init, PutInv, Content, EmptyValue, Ahead

LEMMA PutStep == Inv /\ PutInv /\ [Next]_vars => PutInv'
<1> SUFFICES ASSUME Inv, PutInv, [Next]_vars PROVE PutInv'
    OBVIOUS
<1>0. TypeOK
    BY DEF Inv
<1>a. tail \in Nat /\ puts \in Nat /\ body \in [Slots -> [Halves -> Nat]] /\ slot \in Slots
    BY <1>0 DEF TypeOK
<1>1. CASE PutBegin
    BY <1>a, <1>1 DEF PutInv, PutBegin, shared
<1>2. CASE PutOverwrite
    BY <1>a, <1>2 DEF PutInv, PutOverwrite
<1>3. ASSUME NEW h \in Halves, PutStore(h) PROVE PutInv'
    <2>1. body' = [body EXCEPT ![slot][h] = puts] /\ pending' = pending \ {h} /\ h # "index"
        BY <1>3 DEF PutStore, PutDone, Halves
    <2>2. ASSUME NEW i \in Slots, NEW g \in Halves
          PROVE  body'[i][g] = IF i = slot /\ g = h THEN puts ELSE body[i][g]
        BY <1>a, <2>1, <2>2
    <2>3. UNCHANGED <<slot, puts, tail, reordered>>
        BY <1>3 DEF PutStore, PutDone
    <2>4. pPc = "store" /\ pPc' = (IF pending' = {} THEN "idle" ELSE "store")
        BY <1>3 DEF PutStore, PutDone
    <2>5. \A i \in Slots, g \in Halves : body'[i][g] <= puts'
        BY <1>a, <2>2, <2>3 DEF PutInv
    <2>6. \A g \in Halves \ pending' : body'[slot'][g] = puts'
        BY <1>a, <2>1, <2>2, <2>3, <2>4 DEF PutInv
    <2>7. pPc' = "store" => "index" \in pending' \/ reordered
        BY <2>1, <2>4 DEF PutInv
    <2>8. pPc' = "idle" => puts = tail
        BY <2>1, <2>4 DEF PutInv
    <2> QED BY <1>a, <2>1, <2>3, <2>4, <2>5, <2>6, <2>7, <2>8 DEF PutInv
<1>4. CASE PutPublish
    <2>1. pending' = pending \ {"index"} /\ "index" \notin Halves
        BY <1>4 DEF PutPublish, PutDone, Halves
    <2>2. puts = tail' /\ puts' = puts /\ tail' \in Nat
        BY <1>a, <1>4 DEF PutInv, PutPublish, PutDone
    <2>3. ~reordered' => pPc' = "idle"
        BY <1>4, <2>1 DEF PutPublish, PutDone
    <2>4. UNCHANGED <<body, slot>> /\ pPc = "store" /\ pPc' \in {"idle", "store"}
        BY <1>4 DEF PutPublish, PutDone
    <2>5. pPc' = "idle" => pending' = {}
        BY <1>4 DEF PutPublish, PutDone
    <2> QED BY <1>a, <2>1, <2>2, <2>3, <2>4, <2>5 DEF PutInv
<1>5. CASE CheckBegin
    BY <1>5 DEF PutInv, CheckBegin, shared, producer
<1>6. CASE CheckEmpty
    BY <1>6 DEF PutInv, CheckEmpty, shared, producer
<1>7. CASE GetCheck
    BY <1>7 DEF PutInv, GetCheck, shared, producer
<1>8. CASE GetKind
    BY <1>8 DEF PutInv, GetKind, shared, producer
<1>9. CASE GetPayload
    BY <1>9 DEF PutInv, GetPayload, shared, producer
<1>10. CASE GetAdvance
    BY <1>10 DEF PutInv, GetAdvance, producer
<1>11. CASE UserInputDestroy
    BY <1>11 DEF PutInv, UserInputDestroy, shared, producer
<1>13. CASE LeaveOrResume
    BY <1>13 DEF PutInv, LeaveOrResume, shared, producer
<1>12. CASE UNCHANGED vars
    BY <1>12 DEF PutInv, vars, shared, producer
<1> QED
    BY <1>1, <1>2, <1>3, <1>4, <1>5, <1>6, <1>7, <1>8, <1>9, <1>10, <1>11, <1>12, <1>13
    DEF Next, Producer, Poll

LEMMA AheadRange ==
    ASSUME TypeOK, NEW i \in Slots
    PROVE  Ahead(i) \in 0 .. Capacity /\ (Ahead(i) = 0 <=> i = indGet)
BY CapacityAssumption DEF TypeOK, Slots, Ahead, Size

\* An advance of the read index brings every other slot one nearer.
LEMMA AheadShifts ==
    ASSUME TypeOK, NEW i \in Slots, indGet' = Succ(indGet)
    PROVE  Ahead(i)' = IF i = indGet THEN Capacity ELSE Ahead(i) - 1
<1>1. indGet \in 0 .. Capacity /\ i \in 0 .. Capacity /\ Capacity \in Nat
    BY CapacityAssumption DEF TypeOK, Slots
<1>2. indGet' = IF indGet = Capacity THEN 0 ELSE indGet + 1
    BY SuccWraps DEF TypeOK
<1>3. Ahead(i)' = IF indGet' <= i THEN i - indGet' ELSE i - indGet' + (Capacity + 1)
    BY DEF Ahead, Size
<1>4. CASE indGet = Capacity
    BY <1>1, <1>2, <1>3, <1>4 DEF Ahead, Size
<1>5. CASE indGet # Capacity
    BY <1>1, <1>2, <1>3, <1>5 DEF Ahead, Size
<1> QED BY <1>4, <1>5

\* The write index is as far ahead as there are events, and ends the buffer.
LEMMA AheadOfPut ==
    ASSUME TypeOK, IndicesInStep, NEW i \in Slots
    PROVE  Ahead(i) = tail - head <=> i = indPut
<1>1. indPut \in Slots /\ indGet \in Slots /\ head \in Nat /\ tail \in Nat
    BY DEF TypeOK
<1>2. head <= tail /\ tail - head <= Capacity
      /\ indPut - indGet \in {tail - head, tail - head - (Capacity + 1)}
    BY DEF IndicesInStep, Size
<1> QED BY <1>1, <1>2, CapacityAssumption DEF Slots, Ahead, Size

\* Advancing the read index leaves a shorter buffer.
LEMMA ContentAdvance ==
    ASSUME Inv, Content, indGet' = Succ(indGet), head' = head + 1, head < tail,
           UNCHANGED <<body, tail, reordered>>
    PROVE  Content'
<1>0. TypeOK /\ IndicesInStep
    BY DEF Inv
<1>1. head \in Nat /\ tail \in Nat /\ tail - head <= Capacity
    BY <1>0 DEF TypeOK, IndicesInStep
<1> SUFFICES ASSUME ~reordered, NEW i \in Slots, NEW h \in Halves,
                    Ahead(i)' < tail' - head'
             PROVE  body'[i][h] = head' + Ahead(i)' + 1
    BY DEF Content
<1>2. Ahead(i)' = (IF i = indGet THEN Capacity ELSE Ahead(i) - 1) /\ Ahead(i) \in 0 .. Capacity
    BY <1>0, AheadShifts, AheadRange
<1>3. i # indGet /\ Ahead(i) < tail - head
    BY <1>1, <1>2, CapacityAssumption
<1>4. body[i][h] = head + Ahead(i) + 1
    BY <1>3 DEF Content
<1> QED BY <1>1, <1>2, <1>3, <1>4

LEMMA ContentKept ==
    ASSUME Content, UNCHANGED <<body, indGet, head, tail, reordered>>
    PROVE  Content'
BY DEF Content, Ahead

LEMMA ContentStep == Inv /\ PutInv /\ Content /\ [Next]_vars => Content'
<1> SUFFICES ASSUME Inv, PutInv, Content, [Next]_vars PROVE Content'
    OBVIOUS
<1>0. TypeOK /\ IndicesInStep
    BY DEF Inv
<1>a. head \in Nat /\ tail \in Nat /\ puts \in Nat /\ body \in [Slots -> [Halves -> Nat]]
      /\ slot \in Slots
    BY <1>0 DEF TypeOK
<1>1. CASE PutBegin
    BY <1>1, ContentKept DEF PutBegin, shared
<1>2. CASE PutOverwrite
    <2>1. CASE Cas(rcur)
        <3>1. tail - head = Capacity /\ indGet' = Succ(indGet) /\ head' = head + 1
            BY <1>0, <1>2, <2>1, Distance DEF Cas, PutOverwrite, Inv
        <3> QED BY <1>a, <1>2, <3>1, ContentAdvance, CapacityAssumption DEF PutOverwrite
    <2>2. CASE ~Cas(rcur)
        BY <1>2, <2>2, ContentKept DEF PutOverwrite
    <2> QED BY <2>1, <2>2
<1>3. ASSUME NEW h \in Halves, PutStore(h) PROVE Content'
    <2> SUFFICES ASSUME ~reordered', NEW i \in Slots, NEW g \in Halves,
                        Ahead(i)' < tail' - head'
                 PROVE  body'[i][g] = head' + Ahead(i)' + 1
        BY DEF Content
    <2>1. UNCHANGED <<indGet, head, tail, reordered>> /\ Ahead(i)' = Ahead(i)
        BY <1>3 DEF PutStore, Ahead
    <2>2. slot = indPut
        BY <1>3, <2>1 DEF PutStore, PutInv, Inv
    <2>3. i # slot
        BY <1>0, <1>a, <2>1, <2>2, AheadOfPut, AheadRange
    <2>4. body'[i][g] = body[i][g]
        BY <1>a, <1>3, <2>3 DEF PutStore
    <2> QED BY <2>1, <2>4 DEF Content
<1>4. CASE PutPublish
    <2> SUFFICES ASSUME ~reordered', NEW i \in Slots, NEW g \in Halves,
                        Ahead(i)' < tail' - head'
                 PROVE  body'[i][g] = head' + Ahead(i)' + 1
        BY DEF Content
    <2>1. UNCHANGED <<body, indGet, head>> /\ tail' = tail + 1 /\ Ahead(i)' = Ahead(i)
          /\ Ahead(i) \in 0 .. Capacity
        BY <1>0, <1>4, AheadRange DEF PutPublish, Ahead
    <2>2. ~reordered /\ pending = {"index"} /\ slot = indPut /\ puts = tail + 1 /\ pPc = "store"
        BY <1>4 DEF PutPublish, PutInv, Inv
    <2>3. CASE i = indPut
        <3>1. Ahead(i) = tail - head
            BY <1>0, <2>3, AheadOfPut
        <3>2. body[i][g] = tail + 1
            BY <2>2, <2>3 DEF PutInv, Halves
        <3> QED BY <1>a, <2>1, <3>1, <3>2
    <2>4. CASE i # indPut
        <3>1. Ahead(i) < tail - head
            BY <1>0, <1>a, <2>1, <2>4, AheadOfPut
        <3> QED BY <2>1, <2>2, <3>1 DEF Content
    <2> QED BY <2>3, <2>4
<1>5. CASE CheckBegin
    BY <1>5, ContentKept DEF CheckBegin, shared, producer
<1>6. CASE CheckEmpty
    BY <1>6, ContentKept DEF CheckEmpty, shared, producer
<1>7. CASE GetCheck
    BY <1>7, ContentKept DEF GetCheck, shared, producer
<1>8. CASE GetKind
    BY <1>8, ContentKept DEF GetKind, shared, producer
<1>9. CASE GetPayload
    BY <1>9, ContentKept DEF GetPayload, shared, producer
<1>10. CASE GetAdvance
    <2>1. head < tail
        BY <1>10 DEF Inv, GetAdvance
    <2>2. CASE Cas(rget)
        BY <1>10, <2>1, <2>2, ContentAdvance DEF GetAdvance, Cas, producer
    <2>3. CASE ~Cas(rget)
        BY <1>10, <2>3, ContentKept DEF GetAdvance, producer
    <2> QED BY <2>2, <2>3
<1>11. CASE UserInputDestroy
    BY <1>11, ContentKept DEF UserInputDestroy, shared, producer
<1>13. CASE LeaveOrResume
    BY <1>13, ContentKept DEF LeaveOrResume, shared, producer
<1>12. CASE UNCHANGED vars
    BY <1>12, ContentKept DEF vars, shared, producer
<1> QED
    BY <1>1, <1>2, <1>3, <1>4, <1>5, <1>6, <1>7, <1>8, <1>9, <1>10, <1>11, <1>12, <1>13
    DEF Next, Producer, Poll

-----------------------------------------------------------------------------
\* What the read index points at left nobody's buffer yet.
LEMMA HeadIsFresh ==
    ASSUME Inv, Content, ~reordered, head < tail, base <= head
    PROVE  \A h \in Halves : body[indGet][h] > base
<1>1. indGet \in Slots /\ head \in Nat /\ tail \in Nat /\ base \in Nat /\ TypeOK
    BY DEF Inv, TypeOK
<1>2. Ahead(indGet) = 0
    BY <1>1, AheadRange
<1>3. \A h \in Halves : body[indGet][h] = head + 0 + 1
    BY <1>1, <1>2 DEF Content
<1> QED BY <1>1, <1>3

LEMMA FreshStep == Inv /\ SurplusInv /\ PutInv /\ Content /\ Fresh /\ [Next]_vars => Fresh'
<1> SUFFICES ASSUME Inv, SurplusInv, PutInv, Content, Fresh, [Next]_vars,
                    ~reordered'
             PROVE  Fresh'
    BY DEF Fresh
<1>0. TypeOK /\ IndicesInStep
    BY DEF Inv
<1>a. head \in Nat /\ tail \in Nat /\ base \in Nat /\ puts \in Nat
      /\ body \in [Slots -> [Halves -> Nat]] /\ rget \in Slots /\ indGet \in Slots
      /\ slot \in Slots /\ res \in [Halves -> Nat]
    BY <1>0 DEF TypeOK
<1>b. ASSUME cPc \in Reading, ~reordered
      PROVE  \A g \in Reread(rget, indGet) : cPc # "cas" => g \in Slots /\ \A h \in Halves : body[g][h] > base
    <2>1. \A h \in Halves : body[indGet][h] > base
        BY <1>b, HeadIsFresh DEF Inv, SurplusInv, Reading
    <2>2. cPc # "cas" => \A h \in Halves : body[rget][h] > base
        BY <1>b DEF Fresh, Reading
    <2> QED BY <1>a, <2>1, <2>2 DEF Reread
<1>1. CASE PutBegin
    BY <1>1 DEF Fresh, PutBegin, shared, consumer
<1>2. CASE PutOverwrite
    BY <1>2 DEF Fresh, PutOverwrite, consumer
<1>3. ASSUME NEW h \in Halves, PutStore(h) PROVE Fresh'
    <2>1. UNCHANGED <<cPc, rget, res, base, reordered>>
        BY <1>3 DEF PutStore, consumer
    <2>2. \A g \in Halves : body'[rget][g] >= body[rget][g]
        BY <1>a, <1>3 DEF PutStore, PutInv
    <2>3. \A g \in Halves : body[rget][g] \in Nat /\ body'[rget][g] \in Nat
        BY <1>a, <1>3 DEF PutStore
    <2>4. cPc \in {"get", "kind", "payload"} => \A g \in Halves : body'[rget][g] > base
        BY <1>a, <2>1, <2>2, <2>3 DEF Fresh
    <2> QED BY <2>1, <2>4 DEF Fresh
<1>4. CASE PutPublish
    BY <1>4 DEF Fresh, PutPublish, consumer
<1>5. CASE CheckBegin
    BY <1>5 DEF Fresh, CheckBegin
<1>6. CASE CheckEmpty
    <2>1. cPc' = "get" => head < tail
        BY <1>0, <1>6, Distance DEF Inv, CheckEmpty, IsEmpty, IndicesInStep, TypeOK
    <2>2. base <= head /\ ~reordered
        BY <1>6 DEF SurplusInv, CheckEmpty, producer
    <2>3. cPc' = "get" => \A h \in Halves : body[indGet][h] > base
        BY <2>1, <2>2, HeadIsFresh
    <2> QED BY <1>6, <2>3 DEF Fresh, CheckEmpty, shared
<1>7. CASE GetCheck
    <2>1. rget' \in Reread(rget, indGet) /\ UNCHANGED <<body, base, reordered>>
          /\ cPc = "get" /\ cPc' \in {"idle", "kind"}
        BY <1>7 DEF GetCheck, shared, producer
    <2> QED BY <1>b, <2>1 DEF Fresh, Reading
<1>8. CASE GetKind
    <2>1. PICK g \in Reread(rget, indGet) :
              rget' = g /\ res' = [res EXCEPT !["kind"] = body[g]["kind"]]
        BY <1>8 DEF GetKind
    <2>2. UNCHANGED <<body, base, reordered>> /\ cPc = "kind" /\ cPc' = "payload"
        BY <1>8 DEF GetKind, shared, producer
    <2>3. \A h \in Halves : body[g][h] > base
        BY <1>b, <2>1, <2>2 DEF Reading
    <2> QED BY <1>a, <2>1, <2>2, <2>3 DEF Fresh, Halves
<1>9. CASE GetPayload
    <2>1. res' = [res EXCEPT !["payload"] = body[rget]["payload"]] /\ cPc' = "cas"
          /\ UNCHANGED <<base, reordered>> /\ cPc = "payload"
        BY <1>9 DEF GetPayload, producer
    <2>2. body[rget]["payload"] > base /\ res["kind"] > base
        BY <2>1 DEF Fresh, Halves
    <2> QED BY <1>a, <2>1, <2>2 DEF Fresh, Halves
<1>10. CASE GetAdvance
    BY <1>10 DEF Fresh, GetAdvance
<1>11. CASE UserInputDestroy
    BY <1>11 DEF Fresh, UserInputDestroy
<1>13. CASE LeaveOrResume
    BY <1>13 DEF Fresh, LeaveOrResume
<1>12. CASE UNCHANGED vars
    BY <1>12 DEF Fresh, vars, shared, consumer, producer
<1> QED
    BY <1>1, <1>2, <1>3, <1>4, <1>5, <1>6, <1>7, <1>8, <1>9, <1>10, <1>11, <1>12, <1>13
    DEF Next, Producer, Poll

\* In every mode, as long as the stores were seen in order, neither half of what a poll
\* returns is older than the poll.
THEOREM NothingStale == Spec => []NeverStale
<1>1. Init => Fresh
    BY DEF Init, Fresh
<1>2. Fresh => NeverStale
    BY DEF Fresh, NeverStale, Halves
<1> QED
    BY InvInit, InvStep, SurplusInit, SurplusStep, PutInit, PutStep, ContentStep,
       FreshStep, <1>1, <1>2, PTL DEF Spec

-----------------------------------------------------------------------------
(* The buffer is a FIFO queue. *)

\* The sequence of the events m + 1, ..., m + n.
Numbers(m, n) == [i \in 1 .. n |-> [h \in Halves |-> m + i]]

LEMMA NumbersSeq ==
    ASSUME NEW m \in Nat, NEW n \in Nat
    PROVE  /\ Numbers(m, n) \in Seq([Halves -> Nat])
           /\ Len(Numbers(m, n)) = n
           /\ \A i \in 1 .. n : Numbers(m, n)[i] = [h \in Halves |-> m + i]
BY DEF Numbers

LEMMA NumbersAppend ==
    ASSUME NEW m \in Nat, NEW n \in Nat
    PROVE  Numbers(m, n + 1) = Append(Numbers(m, n), [h \in Halves |-> m + n + 1])
<1> DEFINE e == [h \in Halves |-> m + n + 1]
           S == [Halves -> Nat]
           s == Numbers(m, n)
           a == Numbers(m, n + 1)
<1>1. n + 1 \in Nat /\ e \in S
    OBVIOUS
<1>2. s \in Seq(S) /\ Len(s) = n /\ \A i \in 1 .. n : s[i] = [h \in Halves |-> m + i]
    BY NumbersSeq
<1>3. a \in Seq(S) /\ Len(a) = n + 1 /\ \A i \in 1 .. n + 1 : a[i] = [h \in Halves |-> m + i]
    BY <1>1, NumbersSeq
<1>5. a[n + 1] = e
    <2>1. a[n + 1] = [h \in Halves |-> m + (n + 1)]
        <3>1. n + 1 \in 1 .. n + 1
            OBVIOUS
        <3> HIDE DEF a
        <3> QED BY <1>3, <3>1
    <2>2. m + (n + 1) = m + n + 1
        OBVIOUS
    <2> QED BY <2>1, <2>2
<1> HIDE DEF S, s, a, e
<1>4. /\ Append(s, e) \in Seq(S)
      /\ Len(Append(s, e)) = n + 1
      /\ \A i \in 1 .. n : Append(s, e)[i] = s[i]
      /\ Append(s, e)[n + 1] = e
    BY <1>1, <1>2, AppendProperties
<1>6. \A i \in 1 .. n : a[i] = s[i]
    <2> TAKE i \in 1 .. n
    <2>1. i \in 1 .. n + 1
        OBVIOUS
    <2> QED BY <1>2, <1>3, <2>1
<1>7. ASSUME NEW i \in 1 .. n + 1 PROVE a[i] = Append(s, e)[i]
    <2>1. CASE i = n + 1
        BY <1>4, <1>5, <2>1
    <2>2. CASE i \in 1 .. n
        BY <1>4, <1>6, <2>2
    <2>3. i = n + 1 \/ i \in 1 .. n
        OBVIOUS
    <2> QED BY <2>1, <2>2, <2>3
<1>8. a = Append(s, e)
    BY <1>3, <1>4, <1>7, SeqEqual
<1> QED BY <1>8 DEF a, s, e

LEMMA NumbersTail ==
    ASSUME NEW m \in Nat, NEW n \in Nat
    PROVE  /\ Numbers(m, n + 1) # <<>>
           /\ Head(Numbers(m, n + 1)) = [h \in Halves |-> m + 1]
           /\ Tail(Numbers(m, n + 1)) = Numbers(m + 1, n)
<1> DEFINE S == [Halves -> Nat]
           a == Numbers(m, n + 1)
           b == Numbers(m + 1, n)
<1>1. n + 1 \in Nat /\ m + 1 \in Nat
    OBVIOUS
<1>2. a \in Seq(S) /\ Len(a) = n + 1 /\ \A i \in 1 .. n + 1 : a[i] = [h \in Halves |-> m + i]
    BY <1>1, NumbersSeq
<1>3. b \in Seq(S) /\ Len(b) = n /\ \A i \in 1 .. n : b[i] = [h \in Halves |-> m + 1 + i]
    BY <1>1, NumbersSeq
<1>4. ASSUME NEW i \in 1 .. n PROVE a[i + 1] = b[i]
    <2>1. i + 1 \in 1 .. n + 1 /\ m + (i + 1) = m + 1 + i
        OBVIOUS
    <2>2. a[i + 1] = [h \in Halves |-> m + (i + 1)]
        BY <1>2, <2>1
    <2> QED BY <1>3, <2>1, <2>2
<1> HIDE DEF S, a, b
<1>5. a[1] = [h \in Halves |-> m + 1]
    BY <1>1, <1>2
<1>6. a # <<>>
    BY <1>2
<1>7. /\ Tail(a) \in Seq(S) /\ Len(Tail(a)) = n
      /\ \A i \in 1 .. n : Tail(a)[i] = a[i + 1]
    BY <1>2, <1>6, HeadTailProperties
<1>8. Tail(a) = b
    BY <1>3, <1>4, <1>7, SeqEqual
<1>9. Head(a) = a[1]
    BY <1>2
<1> QED BY <1>5, <1>6, <1>8, <1>9 DEF a, b

-----------------------------------------------------------------------------
(* The buffer's contents *)

LEMMA WrapOnce ==
    ASSUME NEW i \in 0 .. 2 * Capacity
    PROVE  i % Size = IF i <= Capacity THEN i ELSE i - Size
BY CapacityAssumption DEF Size

\* As long as stores are seen in order, the buffer holds head + 1, ..., tail.
LEMMA QueueIsNumbers ==
    Inv /\ Content /\ ~reordered => Queue = Numbers(head, tail - head)
<1> SUFFICES ASSUME Inv, Content, ~reordered PROVE Queue = Numbers(head, tail - head)
    OBVIOUS
<1>1. TypeOK /\ IndicesInStep
    BY DEF Inv
<1>2. head \in Nat /\ tail \in Nat /\ tail - head \in 0 .. Capacity /\ indGet \in 0 .. Capacity
      /\ body \in [Slots -> [Halves -> Nat]]
    BY <1>1 DEF TypeOK, IndicesInStep, Slots
<1>3. ASSUME NEW i \in 1 .. tail - head
      PROVE  body[(indGet + i - 1) % Size] = [h \in Halves |-> head + i]
    <2> DEFINE n == indGet + i - 1
               j == n % Size
    <2>1. n \in 0 .. 2 * Capacity
        BY <1>2, CapacityAssumption
    <2>2. j = IF n <= Capacity THEN n ELSE n - Size
        <3> HIDE DEF n
        <3> QED BY <2>1, WrapOnce
    <2> HIDE DEF j
    <2>3. j \in Slots /\ Ahead(j) = i - 1
        <3>1. CASE n <= Capacity
            BY <1>2, <2>2, <3>1, CapacityAssumption DEF Slots, Size, Ahead
        <3>2. CASE ~(n <= Capacity)
            BY <1>2, <2>2, <3>2, CapacityAssumption DEF Slots, Size, Ahead
        <3> QED BY <3>1, <3>2
    <2>4. \A h \in Halves : body[j][h] = head + i
        BY <1>2, <2>3 DEF Content
    <2>5. body[j] = [h \in Halves |-> head + i]
        BY <1>2, <2>3, <2>4
    <2> QED BY <2>5 DEF j
<1> QED BY <1>3 DEF Queue, Numbers

LEMMA AcceptedIsNumbers ==
    ASSUME NEW n \in Nat
    PROVE  [i \in 1 .. n |-> [h \in Halves |-> i]] = Numbers(0, n)
<1>1. \A i \in 1 .. n : 0 + i = i
    OBVIOUS
<1> QED BY <1>1 DEF Numbers

-----------------------------------------------------------------------------
(* Polls that no put overwrites *)

\* Where no put overwrites in the middle of a poll, the read index stays where the
\* poll found it, and the poll's result is the oldest event.
CalmInv ==
    /\ puts <= MaxPuts
    /\ ~reordered
    /\ cPc \in Reading \cup {"check"} => pPc # "overwrite"
    /\ cPc \in Reading => rget = indGet
    /\ cPc \in {"payload", "cas"} => res["kind"] = head + 1
    /\ cPc = "cas" => res["payload"] = head + 1

LEMMA CalmInit == Init => CalmInv
BY MaxPutsAssumption DEF Init, CalmInv, Reading

\* The slot at the read index holds the oldest event.
LEMMA HeadIsOldest ==
    ASSUME Inv, Content, ~reordered, head < tail
    PROVE  \A h \in Halves : body[indGet][h] = head + 1
<1>1. indGet \in Slots /\ head \in Nat /\ tail \in Nat /\ TypeOK
    BY DEF Inv, TypeOK
<1>2. Ahead(indGet) = 0
    BY <1>1, AheadRange
<1> QED BY <1>1, <1>2 DEF Content

LEMMA CalmStep ==
    ASSUME ~Racing, InOrderStores
    PROVE  Inv /\ SurplusInv /\ PutInv /\ Content /\ CalmInv /\ [Next]_vars => CalmInv'
<1> SUFFICES ASSUME Inv, SurplusInv, PutInv, Content, CalmInv, [Next]_vars PROVE CalmInv'
    OBVIOUS
<1>0. TypeOK /\ IndicesInStep
    BY DEF Inv
<1>a. head \in Nat /\ puts \in Nat /\ res \in [Halves -> Nat]
    BY <1>0 DEF TypeOK
<1> USE DEF Reading
<1>1. CASE PutBegin
    BY <1>a, <1>1, MaxPutsAssumption DEF CalmInv, PutBegin, shared, consumer
<1>2. CASE PutOverwrite
    BY <1>2 DEF CalmInv, PutOverwrite, consumer
<1>3. ASSUME NEW h \in Halves, PutStore(h) PROVE CalmInv'
    BY <1>3 DEF CalmInv, PutStore, PutDone, consumer
<1>4. CASE PutPublish
    BY <1>4 DEF CalmInv, PutPublish, PutDone, MayPublish, consumer
<1>5. CASE CheckBegin
    BY <1>5 DEF CalmInv, CheckBegin, shared, producer
<1>6. CASE CheckEmpty
    BY <1>6 DEF CalmInv, CheckEmpty, shared, producer
<1>7. CASE GetCheck
    <2>1. rget' = indGet /\ UNCHANGED <<indGet, pPc, puts, reordered, head>>
        BY <1>7 DEF CalmInv, GetCheck, Reread, shared, producer
    <2>2. cPc = "get" /\ cPc' \in {"idle", "kind"}
        BY <1>7 DEF GetCheck
    <2> QED BY <2>1, <2>2 DEF CalmInv
<1>8. CASE GetKind
    <2>1. rget' = indGet /\ res' = [res EXCEPT !["kind"] = body[indGet]["kind"]]
          /\ UNCHANGED <<indGet, pPc, puts, reordered, head>> /\ cPc = "kind" /\ cPc' = "payload"
        BY <1>8 DEF CalmInv, GetKind, Reread, shared, producer
    <2>2. body[indGet]["kind"] = head + 1
        BY <2>1, HeadIsOldest DEF CalmInv, Inv, Halves
    <2> QED BY <1>a, <2>1, <2>2 DEF CalmInv, Halves
<1>9. CASE GetPayload
    <2>1. rget' = indGet /\ res' = [res EXCEPT !["payload"] = body[indGet]["payload"]]
          /\ UNCHANGED <<indGet, pPc, puts, reordered, head>> /\ cPc = "payload" /\ cPc' = "cas"
        BY <1>9 DEF CalmInv, GetPayload, Reread, shared, producer
    <2>2. body[indGet]["payload"] = head + 1
        BY <2>1, HeadIsOldest DEF CalmInv, Inv, Halves
    <2> QED BY <1>a, <2>1, <2>2 DEF CalmInv, Halves
<1>10. CASE GetAdvance
    BY <1>10 DEF CalmInv, GetAdvance, producer
<1>11. CASE UserInputDestroy
    BY <1>11 DEF CalmInv, UserInputDestroy, shared, producer
<1>13. CASE LeaveOrResume
    BY <1>13 DEF CalmInv, LeaveOrResume, shared, producer
<1>12. CASE UNCHANGED vars
    BY <1>12 DEF CalmInv, vars, shared, producer, consumer
<1> QED
    BY <1>1, <1>2, <1>3, <1>4, <1>5, <1>6, <1>7, <1>8, <1>9, <1>10, <1>11, <1>12, <1>13
    DEF Next, Producer, Poll

-----------------------------------------------------------------------------
(* Refinement *)

AllInv == Inv /\ SurplusInv /\ PutInv /\ Content /\ CalmInv

LEMMA RefineInit == Init => Abstract!Init
<1> SUFFICES ASSUME Init PROVE Abstract!Init
    OBVIOUS
<1>1. Queue = <<>>
    BY DEF Init, Queue
<1>2. [i \in 1 .. tail |-> [h \in Halves |-> i]] = <<>>
    BY DEF Init
<1> QED BY <1>1, <1>2 DEF Init, Abstract!Init

LEMMA Counters ==
    TypeOK /\ IndicesInStep
        => head \in Nat /\ tail \in Nat /\ tail - head \in 0 .. Capacity
BY CapacityAssumption DEF TypeOK, IndicesInStep

LEMMA RefineStep ==
    ASSUME ~Racing, InOrderStores
    PROVE  AllInv /\ AllInv' /\ [Next]_vars => [Abstract!Next]_Abstract!qvars
<1> SUFFICES ASSUME AllInv, AllInv', [Next]_vars PROVE [Abstract!Next]_Abstract!qvars
    OBVIOUS
<1> DEFINE accepted == [i \in 1 .. tail |-> [h \in Halves |-> i]]
<1>0. TypeOK /\ TypeOK' /\ IndicesInStep /\ IndicesInStep'
    BY DEF AllInv, Inv
<1>a. /\ head \in Nat /\ tail \in Nat /\ tail - head \in 0 .. Capacity
      /\ head' \in Nat /\ tail' \in Nat /\ tail' - head' \in 0 .. Capacity
    <2>1. (TypeOK /\ IndicesInStep
             => head \in Nat /\ tail \in Nat /\ tail - head \in 0 .. Capacity)'
        BY Counters, PTL
    <2> QED BY <1>0, <2>1, Counters
<1>b. Queue = Numbers(head, tail - head)
    BY QueueIsNumbers DEF AllInv, CalmInv
<1>b1. (Inv /\ Content /\ ~reordered => Queue = Numbers(head, tail - head))'
    BY QueueIsNumbers, PTL
<1>b2. Queue' = Numbers(head', tail' - head')
    BY <1>b1 DEF AllInv, CalmInv
<1>c. accepted = Numbers(0, tail) /\ accepted' = Numbers(0, tail')
    BY <1>a, AcceptedIsNumbers
<1>n. Len(Queue) = tail - head
    <2>1. tail - head \in Nat
        BY <1>a
    <2> QED BY <1>a, <1>b, <2>1, NumbersSeq
<1> HIDE DEF accepted
\* A step that moves no index is a step of nobody in the queue.
<1>d. ASSUME UNCHANGED <<head, tail, delivered>> PROVE UNCHANGED Abstract!qvars
    BY <1>b, <1>b2, <1>c, <1>d DEF Abstract!qvars, accepted
<1>1. CASE PutBegin
    BY <1>1, <1>d DEF PutBegin, consumer
\* One element leaves at the front when the read index advances.
<1>e. ASSUME head' = head + 1, tail' = tail
      PROVE  /\ Queue # <<>> /\ Head(Queue) = [h \in Halves |-> head + 1]
             /\ Queue' = Tail(Queue) /\ accepted' = accepted
    <2> DEFINE n == tail - head - 1
    <2>1. n \in Nat /\ n + 1 = tail - head /\ tail' - head' = n
        BY <1>a, <1>e
    <2> HIDE DEF n
    <2>2. Queue = Numbers(head, n + 1) /\ Queue' = Numbers(head + 1, n)
        BY <1>b, <1>b2, <1>e, <2>1
    <2> QED BY <1>a, <1>c, <1>e, <2>1, <2>2, NumbersTail, ZenonT(60)
<1>2. CASE PutOverwrite
    <2>1. CASE Cas(rcur)
        <3>1. head' = head + 1 /\ tail' = tail /\ delivered' = delivered
            BY <1>2, <2>1 DEF PutOverwrite, consumer
        <3>2. tail - head = Capacity
            BY <1>0, <1>2, <2>1, Distance DEF Cas, PutOverwrite, AllInv, Inv
        <3>3. Abstract!DropOldest
            BY <1>e, <1>n, <3>1, <3>2 DEF Abstract!DropOldest, accepted
        <3> QED BY <3>3 DEF Abstract!Next
    <2>2. CASE ~Cas(rcur)
        BY <1>2, <1>d, <2>2 DEF PutOverwrite, consumer
    <2> QED BY <2>1, <2>2
<1>3. ASSUME NEW h \in Halves, PutStore(h) PROVE UNCHANGED Abstract!qvars
    BY <1>3, <1>d DEF PutStore, consumer
<1>4. CASE PutPublish
    <2>1. head' = head /\ tail' = tail + 1 /\ delivered' = delivered
        BY <1>4 DEF PutPublish, consumer
    <2>2. tail - head < Capacity /\ tail + 1 <= MaxPuts
        BY <1>4 DEF PutPublish, AllInv, Inv, PutInv, CalmInv
    <2> DEFINE e == [h \in Halves |-> tail + 1]
    <2>3. e \in [Halves -> 1 .. MaxPuts]
        BY <1>a, <2>2, MaxPutsAssumption
    <2>4. Queue' = Append(Queue, e)
        <3> DEFINE n == tail - head
        <3>1. n \in Nat /\ tail' - head' = n + 1 /\ head + n + 1 = tail + 1
            BY <1>a, <2>1
        <3>2. Queue = Numbers(head, n) /\ Queue' = Numbers(head, n + 1)
            BY <1>b, <1>b2, <2>1, <3>1
        <3>3. e = [h \in Halves |-> head + n + 1]
            BY <3>1
        <3> HIDE DEF n, e
        <3>4. Numbers(head, n + 1) = Append(Numbers(head, n), [h \in Halves |-> head + n + 1])
            BY <1>a, <3>1, NumbersAppend
        <3> QED BY <3>2, <3>3, <3>4
    <2>5. accepted' = Append(accepted, e)
        <3>1. 0 + tail + 1 = tail + 1
            BY <1>a
        <3>2. e = [h \in Halves |-> 0 + tail + 1]
            BY <3>1
        <3> HIDE DEF e
        <3>3. Numbers(0, tail + 1) = Append(Numbers(0, tail), [h \in Halves |-> 0 + tail + 1])
            BY <1>a, NumbersAppend
        <3> QED BY <1>c, <2>1, <3>2, <3>3
    <2>6. Abstract!Put(e)
        BY <1>n, <2>1, <2>2, <2>4, <2>5 DEF Abstract!Put, accepted
    <2> QED BY <2>3, <2>6 DEF Abstract!Next
<1>5. CASE CheckBegin
    BY <1>5, <1>d DEF CheckBegin
<1>6. CASE CheckEmpty
    BY <1>6, <1>d DEF CheckEmpty
<1>7. CASE GetCheck
    <2>1. head < tail /\ indPut # indGet /\ rget = indGet /\ rput # rget
        BY <1>0, <1>a, <1>7, Distance DEF AllInv, Inv, SurplusInv, CalmInv, GetCheck, Reading
    <2>2. delivered' = delivered
        BY <1>7, <2>1 DEF GetCheck, IsEmpty, Reread
    <2> QED BY <1>7, <1>d, <2>2 DEF GetCheck
<1>8. CASE GetKind
    BY <1>8, <1>d DEF GetKind
<1>9. CASE GetPayload
    BY <1>9, <1>d DEF GetPayload
<1>10. CASE GetAdvance
    <2>1. head' = head + 1 /\ tail' = tail
        BY <1>10 DEF AllInv, CalmInv, GetAdvance, Cas, Reading
    <2>2. res = [h \in Halves |-> head + 1]
        <3>1. res["kind"] = head + 1 /\ res["payload"] = head + 1 /\ res \in [Halves -> Nat]
            BY <1>0, <1>10 DEF AllInv, CalmInv, GetAdvance, TypeOK
        <3> QED BY <3>1 DEF Halves
    <2>3. CASE draining
        <3>1. Abstract!Discard
            BY <1>10, <1>e, <2>1, <2>3 DEF GetAdvance, Abstract!Discard, accepted
        <3> QED BY <3>1 DEF Abstract!Next
    <2>4. CASE ~draining
        <3>1. Abstract!Get
            BY <1>10, <1>e, <2>1, <2>2, <2>4 DEF GetAdvance, Abstract!Get, accepted
        <3> QED BY <3>1 DEF Abstract!Next
    <2> QED BY <2>3, <2>4
<1>11. CASE UserInputDestroy
    BY <1>11, <1>d DEF UserInputDestroy
<1>13. CASE LeaveOrResume
    BY <1>13, <1>d DEF LeaveOrResume
<1>12. CASE UNCHANGED vars
    BY <1>12, <1>d DEF vars, consumer
<1> QED
    BY <1>1, <1>2, <1>3, <1>4, <1>5, <1>6, <1>7, <1>8, <1>9, <1>10, <1>11, <1>12, <1>13
    DEF Next, Producer, Poll

\* The racing threads implement the FIFO queue that forgets its oldest element when full,
\* wherever no put overwrites in the middle of a poll and stores are seen in order.
THEOREM QueueImplemented ==
    ASSUME ~Racing, InOrderStores
    PROVE  Spec => IsFifoQueue
<1>1. Init => AllInv
    BY InvInit, SurplusInit, PutInit, CalmInit DEF AllInv
<1>2. AllInv /\ [Next]_vars => AllInv'
    BY InvStep, SurplusStep, PutStep, ContentStep, CalmStep DEF AllInv
<1> QED BY <1>1, <1>2, RefineInit, RefineStep, PTL DEF Spec, IsFifoQueue, Abstract!Spec

=============================================================================
