--------------------------- MODULE SpscRingProofs ---------------------------
(***************************************************************************)
(* Proofs about SpscRing for every capacity and every set of elements.     *)
(*                                                                         *)
(* IInv is the inductive invariant.  Its parts say where each store of an  *)
(* index points (Positions), how far each thread's possibly stale view may *)
(* lie behind (Views), what the slots and the local copies hold (Contents) *)
(* and the two properties it is used for that are inductive themselves.    *)
(***************************************************************************)
EXTENDS SpscRing, Arithmetic

\* The slot of the element with n elements before it.
At(n) == n % Capacity

Positions ==
  /\ Len(headMO) = Len(received) + 1
  /\ Len(tailMO) = Len(sent) + 1
  /\ \A k \in 1 .. Len(headMO) : headMO[k] = At(k - 1)
  /\ \A k \in 1 .. Len(tailMO) : tailMO[k] = At(k - 1)

Views ==
  /\ Len(received) <= tailView - 1
  /\ cpc # "idle" => Len(received) < tailView - 1
  /\ Len(sent) - (headView - 1) <= Capacity - 1
  /\ ppc # "idle" => Len(sent) - (headView - 1) < Capacity - 1

Contents ==
  /\ \A k \in Nat : Len(received) <= k /\ k < Len(sent) => buf[At(k)] = sent[k + 1]
  /\ ppc = "publish" => buf[At(Len(sent))] = pushing
  /\ cpc = "release" => out = sent[Len(received) + 1]

IInv == TypeOK /\ Positions /\ Views /\ Contents /\ Fifo /\ JustifiedRefusal

-----------------------------------------------------------------------------
(* Facts about the slots. *)

LEMMA AtFacts ==
  /\ At(0) = 0
  /\ \A n \in Nat : At(n) \in Slots
  /\ \A n \in Nat : Succ(At(n)) = At(n + 1)
  /\ \A n \in Nat : At(n + Capacity) = At(n)
  /\ \A m, n \in Nat : At(m) = At(n) /\ m - n < Capacity /\ n - m < Capacity => m = n
<1>0. Capacity \in Nat \ {0} BY CapacityAssumption
<1>1. At(0) = 0 BY <1>0, ModSmall DEF At
<1>2. ASSUME NEW n \in Nat PROVE At(n) \in Slots
  BY <1>0, ModRange DEF At, Slots
<1>3. ASSUME NEW n \in Nat PROVE Succ(At(n)) = At(n + 1)
  <2>1. n \in Int OBVIOUS
  <2> QED BY <1>0, <2>1, ModSuccessor DEF At, Succ
<1>4. ASSUME NEW n \in Nat PROVE At(n + Capacity) = At(n)
  <2>1. n \in Int OBVIOUS
  <2> QED BY <1>0, <2>1, ModPeriodic DEF At
<1>5. ASSUME NEW m \in Nat, NEW n \in Nat,
             At(m) = At(n), m - n < Capacity, n - m < Capacity
      PROVE  m = n
  <2>1. m \in Int /\ n \in Int /\ m % Capacity = n % Capacity BY <1>5 DEF At
  <2> QED BY <1>0, <1>5, <2>1, ModInjective
<1> QED BY <1>1, <1>2, <1>3, <1>4, <1>5

\* The ring holds at most Capacity - 1 elements, and as many as the size
\* computed from the two indices says.
LEMMA OccupancyIsCount ==
  ASSUME TypeOK, Positions, Views
  PROVE  /\ Latest(tailMO) = At(Len(sent))
         /\ Latest(headMO) = At(Len(received))
         /\ Len(received) <= Len(sent)
         /\ Len(sent) - Len(received) <= Capacity - 1
         /\ Occupancy(Latest(tailMO), Latest(headMO)) = Len(sent) - Len(received)
<1>1. /\ Latest(tailMO) = At(Len(sent))
      /\ Latest(headMO) = At(Len(received))
  BY DEF TypeOK, Positions, Latest
<1>2. /\ Len(received) <= Len(sent)
      /\ Len(sent) - Len(received) <= Capacity - 1
  BY CapacityAssumption DEF TypeOK, Positions, Views
<1>3. Len(sent) \in Nat /\ Len(received) \in Nat BY DEF TypeOK
<1>4. Occupancy(At(Len(sent)), At(Len(received))) = Len(sent) - Len(received)
  <2> DEFINE m == Len(sent)
             n == Len(received)
  <2>1. /\ m \in Int /\ n \in Int /\ 0 <= m - n /\ m - n < Capacity
        /\ Capacity \in Nat \ {0}
    BY <1>2, <1>3, CapacityAssumption
  <2> HIDE DEF m, n
  <2>2. ((m % Capacity) - (n % Capacity)) % Capacity = m - n
    BY <2>1, ModDifference
  <2> QED BY <2>2 DEF At, Occupancy, m, n
<1> QED BY <1>1, <1>2, <1>4

-----------------------------------------------------------------------------
(* Type correctness. *)

\* Appending to a sequence of a type keeps it one.
LEMMA AppendFacts ==
  ASSUME NEW S, NEW s \in Seq(S), NEW e \in S
  PROVE  /\ Append(s, e) \in Seq(S)
         /\ Append(s, e) # << >>
         /\ Len(Append(s, e)) = Len(s) + 1
         /\ \A k \in 1 .. Len(s) : Append(s, e)[k] = s[k]
         /\ Append(s, e)[Len(s) + 1] = e
OBVIOUS

\* The current value of an index is a slot, and so is its successor.
LEMMA IndexFacts ==
  ASSUME TypeOK
  PROVE  /\ 0 \in Slots
         /\ Latest(tailMO) \in Slots /\ Succ(Latest(tailMO)) \in Slots
         /\ Latest(headMO) \in Slots /\ Succ(Latest(headMO)) \in Slots
<1>1. Capacity \in Nat \ {0} /\ 0 \in Slots BY CapacityAssumption DEF Slots
<1>2. Latest(tailMO) \in Slots /\ Latest(headMO) \in Slots BY DEF TypeOK, Latest
<1>3. ASSUME NEW i \in Slots PROVE Succ(i) \in Slots
  <2>1. i + 1 \in Int BY CapacityAssumption DEF Slots
  <2> QED BY <1>1, <2>1, ModRange DEF Succ, Slots
<1> QED BY <1>1, <1>2, <1>3

\* No step takes a variable out of its type.
LEMMA TypeStep ==
  ASSUME TypeOK, [Next]_vars
  PROVE  TypeOK'
<1>0. /\ Latest(tailMO) \in Slots /\ Succ(Latest(tailMO)) \in Slots
      /\ Latest(headMO) \in Slots /\ Succ(Latest(headMO)) \in Slots
  BY IndexFacts
<1>1. ASSUME NEW v \in Values, NEW version \in 1 .. Len(headMO), PushLoad(v, version)
      PROVE  TypeOK'
  BY <1>1 DEF TypeOK, PushLoad, Readable, AcquireView, consumerVars
<1>2. CASE PushCopy
  BY <1>0, <1>2 DEF TypeOK, PushCopy, consumerVars
<1>3. CASE PushCopied
  BY <1>0, <1>3 DEF TypeOK, PushCopied, consumerVars
<1>4. CASE PushStore
  <2>1. tailMO' \in Seq(Slots) /\ tailMO' # << >> /\ Len(tailMO') = Len(tailMO) + 1
    BY <1>0, <1>4, AppendFacts DEF TypeOK, PushStore
  <2>2. sent' \in Seq(Values) BY <1>4 DEF TypeOK, PushStore
  <2> QED BY <1>4, <2>1, <2>2 DEF TypeOK, PushStore, consumerVars
<1>5. ASSUME NEW version \in 1 .. Len(tailMO), PopLoad(version)
      PROVE  TypeOK'
  BY <1>5 DEF TypeOK, PopLoad, Readable, AcquireView, producerVars
<1>6. CASE PopCopy
  BY <1>0, <1>6 DEF TypeOK, PopCopy, producerVars
<1>7. CASE PopStore
  <2>1. headMO' \in Seq(Slots) /\ headMO' # << >> /\ Len(headMO') = Len(headMO) + 1
    BY <1>0, <1>7, AppendFacts DEF TypeOK, PopStore, NextHead
  <2>2. received' \in Seq(Values \cup {Torn}) BY <1>7 DEF TypeOK, PopStore
  <2> QED BY <1>7, <2>1, <2>2 DEF TypeOK, PopStore, producerVars
<1>8. CASE UNCHANGED vars
  BY <1>8 DEF TypeOK, vars, producerVars, consumerVars
<1> QED
  BY <1>1, <1>2, <1>3, <1>4, <1>5, <1>6, <1>7, <1>8 DEF Next, Producer, Consumer

\* Every variable keeps its type: the views stay inside the modification
\* orders and the indices inside the ring.
THEOREM TypeCorrect == Spec => []TypeOK
<1>1. Init => TypeOK
  <2>1. 0 \in Slots BY CapacityAssumption DEF Slots
  <2> QED BY <2>1 DEF Init, TypeOK
<1>2. TypeOK /\ [Next]_vars => TypeOK' BY TypeStep
<1> QED BY <1>1, <1>2, PTL DEF Spec

-----------------------------------------------------------------------------
(* The inductive invariant, one lemma per action.  TypeOK' is TypeStep's.   *)

LEMMA InitIInv == Init => IInv
<1> SUFFICES ASSUME Init PROVE IInv
  OBVIOUS
<1>1. TypeOK
  <2>1. 0 \in Slots BY CapacityAssumption DEF Slots
  <2> QED BY <2>1 DEF Init, TypeOK
<1>2. Positions BY AtFacts DEF Init, Positions
<1>3. Views BY CapacityAssumption DEF Init, Views
<1>4. Contents BY DEF Init, Contents
<1>5. Fifo /\ JustifiedRefusal BY DEF Init, Fifo, JustifiedRefusal
<1> QED BY <1>1, <1>2, <1>3, <1>4, <1>5 DEF IInv

\* The producer's test: it goes on exactly when fewer than Capacity - 1
\* elements lie beyond the pops it knows of, however stale its view is.
LEMMA FullTest ==
  ASSUME IInv, NEW version \in headView .. Len(headMO)
  PROVE  Full(Latest(tailMO), headMO[version]) <=> Len(sent) - (version - 1) = Capacity - 1
<1> DEFINE m == Len(sent)
           h == version - 1
<1>1. /\ m \in Nat /\ h \in Nat /\ Capacity \in Nat
      /\ h <= m /\ m - h <= Capacity - 1
  BY OccupancyIsCount, CapacityAssumption DEF IInv, TypeOK, Positions, Views
<1>2. Latest(tailMO) = At(m) /\ headMO[version] = At(h)
  BY OccupancyIsCount DEF IInv, TypeOK, Positions
<1>3. Succ(At(m)) = At(m + 1) BY <1>1, AtFacts
<1>4. m - h = Capacity - 1 => At(m + 1) = At(h)
  <2>1. m - h = Capacity - 1 => m + 1 = h + Capacity BY <1>1
  <2> QED BY <1>1, <2>1, AtFacts
<1>5. At(m + 1) = At(h) => m - h = Capacity - 1
  <2>1. m + 1 \in Nat /\ m + 1 # h /\ h - (m + 1) < Capacity BY <1>1
  <2>2. m - h # Capacity - 1 => m + 1 - h < Capacity BY <1>1
  <2> HIDE DEF m, h
  <2> QED BY <1>1, <2>1, <2>2, AtFacts
<1> QED BY <1>2, <1>3, <1>4, <1>5 DEF Full

\* The consumer's test: it goes on exactly when it knows of a push it has not
\* popped.
LEMMA EmptyTest ==
  ASSUME IInv, NEW version \in tailView .. Len(tailMO)
  PROVE  Empty(tailMO[version], Latest(headMO)) <=> Len(received) = version - 1
<1> DEFINE n == Len(received)
           t == version - 1
<1>1. /\ n \in Nat /\ t \in Nat /\ Capacity \in Nat
      /\ n <= t /\ t - n <= Capacity - 1
  BY OccupancyIsCount, CapacityAssumption DEF IInv, TypeOK, Positions, Views
<1>2. Latest(headMO) = At(n) /\ tailMO[version] = At(t)
  BY OccupancyIsCount DEF IInv, TypeOK, Positions
<1>3. At(n) = At(t) => n = t
  <2>1. n - t < Capacity /\ t - n < Capacity BY <1>1
  <2> HIDE DEF n, t
  <2> QED BY <1>1, <2>1, AtFacts
<1> QED BY <1>2, <1>3 DEF Empty

LEMMA PushLoadStep ==
  ASSUME IInv, NEW v \in Values, NEW version \in 1 .. Len(headMO), PushLoad(v, version)
  PROVE  IInv'
<1>0. TypeOK' BY TypeStep DEF IInv, Next, Producer
<1>1. version \in headView .. Len(headMO) /\ headView' = version /\ ppc = "idle"
  BY DEF PushLoad, Readable, AcquireView
<1>2. UNCHANGED <<buf, tailMO, sent, headMO, tailView, cpc, out, popResult, received>>
  BY DEF PushLoad, consumerVars
<1>3. Full(Latest(tailMO), headMO[version]) <=> Len(sent) - (version - 1) = Capacity - 1
  BY <1>1, FullTest
<1>4. Positions' BY <1>2 DEF IInv, Positions
<1>5. Views'
  <2>0. /\ headView \in Nat /\ version \in Nat /\ headView <= version
        /\ Len(sent) \in Nat /\ Capacity \in Nat
    BY <1>1, CapacityAssumption DEF IInv, TypeOK
  <2>1. Len(sent) - (version - 1) <= Capacity - 1
    <3>1. Len(sent) - (headView - 1) <= Capacity - 1 BY DEF IInv, Views
    <3> QED BY <2>0, <3>1
  <2>2. ppc' # "idle" => Len(sent) - (version - 1) # Capacity - 1
    BY <1>1, <1>3 DEF PushLoad
  <2>3. ppc' # "idle" => Len(sent) - (version - 1) < Capacity - 1
    BY <2>0, <2>1, <2>2
  <2> QED BY <1>1, <1>2, <2>1, <2>3 DEF IInv, Views
<1>6. Contents'
  <2>1. ppc' # "publish" BY <1>1 DEF PushLoad
  <2> QED BY <1>2, <2>1 DEF IInv, Contents
<1>7. Fifo' BY <1>2 DEF IInv, Fifo
<1>8. JustifiedRefusal'
  <2>1. pushResult' = "full" /\ ppc' = "idle" => Len(sent) - (version - 1) = Capacity - 1
    BY <1>1, <1>3 DEF PushLoad
  <2> QED BY <1>1, <1>2, <2>1 DEF IInv, JustifiedRefusal
<1> QED BY <1>0, <1>4, <1>5, <1>6, <1>7, <1>8 DEF IInv

\* The slot being written is none of those that hold an element.
LEMMA WriteElsewhere ==
  ASSUME IInv, ppc # "idle"
  PROVE  /\ At(Len(sent)) \in Slots
         /\ \A k \in Nat : Len(received) <= k /\ k < Len(sent) =>
              At(k) \in Slots /\ At(k) # At(Len(sent))
<1> DEFINE m == Len(sent)
           n == Len(received)
<1>1. m \in Nat /\ n \in Nat /\ m - n < Capacity /\ Capacity \in Nat
  BY CapacityAssumption, OccupancyIsCount DEF IInv, TypeOK, Positions, Views
<1>2. ASSUME NEW k \in Nat, n <= k, k < m PROVE At(k) \in Slots /\ At(k) # At(m)
  <2>1. m - k < Capacity /\ k - m < Capacity /\ k # m BY <1>1, <1>2
  <2> HIDE DEF m, n
  <2> QED BY <1>1, <2>1, AtFacts
<1> QED BY <1>1, <1>2, AtFacts

LEMMA PushCopyStep ==
  ASSUME IInv, PushCopy
  PROVE  IInv'
<1>0. TypeOK' BY TypeStep DEF IInv, Next, Producer
<1>1. UNCHANGED <<tailMO, headView, pushing, pushResult, sent,
                  headMO, tailView, cpc, out, popResult, received>>
  BY DEF PushCopy, consumerVars
<1>2. ppc = "write" /\ ppc' = "copying" BY DEF PushCopy
<1>3. Positions' /\ Views' /\ Fifo' /\ JustifiedRefusal'
  BY <1>1, <1>2 DEF IInv, Positions, Views, Fifo, JustifiedRefusal
<1>4. Contents'
  <2>1. Latest(tailMO) = At(Len(sent)) BY OccupancyIsCount DEF IInv
  <2>2. \A k \in Nat : Len(received) <= k /\ k < Len(sent) => buf'[At(k)] = buf[At(k)]
    BY <1>2, <2>1, WriteElsewhere DEF PushCopy, IInv, TypeOK
  <2> QED BY <1>1, <1>2, <2>2 DEF IInv, Contents
<1> QED BY <1>0, <1>3, <1>4 DEF IInv

LEMMA PushCopiedStep ==
  ASSUME IInv, PushCopied
  PROVE  IInv'
<1>0. TypeOK' BY TypeStep DEF IInv, Next, Producer
<1>1. UNCHANGED <<tailMO, headView, pushing, pushResult, sent,
                  headMO, tailView, cpc, out, popResult, received>>
  BY DEF PushCopied, consumerVars
<1>2. ppc = "copying" /\ ppc' = "publish" BY DEF PushCopied
<1>3. Positions' /\ Views' /\ Fifo' /\ JustifiedRefusal'
  BY <1>1, <1>2 DEF IInv, Positions, Views, Fifo, JustifiedRefusal
<1>4. Contents'
  <2>1. Latest(tailMO) = At(Len(sent)) BY OccupancyIsCount DEF IInv
  <2>2. \A k \in Nat : Len(received) <= k /\ k < Len(sent) => buf'[At(k)] = buf[At(k)]
    BY <1>2, <2>1, WriteElsewhere DEF PushCopied, IInv, TypeOK
  <2>3. buf'[At(Len(sent))] = pushing
    BY <1>2, <2>1, WriteElsewhere DEF PushCopied, IInv, TypeOK
  <2> QED BY <1>1, <1>2, <2>2, <2>3 DEF IInv, Contents
<1> QED BY <1>0, <1>3, <1>4 DEF IInv

LEMMA PushStoreStep ==
  ASSUME IInv, PushStore
  PROVE  IInv'
<1>0. TypeOK' BY TypeStep DEF IInv, Next, Producer
<1> DEFINE m == Len(sent)
<1>1. UNCHANGED <<buf, headView, pushing, headMO, tailView, cpc, out, popResult, received>>
  BY DEF PushStore, consumerVars
<1>2. /\ ppc = "publish" /\ ppc' = "idle" /\ pushResult' = "ok"
      /\ m \in Nat /\ Len(sent') = m + 1 /\ sent'[m + 1] = pushing
      /\ \A k \in 1 .. m : sent'[k] = sent[k]
  BY DEF PushStore, IInv, TypeOK
<1>3. Succ(Latest(tailMO)) = At(m + 1)
  BY <1>2, AtFacts, OccupancyIsCount DEF IInv
<1>4. Positions'
  <2>1. /\ Len(tailMO') = Len(tailMO) + 1 /\ tailMO'[Len(tailMO) + 1] = At(m + 1)
        /\ \A k \in 1 .. Len(tailMO) : tailMO'[k] = tailMO[k]
    BY <1>3, AppendFacts, IndexFacts DEF IInv, TypeOK, PushStore
  <2>2. Len(tailMO') = Len(sent') + 1 BY <1>2, <2>1 DEF IInv, Positions
  <2>3. ASSUME NEW k \in 1 .. Len(tailMO') PROVE tailMO'[k] = At(k - 1)
    <3>1. Len(tailMO) = m + 1 BY DEF IInv, Positions
    <3>2. CASE k = m + 2 BY <1>2, <2>1, <3>1, <3>2
    <3>3. CASE k # m + 2
      <4>1. k \in 1 .. Len(tailMO) BY <1>2, <2>1, <3>1, <3>3
      <4> QED BY <2>1, <4>1 DEF IInv, Positions
    <3> QED BY <3>2, <3>3
  <2> QED BY <1>1, <2>2, <2>3 DEF IInv, Positions
<1>5. Views'
  BY <1>1, <1>2, CapacityAssumption DEF IInv, TypeOK, Views
<1>6. Contents'
  <2>1. ASSUME NEW k \in Nat, Len(received) <= k, k < m + 1 PROVE buf[At(k)] = sent'[k + 1]
    BY <1>2, <2>1 DEF IInv, Contents
  <2>2. cpc = "release" => out = sent'[Len(received) + 1]
    <3>1. cpc = "release" => Len(received) + 1 \in 1 .. m
      BY <1>2 DEF IInv, TypeOK, Positions, Views
    <3> QED BY <1>2, <3>1 DEF IInv, Contents
  <2> QED BY <1>1, <1>2, <2>1, <2>2 DEF Contents
<1>7. Fifo' BY <1>1, <1>2 DEF IInv, TypeOK, Fifo
<1>8. JustifiedRefusal' BY <1>1, <1>2 DEF IInv, JustifiedRefusal
<1> QED BY <1>0, <1>4, <1>5, <1>6, <1>7, <1>8 DEF IInv

LEMMA PopLoadStep ==
  ASSUME IInv, NEW version \in 1 .. Len(tailMO), PopLoad(version)
  PROVE  IInv'
<1>0. TypeOK' BY TypeStep DEF IInv, Next, Consumer
<1>1. version \in tailView .. Len(tailMO) /\ tailView' = version /\ cpc = "idle"
  BY DEF PopLoad, Readable, AcquireView
<1>2. UNCHANGED <<buf, headMO, out, received, tailMO, headView, ppc, pushing, pushResult, sent>>
  BY DEF PopLoad, producerVars
<1>3. Empty(tailMO[version], Latest(headMO)) <=> Len(received) = version - 1
  BY <1>1, EmptyTest
<1>4. Positions' BY <1>2 DEF IInv, Positions
<1>5. Views'
  <2>1. Len(received) <= version - 1
    <3>1. /\ tailView \in Nat /\ version \in Nat /\ tailView <= version
          /\ Len(received) \in Nat
      BY <1>1 DEF IInv, TypeOK
    <3>2. Len(received) <= tailView - 1 BY DEF IInv, Views
    <3> QED BY <3>1, <3>2
  <2>2. cpc' # "idle" => Len(received) # version - 1
    BY <1>1, <1>3 DEF PopLoad
  <2>3. cpc' # "idle" => Len(received) < version - 1
    BY <2>1, <2>2, <1>1 DEF IInv, TypeOK
  <2> QED BY <1>1, <1>2, <2>1, <2>3 DEF IInv, Views
<1>6. Contents'
  <2>1. cpc' # "release" BY <1>1 DEF PopLoad
  <2> QED BY <1>2, <2>1 DEF IInv, Contents
<1>7. Fifo' BY <1>2 DEF IInv, Fifo
<1>8. JustifiedRefusal'
  <2>1. popResult' = "empty" /\ cpc' = "idle" => Len(received) = version - 1
    BY <1>1, <1>3 DEF PopLoad
  <2> QED BY <1>1, <1>2, <2>1 DEF IInv, JustifiedRefusal
<1> QED BY <1>0, <1>4, <1>5, <1>6, <1>7, <1>8 DEF IInv

LEMMA PopCopyStep ==
  ASSUME IInv, PopCopy
  PROVE  IInv'
<1>0. TypeOK' BY TypeStep DEF IInv, Next, Consumer
<1>1. UNCHANGED <<buf, headMO, tailView, popResult, received,
                  tailMO, headView, ppc, pushing, pushResult, sent>>
  BY DEF PopCopy, producerVars
<1>2. cpc = "read" /\ cpc' = "release" BY DEF PopCopy
<1>3. Positions' /\ Views' /\ Fifo' /\ JustifiedRefusal'
  BY <1>1, <1>2 DEF IInv, Positions, Views, Fifo, JustifiedRefusal
<1>4. Contents'
  <2>1. out' = buf[At(Len(received))] BY OccupancyIsCount DEF IInv, PopCopy
  <2>2. Len(received) \in Nat /\ Len(received) < Len(sent)
    BY <1>2 DEF IInv, TypeOK, Positions, Views
  <2>3. out' = sent[Len(received) + 1] BY <2>1, <2>2 DEF IInv, Contents
  <2> QED BY <1>1, <2>3 DEF IInv, Contents
<1> QED BY <1>0, <1>3, <1>4 DEF IInv

LEMMA PopStoreStep ==
  ASSUME IInv, PopStore
  PROVE  IInv'
<1>0. TypeOK' BY TypeStep DEF IInv, Next, Consumer
<1> DEFINE n == Len(received)
<1>1. UNCHANGED <<buf, tailView, out, tailMO, headView, ppc, pushing, pushResult, sent>>
  BY DEF PopStore, producerVars
<1>2. /\ cpc = "release" /\ cpc' = "idle" /\ popResult' = "ok"
      /\ n \in Nat /\ Len(received') = n + 1 /\ received'[n + 1] = out
      /\ \A k \in 1 .. n : received'[k] = received[k]
  BY DEF PopStore, IInv, TypeOK
<1>3. Succ(Latest(headMO)) = At(n + 1)
  BY <1>2, AtFacts, OccupancyIsCount DEF IInv
<1>4. Positions'
  <2>1. /\ Len(headMO') = Len(headMO) + 1 /\ headMO'[Len(headMO) + 1] = At(n + 1)
        /\ \A k \in 1 .. Len(headMO) : headMO'[k] = headMO[k]
    BY <1>3, AppendFacts, IndexFacts DEF IInv, TypeOK, PopStore, NextHead
  <2>2. Len(headMO') = Len(received') + 1 BY <1>2, <2>1 DEF IInv, Positions
  <2>3. ASSUME NEW k \in 1 .. Len(headMO') PROVE headMO'[k] = At(k - 1)
    <3>1. Len(headMO) = n + 1 BY DEF IInv, Positions
    <3>2. CASE k = n + 2 BY <1>2, <2>1, <3>1, <3>2
    <3>3. CASE k # n + 2
      <4>1. k \in 1 .. Len(headMO) BY <1>2, <2>1, <3>1, <3>3
      <4> QED BY <2>1, <4>1 DEF IInv, Positions
    <3> QED BY <3>2, <3>3
  <2> QED BY <1>1, <2>2, <2>3 DEF IInv, Positions
<1>5. Views'
  BY <1>1, <1>2 DEF IInv, TypeOK, Views
<1>6. n < Len(sent)
  BY <1>2 DEF IInv, TypeOK, Positions, Views
<1>7. Contents' BY <1>1, <1>2 DEF IInv, Contents
<1>8. Fifo'
  <2>1. received'[n + 1] = sent[n + 1] BY <1>2 DEF IInv, Contents
  <2>2. ASSUME NEW k \in 1 .. n + 1 PROVE received'[k] = sent[k]
    BY <1>2, <2>1 DEF IInv, Fifo
  <2> QED BY <1>1, <1>2, <1>6, <2>2 DEF IInv, TypeOK, Fifo
<1>9. JustifiedRefusal' BY <1>1, <1>2 DEF IInv, JustifiedRefusal
<1> QED BY <1>0, <1>4, <1>5, <1>7, <1>8, <1>9 DEF IInv

\* The invariant is inductive, so it holds in every reachable state.
THEOREM InductiveInvariant == Spec => []IInv
<1>1. Init => IInv BY InitIInv
<1>2. IInv /\ [Next]_vars => IInv'
  <2> SUFFICES ASSUME IInv, [Next]_vars PROVE IInv'
    OBVIOUS
  <2>1. CASE Producer
    BY <2>1, PushLoadStep, PushCopyStep, PushCopiedStep, PushStoreStep DEF Producer
  <2>2. CASE Consumer
    BY <2>2, PopLoadStep, PopCopyStep, PopStoreStep DEF Consumer
  <2>3. CASE UNCHANGED vars
    <3>1. UNCHANGED <<buf, tailMO, headView, ppc, pushing, pushResult, sent,
                      headMO, tailView, cpc, out, popResult, received>>
      BY <2>3 DEF vars, producerVars, consumerVars
    <3> QED BY <3>1 DEF IInv, TypeOK, Positions, Views, Contents, Fifo, JustifiedRefusal
  <2> QED BY <2>1, <2>2, <2>3 DEF Next
<1> QED BY <1>1, <1>2, PTL DEF Spec

-----------------------------------------------------------------------------
(* What the invariant gives. *)

\* No write of a slot races with the read before it, and no read with the
\* write before it, in the happens-before order of the C++ memory model.
THEOREM RaceFreedom == Spec => []HappensBefore
<1>1. IInv => HappensBefore
  <2> SUFFICES ASSUME IInv PROVE HappensBefore
    OBVIOUS
  <2>1. /\ Len(sent) \in Nat /\ Len(received) \in Nat /\ Capacity \in Nat
        /\ headView \in Nat /\ tailView \in Nat
    BY CapacityAssumption DEF IInv, TypeOK
  <2> QED BY <2>1 DEF IInv, Views, HappensBefore
<1> QED BY <1>1, InductiveInvariant, PTL

\* The two threads never work on the same slot at the same time.
THEOREM SlotExclusion == Spec => []NoSlotShared
<1>1. IInv => NoSlotShared
  <2> SUFFICES ASSUME IInv, ppc \in {"write", "copying"}, cpc = "read"
               PROVE  Latest(tailMO) # Latest(headMO)
    BY DEF NoSlotShared
  <2>1. Len(received) \in Nat /\ Len(received) < Len(sent)
    BY DEF IInv, TypeOK, Positions, Views
  <2>2. At(Len(received)) # At(Len(sent)) BY <2>1, WriteElsewhere
  <2> QED BY <2>2, OccupancyIsCount DEF IInv
<1> QED BY <1>1, InductiveInvariant, PTL

\* Elements come out as they went in, in order, none lost and none torn.
THEOREM FirstInFirstOut == Spec => []Fifo
<1>1. IInv => Fifo BY DEF IInv
<1> QED BY <1>1, InductiveInvariant, PTL

\* try_push refuses and try_pop comes back empty only when they have to.
THEOREM RefusalsAreJustified == Spec => []JustifiedRefusal
<1>1. IInv => JustifiedRefusal BY DEF IInv
<1> QED BY <1>1, InductiveInvariant, PTL

-----------------------------------------------------------------------------
(* The ring implements the queue. *)

\* What the slots hold, oldest first, is what has been pushed and not popped.
HeldIsUnreceived ==
  /\ HeldQueue \in Seq(Values)
  /\ Len(HeldQueue) = Len(sent) - Len(received)
  /\ \A i \in 1 .. Len(sent) - Len(received) :
       HeldQueue[i] = sent[Len(received) + i]

LEMMA HeldQueueIs == IInv => HeldIsUnreceived
<1> SUFFICES ASSUME IInv PROVE HeldIsUnreceived
  OBVIOUS
<1> DEFINE m == Len(sent)
           n == Len(received)
<1>1. /\ Latest(headMO) = At(n)
      /\ Occupancy(Latest(tailMO), Latest(headMO)) = m - n
      /\ m - n \in Nat /\ m \in Nat /\ n \in Nat
  BY OccupancyIsCount DEF IInv, TypeOK
<1>2. HeldQueue = [i \in 1 .. m - n |-> buf[(At(n) + i - 1) % Capacity]]
  BY <1>1 DEF HeldQueue
<1>3. ASSUME NEW i \in 1 .. m - n
      PROVE  buf[(At(n) + i - 1) % Capacity] = sent[n + i] /\ sent[n + i] \in Values
  <2>1. (At(n) + i - 1) % Capacity = At(n + i - 1)
    <3>1. Capacity \in Nat \ {0} /\ n \in Int /\ i - 1 \in Int
      BY <1>1, CapacityAssumption
    <3>2. (n + (i - 1)) % Capacity = ((n % Capacity) + (i - 1)) % Capacity
      BY <3>1, ModSum
    <3>3. n % Capacity \in Int BY <3>1, ModRange
    <3>4. n + (i - 1) = n + i - 1 /\ (n % Capacity) + (i - 1) = (n % Capacity) + i - 1
      BY <3>1, <3>3
    <3> QED BY <3>2, <3>4 DEF At
  <2>2. n + i - 1 \in Nat /\ n <= n + i - 1 /\ n + i - 1 < m /\ n + i \in 1 .. m
    BY <1>1
  <2>3. buf[At(n + i - 1)] = sent[(n + i - 1) + 1] BY <2>2 DEF IInv, Contents
  <2>4. (n + i - 1) + 1 = n + i BY <1>1
  <2> QED BY <2>1, <2>2, <2>3, <2>4 DEF IInv, TypeOK
<1> QED BY <1>1, <1>2, <1>3 DEF HeldIsUnreceived

\* Sequences of the same length with the same elements are equal.
LEMMA SequenceEquality ==
  ASSUME NEW S, NEW s \in Seq(S), NEW t \in Seq(S), Len(s) = Len(t),
         \A i \in 1 .. Len(s) : s[i] = t[i]
  PROVE  s = t
OBVIOUS

\* A step that neither publishes an element nor takes one out leaves the
\* queue alone.
LEMMA HeldQueueStutters ==
  ASSUME IInv, IInv', HeldIsUnreceived', UNCHANGED <<sent, received>>
  PROVE  UNCHANGED <<HeldQueue, received>>
<1>1. /\ HeldQueue \in Seq(Values) /\ HeldQueue' \in Seq(Values)
      /\ Len(HeldQueue) = Len(HeldQueue')
      /\ \A i \in 1 .. Len(HeldQueue) : HeldQueue[i] = HeldQueue'[i]
  BY HeldQueueIs DEF HeldIsUnreceived
<1>2. HeldQueue = HeldQueue' BY <1>1, SequenceEquality
<1> QED BY <1>2

LEMMA PushStoreIsPut ==
  ASSUME IInv, HeldIsUnreceived', PushStore
  PROVE  Queue!Put(pushing)
<1> DEFINE q == HeldQueue
           d == Len(sent) - Len(received)
<1>1. /\ q \in Seq(Values) /\ Len(q) = d /\ pushing \in Values
      /\ \A i \in 1 .. d : q[i] = sent[Len(received) + i]
  BY HeldQueueIs DEF HeldIsUnreceived, IInv, TypeOK
<1>2. /\ received' = received /\ Len(sent') = Len(sent) + 1
      /\ sent'[Len(sent) + 1] = pushing
      /\ \A k \in 1 .. Len(sent) : sent'[k] = sent[k]
      /\ Len(sent) \in Nat /\ Len(received) \in Nat /\ d \in Nat
      /\ ppc = "publish"
  BY OccupancyIsCount DEF PushStore, consumerVars, IInv, TypeOK
<1>3. /\ HeldQueue' \in Seq(Values) /\ Len(HeldQueue') = d + 1
      /\ \A i \in 1 .. d + 1 : HeldQueue'[i] = sent'[Len(received) + i]
  BY <1>2 DEF HeldIsUnreceived
<1>4. d # Capacity - 1
  BY <1>2, CapacityAssumption DEF IInv, TypeOK, Positions, Views
<1>5. HeldQueue' = Append(q, pushing)
  <2>1. ASSUME NEW i \in 1 .. d + 1 PROVE HeldQueue'[i] = Append(q, pushing)[i]
    <3>1. CASE i = d + 1
      <4>1. Len(received) + i = Len(sent) + 1 BY <1>2, <3>1
      <4>2. HeldQueue'[i] = pushing BY <1>2, <1>3, <4>1
      <4>3. Append(q, pushing)[Len(q) + 1] = pushing BY <1>1, AppendFacts
      <4> QED BY <1>1, <3>1, <4>2, <4>3
    <3>2. CASE i # d + 1
      <4>1. i \in 1 .. d /\ Len(received) + i \in 1 .. Len(sent) BY <1>2, <3>2
      <4>2. HeldQueue'[i] = q[i] BY <1>1, <1>2, <1>3, <4>1
      <4> QED BY <1>1, <4>1, <4>2, AppendFacts
    <3> QED BY <3>1, <3>2
  <2>2. Append(q, pushing) \in Seq(Values) /\ Len(Append(q, pushing)) = d + 1
    BY <1>1, AppendFacts
  <2> HIDE DEF q
  <2> QED BY <1>3, <2>1, <2>2, SequenceEquality
<1> QED BY <1>1, <1>2, <1>4, <1>5 DEF Queue!Put, Queue!IsFull

LEMMA PopStoreIsTake ==
  ASSUME IInv, HeldIsUnreceived', PopStore
  PROVE  Queue!Take
<1> DEFINE q == HeldQueue
           d == Len(sent) - Len(received)
<1>1. /\ q \in Seq(Values) /\ Len(q) = d
      /\ \A i \in 1 .. d : q[i] = sent[Len(received) + i]
  BY HeldQueueIs DEF HeldIsUnreceived
<1>2. /\ sent' = sent /\ received' = Append(received, out)
      /\ Len(received') = Len(received) + 1
      /\ Len(sent) \in Nat /\ Len(received) \in Nat /\ d \in Nat
      /\ cpc = "release"
  BY OccupancyIsCount DEF PopStore, producerVars, IInv, TypeOK
<1>3. d >= 1 BY <1>2 DEF IInv, TypeOK, Positions, Views
<1>4. q # << >> /\ Head(q) = out
  <2>1. q # << >> /\ Head(q) = q[1] BY <1>1, <1>3
  <2>2. q[1] = sent[Len(received) + 1] BY <1>1, <1>2, <1>3
  <2>3. out = sent[Len(received) + 1] BY <1>2 DEF IInv, Contents
  <2> QED BY <2>1, <2>2, <2>3
<1>5. /\ HeldQueue' \in Seq(Values) /\ Len(HeldQueue') = d - 1
      /\ \A i \in 1 .. d - 1 : HeldQueue'[i] = sent[Len(received) + 1 + i]
  BY <1>2 DEF HeldIsUnreceived
<1>6. HeldQueue' = Tail(q)
  <2>1. /\ Tail(q) \in Seq(Values) /\ Len(Tail(q)) = d - 1
        /\ \A i \in 1 .. d - 1 : Tail(q)[i] = q[i + 1]
    BY <1>1, <1>3, <1>4
  <2>2. ASSUME NEW i \in 1 .. d - 1 PROVE HeldQueue'[i] = Tail(q)[i]
    <3>1. i + 1 \in 1 .. d /\ Len(received) + (i + 1) = Len(received) + 1 + i
      BY <1>2
    <3> QED BY <1>1, <1>5, <2>1, <3>1
  <2> HIDE DEF q
  <2> QED BY <1>5, <2>1, <2>2, SequenceEquality
<1> QED BY <1>2, <1>4, <1>6 DEF Queue!Take, Queue!Rest

\* Every behaviour of the ring is one of the first-in first-out queue of
\* Capacity - 1 elements.
THEOREM RingImplementsQueue == Spec => ImplementsQueue
<1>1. Init => Queue!Init
  <2> SUFFICES ASSUME Init PROVE Queue!Init
    OBVIOUS
  <2>1. IInv BY InitIInv
  <2>2. /\ sent = << >> /\ received = << >> BY DEF Init
  <2>3. HeldQueue \in Seq(Values) /\ Len(HeldQueue) = 0
    BY <2>1, <2>2, HeldQueueIs DEF HeldIsUnreceived
  <2> QED BY <2>2, <2>3 DEF Queue!Init
<1>2. IInv /\ IInv' /\ HeldIsUnreceived' /\ [Next]_vars => [Queue!Next]_(Queue!vars)
  <2> SUFFICES ASSUME IInv, IInv', HeldIsUnreceived', [Next]_vars
               PROVE  [Queue!Next]_(Queue!vars)
    OBVIOUS
  <2>1. CASE PushStore
    BY <2>1, PushStoreIsPut DEF Queue!Next, IInv, TypeOK
  <2>2. CASE PopStore
    BY <2>2, PopStoreIsTake DEF Queue!Next
  <2>3. CASE ~PushStore /\ ~PopStore
    <3>1. UNCHANGED <<sent, received>>
      BY <2>3 DEF Next, Producer, Consumer, PushLoad, PushCopy, PushCopied, PopLoad,
                  PopCopy, vars, producerVars, consumerVars
    <3> QED BY <3>1, HeldQueueStutters DEF Queue!vars
  <2> QED BY <2>1, <2>2, <2>3
<1>3. [](IInv => HeldIsUnreceived) BY HeldQueueIs, PTL
<1> QED BY <1>1, <1>2, <1>3, InductiveInvariant, PTL DEF Spec, ImplementsQueue, Queue!Spec
=============================================================================
