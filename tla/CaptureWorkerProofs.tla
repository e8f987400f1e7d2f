------------------------- MODULE CaptureWorkerProofs -------------------------
(***************************************************************************)
(* First, of the live events alone: they reach every viewer newest last    *)
(* and without a gap, for any number of viewers, any queue size and any    *)
(* number of callbacks under way; and no more viewers watch than there are *)
(* places.  Then, of the two threads: what the tracker's functions return, *)
(* that everything keeps its kind, that a visitor nothing goes wrong for   *)
(* has one row, and that nobody waits for a row longer than it takes, for  *)
(* any number of visitors and of places.                                   *)
(***************************************************************************)
EXTENDS CaptureWorker, FiniteSetTheorems, WellFoundedInduction, TLAPS

Callback == [to : Viewer, lag : Nat]

Connection == [at : {"away", "accept", "open"}, queue : Seq(Nat), sent : Nat]

Called(w, i) == Cardinality(Coming(w, i))

(* A viewer who is not subscribed has nothing, and nothing under way from  *)
(* an earlier connection.  The callbacks and the queue of one who is are   *)
(* few enough for their events to be told apart, and follow each other     *)
(* without a gap.                                                          *)
Uninformed(w) ==
    /\ viewer[w].queue = <<>> /\ viewer[w].sent = 0
    /\ viewer[w].at = "accept" => Called(w, 0) = 0

Informed(w) ==
    LET queue == viewer[w].queue IN
    /\ Len(queue) <= QueueSize /\ Called(w, 0) <= MaxReady
    /\ \A i \in DOMAIN queue : queue[i] = Len(queue) - i + Called(w, 0)
    /\ \A i \in DOMAIN ready : ready[i].to = w => ready[i].lag = Called(w, i)
    /\ queue = <<>> /\ Called(w, 0) = 0 => viewer[w].sent = 0

Fed(w) == viewer[w] \in Connection /\ IF w \in Subscribed THEN Informed(w) ELSE Uninformed(w)

(* Places are taken before they are counted on, and a failed handshake     *)
(* keeps one.                                                              *)
Present == {w \in Viewer : viewer[w].at # "away"}

Seated ==
    /\ IsFiniteSet(Present) /\ slots \in Nat
    /\ Cardinality(Present) <= slots /\ slots <= MaxViewers

LiveInv ==
    /\ ready \in Seq(Callback) /\ DOMAIN viewer = Viewer
    /\ \A w \in Viewer : Fed(w)
    /\ Seated

(***************************************************************************)
(* Counting callbacks.                                                     *)
(***************************************************************************)
LEMMA UpToIsFinite ==
    ASSUME NEW n \in Nat
    PROVE  IsFiniteSet(1 .. n) /\ Cardinality(1 .. n) = n
  BY FS_Interval

\* A permutation of a finite set names each of its elements once.
LEMMA PermutationNamesOnce ==
    ASSUME NEW S, IsFiniteSet(S), NEW order \in SetToSeqs(S)
    PROVE  /\ Cardinality(S) \in Nat
           /\ order \in [1 .. Cardinality(S) -> S]
           /\ \A s \in S : \E i \in 1 .. Cardinality(S) :
                order[i] = s /\ \A j \in 1 .. Cardinality(S) : order[j] = s => j = i
<1> DEFINE D == 1 .. Cardinality(S)
<1>1. Cardinality(S) \in Nat /\ IsFiniteSet(D) /\ Cardinality(D) = Cardinality(S)
  BY FS_CardinalityType, UpToIsFinite
<1>2. order \in Injection(D, S) /\ order \in [D -> S]
  BY DEF SetToSeqs, Injection, IsInjective
<1>3. order \in Surjection(D, S)
  BY <1>1, <1>2, FS_Injection
<1>4. QED
  BY <1>1, <1>2, <1>3 DEF Surjection, Injection, IsInjective

\* Numbers counted from the one after the first are as many.
LEMMA ShiftCounts ==
    ASSUME NEW S \in SUBSET Nat, IsFiniteSet(S), NEW T, T = {j \in Nat : j + 1 \in S},
           0 \notin S
    PROVE  IsFiniteSet(T) /\ Cardinality(T) = Cardinality(S)
<1> DEFINE f == [s \in S |-> s - 1]
<1>1. f \in [S -> T]
  OBVIOUS
<1>2. \A s, u \in S : f[s] = f[u] => s = u
  OBVIOUS
<1>3. \A j \in T : \E s \in S : f[s] = j
  <2> SUFFICES ASSUME NEW j \in T PROVE j + 1 \in S /\ f[j + 1] = j
    OBVIOUS
  <2>1. QED
    OBVIOUS
<1> HIDE DEF f
<1>4. f \in Bijection(S, T)
  BY <1>1, <1>2, <1>3 DEF Bijection, Injection, Surjection, IsInjective
<1>5. ExistsBijection(S, T)
  BY <1>4 DEF ExistsBijection
<1>6. QED
  BY <1>5, FS_Bijection

\* The positions behind i of the callbacks for a viewer.
For(r, w, i) == {j \in DOMAIN r : j > i /\ r[j].to = w}

LEMMA ForFinite ==
    ASSUME NEW r \in Seq(Callback), NEW w, NEW i \in Nat
    PROVE  IsFiniteSet(For(r, w, i)) /\ Cardinality(For(r, w, i)) \in 0 .. Len(r)
<1>1. Len(r) \in Nat /\ For(r, w, i) \subseteq 1 .. Len(r)
  BY DEF For
<1>2. IsFiniteSet(1 .. Len(r)) /\ Cardinality(1 .. Len(r)) = Len(r)
  BY <1>1, UpToIsFinite
<1>3. IsFiniteSet(For(r, w, i)) /\ Cardinality(For(r, w, i)) <= Len(r)
  BY <1>1, <1>2, FS_Subset
<1>4. QED
  BY <1>1, <1>3, FS_CardinalityType

\* What stands further back is no more.
LEMMA ForLess ==
    ASSUME NEW r \in Seq(Callback), NEW w, NEW i \in Nat
    PROVE  Cardinality(For(r, w, i)) <= Cardinality(For(r, w, 0))
<1>1. DOMAIN r = 1 .. Len(r) /\ Len(r) \in Nat
  OBVIOUS
<1>2. For(r, w, i) \subseteq For(r, w, 0)
  BY <1>1 DEF For
<1>3. IsFiniteSet(For(r, w, 0))
  BY ForFinite
<1>4. QED
  BY <1>2, <1>3, FS_Subset

\* The loop runs the first callback.
LEMMA ForTail ==
    ASSUME NEW r \in Seq(Callback), r # <<>>, NEW w
    PROVE  /\ \A i \in Nat : Cardinality(For(Tail(r), w, i)) = Cardinality(For(r, w, i + 1))
           /\ Cardinality(For(r, w, 0)) =
                Cardinality(For(r, w, 1)) + (IF r[1].to = w THEN 1 ELSE 0)
<1>1. Len(r) \in Nat \ {0} /\ DOMAIN r = 1 .. Len(r) /\ DOMAIN Tail(r) = 1 .. Len(r) - 1
  OBVIOUS
<1>2. \A j \in 1 .. Len(r) - 1 : Tail(r)[j] = r[j + 1]
  OBVIOUS
<1>3. ASSUME NEW i \in Nat PROVE Cardinality(For(Tail(r), w, i)) = Cardinality(For(r, w, i + 1))
  <2> DEFINE S == For(r, w, i + 1)
  <2>1. S \in SUBSET Nat /\ 0 \notin S
    BY <1>1 DEF For
  <2>2. IsFiniteSet(S)
    BY ForFinite
  <2>3. For(Tail(r), w, i) = {j \in Nat : j + 1 \in S}
    BY <1>1, <1>2 DEF For
  <2> HIDE DEF S
  <2>4. Cardinality(For(Tail(r), w, i)) = Cardinality(S)
    BY <2>1, <2>2, <2>3, ShiftCounts
  <2>5. QED
    BY <2>4 DEF S
<1>4. CASE r[1].to = w
  <2>1. For(r, w, 0) = For(r, w, 1) \cup {1} /\ 1 \notin For(r, w, 1)
    BY <1>1, <1>4 DEF For
  <2>2. IsFiniteSet(For(r, w, 1))
    BY ForFinite
  <2>3. Cardinality(For(r, w, 0)) = Cardinality(For(r, w, 1)) + 1
    BY <2>1, <2>2, FS_AddElement
  <2>4. QED
    BY <1>3, <1>4, <2>3
<1>5. CASE r[1].to # w
  <2>1. For(r, w, 0) = For(r, w, 1)
    BY <1>1, <1>5 DEF For
  <2>2. Cardinality(For(r, w, 1)) \in Nat
    BY ForFinite
  <2>3. QED
    BY <1>3, <1>5, <2>1, <2>2
<1>6. QED
  BY <1>4, <1>5

\* The head of a queue, and the rest of it.
LEMMA TailOfQueue ==
    ASSUME NEW q \in Seq(Nat), q # <<>>
    PROVE  /\ Len(q) \in Nat \ {0} /\ DOMAIN q = 1 .. Len(q)
           /\ Head(q) = q[1] /\ q[1] \in Nat
           /\ Tail(q) \in Seq(Nat) /\ Len(Tail(q)) = Len(q) - 1
           /\ DOMAIN Tail(q) = 1 .. Len(q) - 1
           /\ \A i \in 1 .. Len(q) - 1 : Tail(q)[i] = q[i + 1]
<1>1. Len(q) \in Nat \ {0} /\ DOMAIN q = 1 .. Len(q)
  OBVIOUS
<1>2. Head(q) = q[1] /\ q[1] \in Nat
  BY <1>1
<1>3. Tail(q) \in Seq(Nat) /\ Len(Tail(q)) = Len(q) - 1
  BY <1>1
<1>4. DOMAIN Tail(q) = 1 .. Len(q) - 1 /\ \A i \in 1 .. Len(q) - 1 : Tail(q)[i] = q[i + 1]
  BY <1>1
<1>5. QED
  BY <1>1, <1>2, <1>3, <1>4

(***************************************************************************)
(* What each step of the live events keeps.                                *)
(***************************************************************************)
\* A viewer a step does not touch.
LEMMA BystanderKeeps ==
    ASSUME LiveInv, NEW u \in Viewer, viewer'[u] = viewer[u], ready' = ready
    PROVE  Fed(u)'
<1>1. \A i : Called(u, i)' = Called(u, i)
  BY DEF Called, Coming
<1>2. (u \in Subscribed)' <=> u \in Subscribed
  BY DEF Subscribed
<1>3. Informed(u) => Informed(u)'
  BY <1>1 DEF Informed
<1>4. Uninformed(u) => Uninformed(u)'
  BY <1>1 DEF Uninformed
<1>5. QED
  BY <1>2, <1>3, <1>4 DEF LiveInv, Fed, Connection

\* A viewer not subscribed after a step of the socket has nothing.
LEMMA OutsiderKeeps ==
    ASSUME LiveInv, NEW w \in Viewer, ready' = ready, viewer'[w] \in Connection,
           viewer'[w].at # "open", viewer'[w].queue = <<>>, viewer'[w].sent = 0,
           viewer'[w].at = "accept" => Coming(w, 0) = {}
    PROVE  Fed(w)'
<1>1. w \notin Subscribed'
  BY DEF Subscribed
<1>2. viewer'[w].at = "accept" => Called(w, 0)' = 0
  BY FS_EmptySet DEF Called, Coming
<1>3. QED
  BY <1>1, <1>2 DEF Fed, Uninformed, Connection

LEMMA ConnectKeeps ==
    ASSUME LiveInv, NEW w \in Viewer, Connect(w)
    PROVE  LiveInv'
<1>1. /\ viewer' = [viewer EXCEPT ![w].at = "accept"]
      /\ ready' = ready /\ slots' = slots + 1 /\ slots < MaxViewers
      /\ viewer[w].at = "away" /\ \A i \in DOMAIN ready : ready[i].to # w
  BY DEF Connect
<1>2. w \notin Subscribed /\ viewer[w] \in Connection /\ viewer[w].queue = <<>> /\ viewer[w].sent = 0
  BY <1>1 DEF LiveInv, Fed, Subscribed, Uninformed
<1>3. DOMAIN viewer' = Viewer /\ viewer'[w] = [viewer[w] EXCEPT !.at = "accept"]
      /\ \A u \in Viewer \ {w} : viewer'[u] = viewer[u]
  BY <1>1 DEF LiveInv
<1>4. viewer'[w] \in Connection /\ viewer'[w].at = "accept"
      /\ viewer'[w].queue = <<>> /\ viewer'[w].sent = 0
  BY <1>2, <1>3 DEF Connection
<1>5. Coming(w, 0) = {}
  BY <1>1 DEF Coming
<1>6. \A u \in Viewer : Fed(u)'
  BY <1>1, <1>3, <1>4, <1>5, BystanderKeeps, OutsiderKeeps
<1>7. Seated'
  <2>1. Present' = Present \cup {w} /\ w \notin Present
    BY <1>1, <1>3, <1>4 DEF Present
  <2>2. IsFiniteSet(Present') /\ Cardinality(Present') = Cardinality(Present) + 1
    BY <2>1, FS_AddElement DEF LiveInv, Seated
  <2>3. Cardinality(Present) \in Nat
    BY FS_CardinalityType DEF LiveInv, Seated
  <2>4. QED
    BY <1>1, <2>2, <2>3, LiveAssumption DEF LiveInv, Seated
<1>8. QED
  BY <1>1, <1>3, <1>6, <1>7 DEF LiveInv

LEMMA SubscribeKeeps ==
    ASSUME LiveInv, NEW w \in Viewer, Subscribe(w)
    PROVE  LiveInv'
<1>1. /\ viewer' = [viewer EXCEPT ![w].at = "open"]
      /\ ready' = ready /\ slots' = slots /\ viewer[w].at = "accept"
  BY DEF Subscribe
<1>2. /\ viewer[w] \in Connection /\ viewer[w].queue = <<>> /\ viewer[w].sent = 0
      /\ Called(w, 0) = 0
  BY <1>1 DEF LiveInv, Fed, Subscribed, Uninformed
<1>3. DOMAIN viewer' = Viewer /\ viewer'[w] = [viewer[w] EXCEPT !.at = "open"]
      /\ \A u \in Viewer \ {w} : viewer'[u] = viewer[u]
  BY <1>1 DEF LiveInv
<1>4. viewer'[w] \in Connection /\ viewer'[w].at = "open"
      /\ viewer'[w].queue = <<>> /\ viewer'[w].sent = 0
  BY <1>2, <1>3 DEF Connection
<1>5. Coming(w, 0) = {}
  <2>1. Coming(w, 0) = For(ready, w, 0)
    BY DEF Coming, For
  <2>2. QED
    BY <1>2, <2>1, ForFinite, FS_EmptySet DEF LiveInv, Called
<1>6. Fed(w)'
  <2>1. Called(w, 0)' = 0
    BY <1>1, <1>2 DEF Called, Coming
  <2>2. \A i \in DOMAIN ready : ready[i].to # w
    <3>1. \A i \in DOMAIN ready : i > 0
      BY DEF LiveInv
    <3>2. QED
      BY <1>5, <3>1 DEF Coming
  <2>3. Informed(w)'
    BY <1>1, <1>4, <2>1, <2>2, LiveAssumption DEF Informed
  <2>4. QED
    BY <1>4, <2>3 DEF Fed, Subscribed, Connection
<1>7. \A u \in Viewer : Fed(u)'
  BY <1>1, <1>3, <1>6, BystanderKeeps
<1>8. Seated'
  <2>1. Present' = Present
    BY <1>1, <1>3, <1>4 DEF Present
  <2>2. QED
    BY <1>1, <2>1 DEF LiveInv, Seated
<1>9. QED
  BY <1>1, <1>3, <1>7, <1>8 DEF LiveInv

\* A viewer who goes, or whose handshake fails, leaves nothing behind.
LEMMA LeaverKeeps ==
    ASSUME LiveInv, NEW w \in Viewer, AcceptFails(w) \/ Disconnect(w)
    PROVE  LiveInv'
<1>1. /\ viewer' = [viewer EXCEPT ![w] = Away] /\ ready' = ready
      /\ viewer[w].at \in {"accept", "open"}
      /\ slots' = slots \/ slots' = slots - 1
  BY DEF AcceptFails, Disconnect, Subscribed
<1>2. DOMAIN viewer' = Viewer /\ viewer'[w] = Away
      /\ \A u \in Viewer \ {w} : viewer'[u] = viewer[u]
  BY <1>1 DEF LiveInv
<1>3. viewer'[w] \in Connection /\ viewer'[w].at = "away"
      /\ viewer'[w].queue = <<>> /\ viewer'[w].sent = 0
  BY <1>2 DEF Away, Connection
<1>4. \A u \in Viewer : Fed(u)'
  BY <1>1, <1>2, <1>3, BystanderKeeps, OutsiderKeeps
<1>5. Seated'
  <2>1. w \in Present /\ Present' = Present \ {w}
    BY <1>1, <1>2, <1>3 DEF Present
  <2>2. IsFiniteSet(Present') /\ Cardinality(Present') = Cardinality(Present) - 1
    BY <2>1, FS_RemoveElement DEF LiveInv, Seated
  <2>3. Cardinality(Present) \in Nat /\ Cardinality(Present') \in Nat
    BY <2>2, FS_CardinalityType DEF LiveInv, Seated
  <2>4. Cardinality(Present') <= slots' /\ slots' <= MaxViewers /\ slots' \in Nat
    BY <1>1, <2>2, <2>3, LiveAssumption DEF LiveInv, Seated
  <2>5. QED
    BY <2>2, <2>4 DEF Seated
<1>6. QED
  BY <1>1, <1>2, <1>4, <1>5 DEF LiveInv

LEMMA SendKeeps ==
    ASSUME LiveInv, NEW w \in Viewer, SendToViewer(w)
    PROVE  LiveInv'
<1> DEFINE q == viewer[w].queue
           n == Called(w, 0)
<1>1. /\ viewer' = [viewer EXCEPT ![w].queue = Tail(@), ![w].sent = Head(q)]
      /\ ready' = ready /\ slots' = slots /\ w \in Subscribed /\ q # <<>>
  BY DEF SendToViewer
<1>2. viewer[w] \in Connection /\ Informed(w) /\ viewer[w].at = "open"
  BY <1>1 DEF LiveInv, Fed, Subscribed
<1>3. q \in Seq(Nat) /\ n \in Nat
  <2>1. Coming(w, 0) = For(ready, w, 0)
    BY DEF Coming, For
  <2>2. QED
    BY <1>2, <2>1, ForFinite DEF LiveInv, Connection, Called
<1>4. /\ Len(q) \in Nat \ {0} /\ DOMAIN q = 1 .. Len(q) /\ Head(q) = q[1] /\ q[1] \in Nat
      /\ Tail(q) \in Seq(Nat) /\ Len(Tail(q)) = Len(q) - 1
      /\ DOMAIN Tail(q) = 1 .. Len(q) - 1
      /\ \A i \in 1 .. Len(q) - 1 : Tail(q)[i] = q[i + 1]
  BY <1>1, <1>3, TailOfQueue
<1>5. Len(q) <= QueueSize /\ n <= MaxReady /\ \A i \in DOMAIN q : q[i] = Len(q) - i + n
  BY <1>2 DEF Informed
<1>6. DOMAIN viewer' = Viewer
      /\ viewer'[w] = [viewer[w] EXCEPT !.queue = Tail(q), !.sent = Head(q)]
      /\ \A u \in Viewer \ {w} : viewer'[u] = viewer[u]
  BY <1>1 DEF LiveInv
<1>7. viewer'[w] \in Connection /\ viewer'[w].at = "open"
      /\ viewer'[w].queue = Tail(q) /\ viewer'[w].sent = Head(q)
  BY <1>2, <1>4, <1>6 DEF Connection
<1>8. Fed(w)'
  <2>1. n' = n /\ \A i : Called(w, i)' = Called(w, i)
    BY <1>1 DEF Called, Coming
  <2> HIDE DEF q, n
  <2>2. ASSUME NEW i \in 1 .. Len(q) - 1 PROVE Tail(q)[i] = Len(q) - 1 - i + n
    <3>1. i \in Nat /\ i + 1 \in DOMAIN q /\ Tail(q)[i] = q[i + 1]
      BY <1>4
    <3>2. q[i + 1] = Len(q) - (i + 1) + n
      BY <1>5, <3>1
    <3>3. QED
      BY <1>3, <1>4, <3>1, <3>2
  <2>3. Tail(q) = <<>> /\ n = 0 => Head(q) = 0
    <3>1. Tail(q) = <<>> => Len(q) - 1 = 0
      BY <1>4
    <3>2. QED
      BY <1>4, <1>5, <3>1
  <2>4. \A i \in DOMAIN ready : ready[i].to = w => ready[i].lag = Called(w, i)
    BY <1>2 DEF Informed
  <2>5. Len(Tail(q)) <= QueueSize
    BY <1>4, <1>5, LiveAssumption
  <2>6. Informed(w)'
    BY <1>1, <1>4, <1>5, <1>7, <2>1, <2>2, <2>3, <2>4, <2>5 DEF Informed, n
  <2>7. QED
    BY <1>7, <2>6 DEF Fed, Subscribed, Connection
<1>9. \A u \in Viewer : Fed(u)'
  BY <1>1, <1>6, <1>8, BystanderKeeps
<1>10. Seated'
  <2>1. Present' = Present
    BY <1>1, <1>2, <1>6, <1>7 DEF Present
  <2>2. QED
    BY <1>1, <2>1 DEF LiveInv, Seated
<1>11. QED
  BY <1>1, <1>6, <1>9, <1>10 DEF LiveInv

LEMMA DeliverKeeps ==
    ASSUME LiveInv, DeliverOrDrop, NEW w, w = Head(ready).to
    PROVE  LiveInv'
<1> DEFINE q == viewer[w].queue
           n == Called(w, 1)
           room == IF Len(q) = QueueSize THEN Tail(q) ELSE q
<1>1. /\ ready # <<>> /\ ready' = Tail(ready) /\ slots' = slots
      /\ viewer' = IF w \in Subscribed
                   THEN [viewer EXCEPT ![w].queue = Append(
                            IF Len(@) = QueueSize THEN Tail(@) ELSE @, Head(ready).lag)]
                   ELSE viewer
  BY DEF DeliverOrDrop
<1>2. /\ ready \in Seq(Callback) /\ Len(ready) \in Nat \ {0}
      /\ DOMAIN ready = 1 .. Len(ready) /\ DOMAIN Tail(ready) = 1 .. Len(ready) - 1
      /\ \A j \in 1 .. Len(ready) - 1 : Tail(ready)[j] = ready[j + 1]
      /\ Head(ready) = ready[1] /\ Tail(ready) \in Seq(Callback)
  <2>1. ready \in Seq(Callback) /\ ready # <<>>
    BY <1>1 DEF LiveInv
  <2>2. Len(ready) \in Nat \ {0} /\ DOMAIN ready = 1 .. Len(ready)
    BY <2>1
  <2>3. Head(ready) = ready[1] /\ Tail(ready) \in Seq(Callback) /\ Len(Tail(ready)) = Len(ready) - 1
    BY <2>1, <2>2
  <2>4. DOMAIN Tail(ready) = 1 .. Len(ready) - 1
    BY <2>2, <2>3
  <2>5. \A j \in 1 .. Len(ready) - 1 : Tail(ready)[j] = ready[j + 1]
    BY <2>1, <2>2
  <2>6. QED
    BY <2>1, <2>2, <2>3, <2>4, <2>5
<1>3. ready[1] \in Callback /\ w \in Viewer /\ w = ready[1].to
  <2>1. 1 \in DOMAIN ready /\ w = ready[1].to
    BY <1>2
  <2>2. ready[1] \in Callback
    BY <1>2, <2>1
  <2>3. QED
    BY <2>1, <2>2 DEF Callback
<1>4. \A u : /\ Called(u, 0) = Called(u, 1) + (IF w = u THEN 1 ELSE 0)
             /\ Called(u, 0)' = Called(u, 1)
             /\ \A i \in Nat : Called(u, i) \in Nat /\ Called(u, i)' = Called(u, i + 1)
  <2>1. \A u, i : Coming(u, i) = For(ready, u, i) /\ Coming(u, i)' = For(Tail(ready), u, i)
    BY <1>1 DEF Coming, For
  <2>2. \A u : \A i \in Nat : Called(u, i)' = Called(u, i + 1)
    BY <1>1, <1>2, <2>1, ForTail DEF Called
  <2>3. \A u : \A i \in Nat : Called(u, i) \in Nat
    BY <1>2, <2>1, ForFinite DEF Called
  <2>4. \A u : Called(u, 0) = Called(u, 1) + (IF w = u THEN 1 ELSE 0)
    BY <1>1, <1>2, <2>1, ForTail DEF Called
  <2>5. \A u : Called(u, 0)' = Called(u, 1)
    BY <2>2
  <2>6. QED
    BY <2>2, <2>3, <2>4, <2>5
\* The lags of a viewer's callbacks stay what is called behind them.
<1>5. ASSUME NEW u \in Subscribed
      PROVE  \A i \in DOMAIN ready' : ready'[i].to = u => ready'[i].lag = Called(u, i)'
  <2> SUFFICES ASSUME NEW i \in 1 .. Len(ready) - 1, ready[i + 1].to = u
               PROVE  ready[i + 1].lag = Called(u, i + 1)
    BY <1>1, <1>2, <1>4
  <2>1. Informed(u) /\ i + 1 \in DOMAIN ready
    BY <1>2 DEF LiveInv, Fed, Subscribed
  <2>2. QED
    BY <2>1 DEF Informed
<1>6. ASSUME NEW u \in Viewer, viewer'[u] = viewer[u], u # w \/ u \notin Subscribed
      PROVE  Fed(u)'
  <2>1. (u \in Subscribed)' <=> u \in Subscribed
    BY <1>6 DEF Subscribed
  <2>2. CASE u \in Subscribed
    <3>1. Called(u, 0)' = Called(u, 0) /\ Called(u, 0) \in Nat /\ Informed(u)
      BY <1>4, <1>6, <2>2 DEF LiveInv, Fed
    <3>2. Informed(u)'
      BY <1>5, <1>6, <2>2, <3>1 DEF Informed
    <3>3. QED
      BY <1>6, <2>1, <2>2, <3>2 DEF LiveInv, Fed, Connection
  <2>3. CASE u \notin Subscribed
    <3>1. Uninformed(u)
      BY <2>3 DEF LiveInv, Fed
    <3>2. viewer[u].at = "accept" => Called(u, 0)' = 0
      BY <1>4, <3>1 DEF Uninformed
    <3>3. Uninformed(u)'
      BY <1>6, <3>1, <3>2 DEF Uninformed
    <3>4. QED
      BY <1>6, <2>1, <2>3, <3>3 DEF LiveInv, Fed, Connection
  <2>4. QED
    BY <2>2, <2>3
<1>7. CASE w \notin Subscribed
  <2>1. viewer' = viewer
    BY <1>1, <1>7
  <2>2. \A u \in Viewer : Fed(u)'
    BY <1>6, <1>7, <2>1
  <2>3. QED
    BY <1>1, <1>2, <2>1, <2>2 DEF LiveInv, Seated, Present
<1>8. CASE w \in Subscribed
  <2>1. viewer[w] \in Connection /\ Informed(w) /\ viewer[w].at = "open" /\ q \in Seq(Nat)
    BY <1>3, <1>8 DEF LiveInv, Fed, Subscribed, Connection
  <2>2. /\ DOMAIN viewer' = Viewer
        /\ viewer'[w] = [viewer[w] EXCEPT !.queue = Append(room, Head(ready).lag)]
        /\ \A u \in Viewer \ {w} : viewer'[u] = viewer[u]
    BY <1>1, <1>3, <1>8 DEF LiveInv
  <2>3. Head(ready).lag = n /\ n \in Nat /\ Called(w, 0) = n + 1 /\ n + 1 <= MaxReady
    <3>1. 1 \in DOMAIN ready /\ ready[1].to = w
      BY <1>2
    <3>2. ready[1].lag = n /\ Called(w, 0) <= MaxReady
      BY <2>1, <3>1 DEF Informed
    <3>3. QED
      BY <1>2, <1>4, <3>2
  <2>4. Len(q) \in Nat /\ Len(q) <= QueueSize /\ DOMAIN q = 1 .. Len(q)
        /\ \A i \in 1 .. Len(q) : q[i] = Len(q) - i + n + 1
    <3>1. Len(q) \in Nat /\ DOMAIN q = 1 .. Len(q) /\ Len(q) <= QueueSize
      BY <2>1 DEF Informed
    <3>2. \A i \in DOMAIN q : q[i] = Len(q) - i + (n + 1)
      BY <2>1, <2>3 DEF Informed
    <3> HIDE DEF q, n
    <3>3. QED
      BY <2>3, <3>1, <3>2
  <2> HIDE DEF q, n
  <2>5. room \in Seq(Nat) /\ Len(room) \in Nat /\ Len(room) + 1 <= QueueSize
        /\ \A i \in 1 .. Len(room) : room[i] = Len(room) + 1 - i + n
    <3>1. CASE Len(q) = QueueSize
      <4>1. q # <<>>
        BY <2>4, <3>1, LiveAssumption
      <4>2. room = Tail(q) /\ Tail(q) \in Seq(Nat) /\ Len(Tail(q)) = Len(q) - 1
            /\ \A i \in 1 .. Len(q) - 1 : Tail(q)[i] = q[i + 1]
        BY <2>1, <3>1, <4>1, TailOfQueue
      <4>3. ASSUME NEW i \in 1 .. Len(q) - 1 PROVE Tail(q)[i] = Len(q) - i + n
        <5>1. i \in Nat /\ i + 1 \in 1 .. Len(q)
          BY <2>4
        <5>2. Tail(q)[i] = q[i + 1]
          BY <4>2
        <5>3. q[i + 1] = Len(q) - (i + 1) + n + 1
          BY <2>4, <5>1
        <5>4. QED
          BY <2>3, <2>4, <5>1, <5>2, <5>3
      <4>4. QED
        BY <2>3, <2>4, <3>1, <4>2, <4>3, LiveAssumption
    <3>2. CASE Len(q) # QueueSize
      <4>1. room = q
        BY <3>2
      <4>2. ASSUME NEW i \in 1 .. Len(q) PROVE q[i] = Len(q) + 1 - i + n
        BY <2>3, <2>4
      <4>3. Len(q) \in Nat /\ QueueSize \in Nat /\ Len(q) <= QueueSize
        BY <2>4, LiveAssumption
      <4> HIDE DEF room
      <4>4. Len(q) + 1 <= QueueSize
        BY <3>2, <4>3
      <4>5. QED
        BY <2>1, <2>4, <4>1, <4>2, <4>4
    <3>3. QED
      BY <3>1, <3>2
  <2> DEFINE fed == Append(room, n)
  <2> HIDE DEF room
  <2>6. fed \in Seq(Nat) /\ Len(fed) = Len(room) + 1 /\ DOMAIN fed = 1 .. Len(room) + 1
        /\ fed # <<>> /\ fed[Len(room) + 1] = n /\ \A i \in 1 .. Len(room) : fed[i] = room[i]
    BY <2>3, <2>5
  <2> HIDE DEF fed
  <2>7. ASSUME NEW i \in DOMAIN fed PROVE fed[i] = Len(fed) - i + n
    <3>1. CASE i = Len(room) + 1
      BY <2>3, <2>5, <2>6, <3>1
    <3>2. CASE i # Len(room) + 1
      <4>1. i \in 1 .. Len(room)
        BY <2>5, <2>6, <3>2
      <4>2. QED
        BY <2>5, <2>6, <4>1
    <3>3. QED
      BY <3>1, <3>2
  <2>8. viewer'[w].queue = fed /\ viewer'[w] \in Connection /\ viewer'[w].at = "open"
    BY <2>1, <2>2, <2>3, <2>6 DEF Connection, fed
  <2>9. Called(w, 0)' = n
    BY <1>4 DEF n
  <2>10. Informed(w)'
    <3>1. \A i \in DOMAIN ready' : ready'[i].to = w => ready'[i].lag = Called(w, i)'
      BY <1>5, <1>8
    <3>2. Len(fed) <= QueueSize /\ n <= MaxReady
      BY <2>3, <2>5, <2>6, LiveAssumption
    <3>3. QED
      BY <2>6, <2>7, <2>8, <2>9, <3>1, <3>2 DEF Informed
  <2>11. Fed(w)'
    BY <1>3, <2>8, <2>10 DEF Fed, Subscribed, Connection
  <2>12. \A u \in Viewer : Fed(u)'
    BY <1>6, <2>2, <2>11
  <2>13. Present' = Present
    BY <1>3, <2>1, <2>2, <2>8 DEF Present
  <2>14. QED
    BY <1>1, <1>2, <2>2, <2>12, <2>13 DEF LiveInv, Seated
<1>9. QED
  BY <1>7, <1>8

\* What publishing makes of a sequence of callbacks.
Told(r, order) ==
    [i \in DOMAIN r |-> [r[i] EXCEPT !.lag = Older(@)]]
        \o [i \in DOMAIN order |-> [to |-> order[i], lag |-> 0]]

LEMMA ToldShape ==
    ASSUME NEW r \in Seq(Callback), NEW n \in Nat, NEW order \in [1 .. n -> Viewer]
    PROVE  /\ Told(r, order) \in Seq(Callback)
           /\ DOMAIN Told(r, order) = 1 .. Len(r) + n
           /\ \A i \in 1 .. Len(r) :
                 Told(r, order)[i].to = r[i].to /\ Told(r, order)[i].lag = Older(r[i].lag)
           /\ \A i \in 1 .. n :
                 /\ Told(r, order)[Len(r) + i].to = order[i]
                 /\ Told(r, order)[Len(r) + i].lag = 0
<1> DEFINE a == [i \in DOMAIN r |-> [r[i] EXCEPT !.lag = Older(@)]]
           b == [i \in DOMAIN order |-> [to |-> order[i], lag |-> 0]]
<1>1. Len(r) \in Nat /\ DOMAIN r = 1 .. Len(r) /\ DOMAIN order = 1 .. n
  OBVIOUS
<1>2. \A i \in 1 .. Len(r) : r[i] \in Callback
  OBVIOUS
<1>3. \A lag \in Nat : Older(lag) \in Nat
  BY LiveAssumption DEF Older
<1>4. \A i \in 1 .. Len(r) : /\ a[i] = [r[i] EXCEPT !.lag = Older(r[i].lag)]
                             /\ a[i] \in Callback /\ a[i].to = r[i].to
                             /\ a[i].lag = Older(r[i].lag)
  BY <1>1, <1>2, <1>3 DEF Callback
<1>5. \A i \in 1 .. n : b[i] \in Callback /\ b[i].to = order[i] /\ b[i].lag = 0
  BY <1>1 DEF Callback
<1>6. DOMAIN a = 1 .. Len(r) /\ DOMAIN b = 1 .. n
  BY <1>1
<1> HIDE DEF a, b
<1>7. a \in Seq(Callback) /\ Len(a) = Len(r) /\ b \in Seq(Callback) /\ Len(b) = n
  <2>1. a \in [1 .. Len(r) -> Callback] /\ b \in [1 .. n -> Callback]
    BY <1>4, <1>5, <1>6 DEF a, b
  <2>2. QED
    BY <1>1, <1>6, <2>1
<1>8. /\ a \o b \in Seq(Callback) /\ DOMAIN (a \o b) = 1 .. Len(r) + n
      /\ \A i \in 1 .. Len(r) : (a \o b)[i] = a[i]
      /\ \A i \in 1 .. n : (a \o b)[Len(r) + i] = b[i]
  BY SMTT(30), <1>1, <1>7
<1>9. Told(r, order) = a \o b
  BY DEF Told, a, b
<1>10. ASSUME NEW i \in 1 .. Len(r)
       PROVE  Told(r, order)[i].to = r[i].to /\ Told(r, order)[i].lag = Older(r[i].lag)
  BY <1>4, <1>8, <1>9
<1>11. ASSUME NEW i \in 1 .. n
       PROVE  Told(r, order)[Len(r) + i].to = order[i] /\ Told(r, order)[Len(r) + i].lag = 0
  BY <1>5, <1>8, <1>9
<1>12. Told(r, order) \in Seq(Callback) /\ DOMAIN Told(r, order) = 1 .. Len(r) + n
  BY <1>8, <1>9
<1>13. QED
  BY <1>10, <1>11, <1>12

\* A viewer is called once more, behind everything it was called for before.
OnceMore(r, told, w, at) ==
    /\ at > Len(r) /\ at \in DOMAIN told /\ told[at].lag = 0
    /\ \A i \in DOMAIN told : i > Len(r) /\ told[i].to = w => i = at
    /\ \A i \in 0 .. Len(r) : Cardinality(For(told, w, i)) = Cardinality(For(r, w, i)) + 1
    /\ Cardinality(For(told, w, at)) = 0

LEMMA ToldCounts ==
    ASSUME NEW r \in Seq(Callback), NEW S \in SUBSET Viewer, IsFiniteSet(S),
           NEW order \in SetToSeqs(S), NEW w
    PROVE  /\ w \in S => \E at \in Nat : OnceMore(r, Told(r, order), w, at)
           /\ w \notin S => For(Told(r, order), w, 0) = For(r, w, 0)
<1> DEFINE n == Cardinality(S)
           told == Told(r, order)
<1>1. /\ n \in Nat /\ order \in [1 .. n -> S] /\ order \in [1 .. n -> Viewer]
      /\ \A s \in S : \E i \in 1 .. n : order[i] = s /\ \A j \in 1 .. n : order[j] = s => j = i
  BY PermutationNamesOnce
<1> HIDE DEF n
<1>2. /\ told \in Seq(Callback) /\ DOMAIN told = 1 .. Len(r) + n
      /\ \A i \in 1 .. Len(r) : told[i].to = r[i].to
      /\ \A i \in 1 .. n : told[Len(r) + i].to = order[i] /\ told[Len(r) + i].lag = 0
  <2>1. n \in Nat /\ order \in [1 .. n -> Viewer]
    BY <1>1
  <2> HIDE DEF told
  <2>2. /\ Told(r, order) \in Seq(Callback)
        /\ DOMAIN Told(r, order) = 1 .. Len(r) + n
        /\ \A i \in 1 .. Len(r) : Told(r, order)[i].to = r[i].to
        /\ \A i \in 1 .. n :
              Told(r, order)[Len(r) + i].to = order[i] /\ Told(r, order)[Len(r) + i].lag = 0
    BY <2>1, ToldShape
  <2>3. QED
    BY <2>2 DEF told
<1>3. Len(r) \in Nat /\ DOMAIN r = 1 .. Len(r)
  OBVIOUS
<1> HIDE DEF told
<1>4. \A i \in DOMAIN told : i > Len(r) =>
         i - Len(r) \in 1 .. n /\ told[i].to = order[i - Len(r)] /\ told[i].lag = 0
  <2> SUFFICES ASSUME NEW i \in 1 .. Len(r) + n, i > Len(r)
               PROVE  i - Len(r) \in 1 .. n /\ told[i].to = order[i - Len(r)] /\ told[i].lag = 0
    BY <1>2
  <2>1. i - Len(r) \in 1 .. n /\ Len(r) + (i - Len(r)) = i
    BY <1>1, <1>3
  <2>2. QED
    BY <1>2, <2>1
<1>5. ASSUME w \in S
      PROVE  \E at \in Nat : OnceMore(r, told, w, at)
  <2>1. PICK k \in 1 .. n : order[k] = w /\ \A j \in 1 .. n : order[j] = w => j = k
    BY <1>1, <1>5
  <2>2. PICK at \in Nat : at = Len(r) + k
    BY <1>1, <1>3
  <2>3. at > Len(r) /\ at \in DOMAIN told /\ told[at].lag = 0 /\ told[at].to = w
    <3>1. at > Len(r) /\ at \in 1 .. Len(r) + n
      BY <1>1, <1>3, <2>1, <2>2
    <3>2. told[Len(r) + k].lag = 0 /\ told[Len(r) + k].to = w
      BY <1>2, <2>1
    <3>3. QED
      BY <1>2, <2>2, <3>1, <3>2
  <2>4. \A i \in DOMAIN told : i > Len(r) /\ told[i].to = w => i = at
    <3> SUFFICES ASSUME NEW i \in DOMAIN told, i > Len(r), told[i].to = w PROVE i = at
      OBVIOUS
    <3>1. i - Len(r) = k
      BY <1>4, <2>1
    <3>2. QED
      BY <1>2, <1>3, <2>2, <3>1
  <2>5. ASSUME NEW i \in 0 .. Len(r)
        PROVE  Cardinality(For(told, w, i)) = Cardinality(For(r, w, i)) + 1
    <3>1. For(told, w, i) = For(r, w, i) \cup {at}
      <4>1. ASSUME NEW j PROVE j \in For(told, w, i) <=> j \in For(r, w, i) \/ j = at
        <5>1. CASE j \in 1 .. Len(r)
          <6>1. j \in DOMAIN told /\ j \in DOMAIN r /\ told[j].to = r[j].to /\ j # at
            BY <1>1, <1>2, <1>3, <2>3, <5>1
          <6>2. QED
            BY <6>1 DEF For
        <5>2. CASE j \notin 1 .. Len(r)
          <6>1. j \in DOMAIN told => j > Len(r)
            BY <1>1, <1>2, <1>3, <5>2
          <6>2. QED
            BY <1>2, <1>3, <2>3, <2>4, <5>2, <6>1 DEF For
        <5>3. QED
          BY <5>1, <5>2
      <4>2. QED
        BY <4>1
    <3>2. at \notin For(r, w, i)
      BY <1>3, <2>3 DEF For
    <3>3. IsFiniteSet(For(r, w, i))
      BY ForFinite
    <3>4. QED
      BY <3>1, <3>2, <3>3, FS_AddElement
  <2>6. For(told, w, at) = {}
    BY <1>2, <1>3, <2>3, <2>4 DEF For
  <2>7. QED
    BY <2>3, <2>4, <2>5, <2>6, FS_EmptySet DEF OnceMore
<1>6. ASSUME w \notin S
      PROVE  For(told, w, 0) = For(r, w, 0)
  <2>1. ASSUME NEW j PROVE j \in For(told, w, 0) <=> j \in For(r, w, 0)
    <3>1. CASE j \in 1 .. Len(r)
      BY <1>1, <1>2, <1>3, <3>1 DEF For
    <3>2. CASE j \notin 1 .. Len(r)
      <4>1. j \in DOMAIN told => j > Len(r)
        BY <1>1, <1>2, <1>3, <3>2
      <4>2. j \in DOMAIN told => told[j].to \in S
        BY <1>1, <1>4, <4>1
      <4>3. QED
        BY <1>3, <1>6, <3>2, <4>2 DEF For
    <3>3. QED
      BY <3>1, <3>2
  <2>2. QED
    BY <2>1
<1>7. QED
  BY <1>5, <1>6 DEF told

\* Numbers small enough are told apart.
LEMMA OlderAdds ==
    ASSUME NEW n \in Nat, n <= QueueSize + MaxReady
    PROVE  Older(n) = n + 1
  BY LiveAssumption DEF Older

LEMMA PublishKeeps ==
    ASSUME LiveInv, PublishEvent
    PROVE  LiveInv'
<1>1. PICK order \in SetToSeqs(Subscribed) : ready' = Told(ready, order)
  BY DEF PublishEvent, Told
<1>2. /\ ready \in Seq(Callback) /\ Len(ready) \in Nat /\ DOMAIN ready = 1 .. Len(ready)
      /\ Len(ready) < MaxReady /\ slots' = slots
      /\ viewer' = [w \in Viewer |->
             IF w \in Subscribed
             THEN [viewer[w] EXCEPT !.sent = Older(@), !.queue = [i \in DOMAIN @ |-> Older(@[i])]]
             ELSE viewer[w]]
  <2>1. ready \in Seq(Callback)
    BY DEF LiveInv
  <2>2. Len(ready) \in Nat /\ DOMAIN ready = 1 .. Len(ready)
    BY <2>1
  <2>3. QED
    BY <2>1, <2>2 DEF PublishEvent
<1>3. IsFiniteSet(Subscribed) /\ Subscribed \in SUBSET Viewer
  <2>1. Subscribed \subseteq Present /\ Subscribed \in SUBSET Viewer
    BY DEF Subscribed, Present
  <2>2. QED
    BY <2>1, FS_Subset DEF LiveInv, Seated
<1>4. PICK n \in Nat : order \in [1 .. n -> Viewer]
  BY <1>3, PermutationNamesOnce
<1>5. /\ ready' \in Seq(Callback) /\ DOMAIN ready' = 1 .. Len(ready) + n
      /\ \A i \in 1 .. Len(ready) :
            ready'[i].to = ready[i].to /\ ready'[i].lag = Older(ready[i].lag)
  BY <1>1, <1>2, <1>4, ToldShape
<1>6. \A u, i : Called(u, i) = Cardinality(For(ready, u, i))
             /\ Called(u, i)' = Cardinality(For(Told(ready, order), u, i))
  BY <1>1 DEF Called, Coming, For
<1>7. ASSUME NEW u, NEW i \in Nat
      PROVE  Called(u, i) \in Nat /\ Called(u, i) <= Called(u, 0) /\ Called(u, 0) <= Len(ready)
  <2>1. Called(u, i) \in 0 .. Len(ready) /\ Called(u, 0) \in 0 .. Len(ready)
    BY <1>2, <1>6, ForFinite
  <2>2. Called(u, i) <= Called(u, 0)
    BY <1>2, <1>6, ForLess
  <2>3. Len(ready) \in Nat
    BY <1>2
  <2>4. QED
    BY <2>1, <2>2, <2>3
<1>8. ASSUME NEW w \in Viewer, w \notin Subscribed
      PROVE  Fed(w)'
  <2>1. viewer'[w] = viewer[w] /\ viewer[w] \in Connection /\ Uninformed(w)
    BY <1>2, <1>8 DEF LiveInv, Fed
  <2>2. Called(w, 0)' = Called(w, 0)
    BY <1>1, <1>2, <1>3, <1>6, <1>8, ToldCounts
  <2>3. Uninformed(w)'
    BY <2>1, <2>2 DEF Uninformed
  <2>4. QED
    BY <1>8, <2>1, <2>3 DEF Fed, Subscribed, Connection
<1>9. ASSUME NEW w \in Subscribed
      PROVE  Fed(w)' /\ viewer'[w].at = "open"
  <2> DEFINE q == viewer[w].queue
             c == Called(w, 0)
             older == [i \in DOMAIN q |-> Older(q[i])]
  <2>1. w \in Viewer /\ viewer[w].at = "open" /\ viewer[w] \in Connection /\ Informed(w)
    BY DEF LiveInv, Fed, Subscribed
  <2>2. q \in Seq(Nat) /\ viewer[w].sent \in Nat
    BY <2>1 DEF Connection
  <2>3. viewer'[w] = [viewer[w] EXCEPT !.sent = Older(@), !.queue = older]
    BY <1>2, <2>1
  <2>4. PICK at \in Nat :
          /\ at > Len(ready) /\ at \in DOMAIN ready' /\ ready'[at].lag = 0
          /\ \A i \in DOMAIN ready' : i > Len(ready) /\ ready'[i].to = w => i = at
          /\ \A i \in 0 .. Len(ready) : Called(w, i)' = Called(w, i) + 1
          /\ Called(w, at)' = 0
    <3>1. \E at \in Nat : OnceMore(ready, Told(ready, order), w, at)
      BY <1>2, <1>3, ToldCounts
    <3>2. QED
      BY <1>1, <1>6, <3>1 DEF OnceMore
  <2>5. Called(w, 0)' = c + 1 /\ c \in Nat /\ c <= Len(ready) /\ c + 1 <= MaxReady
    <3>1. 0 \in 0 .. Len(ready) /\ c \in Nat /\ c <= Len(ready)
      <4>0. Len(ready) \in Nat
        BY <1>2
      <4>1. 0 \in Nat /\ 0 \in 0 .. Len(ready)
        BY <4>0
      <4>2. c \in Nat /\ c <= Len(ready)
        BY <1>7, <4>1, Zenon
      <4>3. QED
        BY <4>1, <4>2
    <3>2. Called(w, 0)' = c + 1
      BY <2>4, <3>1
    <3> HIDE DEF c
    <3>3. Len(ready) \in Nat /\ Len(ready) < MaxReady /\ MaxReady \in Nat
      BY <1>2, LiveAssumption
    <3>4. QED
      BY <3>1, <3>2, <3>3
  <2>6. ASSUME NEW i \in DOMAIN ready', ready'[i].to = w
        PROVE  ready'[i].lag = Called(w, i)'
    <3>1. CASE i > Len(ready)
      BY <2>4, <2>6, <3>1
    <3>2. CASE ~(i > Len(ready))
      <4>0. i \in 1 .. Len(ready) + n /\ Len(ready) \in Nat
        BY <1>2, <1>5
      <4>1. i \in 1 .. Len(ready) /\ i \in 0 .. Len(ready) /\ i \in Nat
        BY <1>4, <3>2, <4>0
      <4>2. ready[i].to = w /\ ready'[i].lag = Older(ready[i].lag)
        BY <1>5, <2>6, <4>1
      <4>3. ready[i].lag = Called(w, i)
        BY <1>2, <2>1, <4>1, <4>2 DEF Informed
      <4>4. Called(w, i) \in Nat /\ Called(w, i) <= QueueSize + MaxReady
        <5>1. Called(w, i) \in Nat /\ Called(w, i) <= Called(w, 0) /\ Called(w, 0) <= Len(ready)
          BY <1>7, <4>1
        <5>2. Called(w, 0) \in Nat /\ Len(ready) \in Nat /\ Len(ready) < MaxReady
          BY <1>2, <2>5
        <5>3. QED
          BY <5>1, <5>2, LiveAssumption
      <4>5. Called(w, i)' = Called(w, i) + 1
        BY <2>4, <4>1
      <4>6. QED
        BY <4>2, <4>3, <4>4, <4>5, OlderAdds
    <3>3. QED
      BY <3>1, <3>2
  <2>7. Len(q) \in Nat /\ DOMAIN q = 1 .. Len(q) /\ Len(q) <= QueueSize
    BY <2>1, <2>2 DEF Informed
  <2>8. \A i \in DOMAIN q : q[i] = Len(q) - i + c
    BY <2>1 DEF Informed
  <2> HIDE DEF q, c
  <2>9. ASSUME NEW i \in DOMAIN q PROVE Older(q[i]) = Len(q) - i + (c + 1)
    <3>1. q[i] = Len(q) - i + c /\ q[i] \in Nat /\ q[i] <= QueueSize + MaxReady
      BY <2>5, <2>7, <2>8, LiveAssumption
    <3>2. Older(q[i]) = q[i] + 1
      BY <3>1, OlderAdds
    <3>3. QED
      BY <2>5, <2>7, <3>1, <3>2
  <2>10. older \in Seq(Nat) /\ Len(older) = Len(q) /\ DOMAIN older = DOMAIN q
         /\ \A i \in DOMAIN q : older[i] = Len(q) - i + (c + 1)
    <3>0. \A i \in DOMAIN q : Len(q) - i + (c + 1) \in Nat
      BY <2>5, <2>7
    <3>1. \A i \in DOMAIN q : Older(q[i]) \in Nat
      BY <2>9, <3>0
    <3>2. older \in [1 .. Len(q) -> Nat]
      BY <2>7, <3>1
    <3>3. older \in Seq(Nat) /\ Len(older) = Len(q)
      BY <2>7, <3>2
    <3>4. QED
      BY <2>9, <3>3
  <2> HIDE DEF older
  <2>11. viewer'[w] \in Connection /\ viewer'[w].at = "open" /\ viewer'[w].queue = older
    <3>1. Older(viewer[w].sent) \in Nat
      BY <2>2, LiveAssumption DEF Older
    <3>2. QED
      BY <2>1, <2>3, <2>10, <3>1 DEF Connection
  <2>12. Informed(w)'
    BY <2>5, <2>6, <2>7, <2>10, <2>11 DEF Informed
  <2>13. QED
    BY <2>1, <2>11, <2>12 DEF Fed, Subscribed, Connection
<1>10. \A w \in Viewer : Fed(w)'
  BY <1>8, <1>9
<1>11. Present' = Present
  <2>1. ASSUME NEW w \in Viewer PROVE viewer'[w].at = viewer[w].at
    <3>1. CASE w \in Subscribed
      BY <1>9, <3>1 DEF Subscribed
    <3>2. CASE w \notin Subscribed
      BY <1>2, <3>2
    <3>3. QED
      BY <3>1, <3>2
  <2>2. QED
    BY <2>1 DEF Present
<1>12. QED
  BY <1>2, <1>5, <1>10, <1>11 DEF LiveInv, Seated

(***************************************************************************)
(* The theorems.                                                           *)
(***************************************************************************)
LEMMA LiveStart == LiveInit => LiveInv
<1> SUFFICES ASSUME LiveInit PROVE LiveInv
  OBVIOUS
<1>1. ready = <<>> /\ viewer = [w \in Viewer |-> Away] /\ slots = 0
  BY DEF LiveInit
<1>2. ready \in Seq(Callback) /\ DOMAIN ready = {}
  BY <1>1
<1>3. ASSUME NEW w \in Viewer PROVE Fed(w)
  BY <1>1 DEF Fed, Uninformed, Subscribed, Away, Connection
<1>4. Present = {}
  BY <1>1 DEF Present, Away
<1>5. Seated
  BY <1>1, <1>4, FS_EmptySet, LiveAssumption DEF Seated
<1>6. QED
  BY <1>1, <1>2, <1>3, <1>5 DEF LiveInv

LEMMA LiveIdle ==
    ASSUME LiveInv, UNCHANGED live
    PROVE  LiveInv'
<1>1. ready' = ready /\ viewer' = viewer /\ slots' = slots
  BY DEF live
<1>2. \A u \in Viewer : Fed(u)'
  BY <1>1, BystanderKeeps
<1>3. QED
  BY <1>1, <1>2 DEF LiveInv, Seated, Present

\* Nothing the camera's threads, its people and its manager do reaches the viewers
\* except the one step that publishes.
LEMMA LiveStep == LiveInv /\ [Next]_vars => LiveInv'
<1> SUFFICES ASSUME LiveInv, [Next]_vars PROVE LiveInv'
  OBVIOUS
<1>1. CASE UNCHANGED vars
  BY <1>1, LiveIdle DEF vars
<1>2. CASE People
  BY <1>2, LiveIdle DEF People, Arrive, Move, Leave
<1>3. CASE Reading
  BY <1>3, LiveIdle DEF Reading, OpenStream, ReadFrame, ReaderEnds
<1>4. CASE Analyzing
  <2>1. CASE Publish
    BY <2>1, PublishKeeps DEF Publish
  <2>2. CASE LookAtFrame \/ Pace \/ AnalyzeFrame \/ InsertRow \/ AnalyzerEnds
    BY <2>2, LiveIdle DEF LookAtFrame, Pace, AnalyzeFrame, InsertRow, AnalyzerEnds
  <2>3. QED
    BY <1>4, <2>1, <2>2 DEF Analyzing
<1>5. CASE Faults
  BY <1>5, LiveIdle
    DEF Faults, StreamFails, StreamRecovers, FramesMissing, DetectionFails, MatchFails, EmitFails
<1>6. CASE Managing
  BY <1>6, LiveIdle
    DEF Managing, UpdateTracker, UpdateDetectionEnabled, StopWorker, StartWorker
<1>7. CASE Watching
  <2>1. CASE \E w \in Viewer : Connect(w)
    BY <2>1, ConnectKeeps
  <2>2. CASE \E w \in Viewer : Subscribe(w)
    BY <2>2, SubscribeKeeps
  <2>3. CASE \E w \in Viewer : AcceptFails(w) \/ Disconnect(w)
    BY <2>3, LeaverKeeps
  <2>4. CASE \E w \in Viewer : SendToViewer(w)
    BY <2>4, SendKeeps
  <2>5. CASE DeliverOrDrop
    BY <2>5, DeliverKeeps
  <2>6. QED
    BY <1>7, <2>1, <2>2, <2>3, <2>4, <2>5 DEF Watching
<1>8. QED
  BY <1>1, <1>2, <1>3, <1>4, <1>5, <1>6, <1>7 DEF Next

\* However many viewers come and go, a viewer's queue and the callbacks under way for
\* it name, together and in their order, the last events published, and everyone who
\* is connected has a place (event_bus.py, live_capture/router.py).
THEOREM LiveHolds == Spec => []LiveInv
<1>1. Init => LiveInv
  BY LiveStart DEF Init
<1>2. QED
  BY <1>1, LiveStep, PTL DEF Spec

\* What a viewer of the live page has still to get are the last events published, in
\* their order and without a gap, however slow it is, whoever else comes and goes and
\* in whatever order the callbacks for one event are made.
THEOREM ViewersSeeNewest == Spec => []ViewerSeesNewest
<1>1. LiveInv => ViewerSeesNewest
  BY DEF LiveInv, Fed, Informed, ViewerSeesNewest, Called, Subscribed
<1>2. QED
  BY <1>1, LiveHolds, PTL

\* No more viewers than places: a place is taken before its viewer is let in, and what a
\* failed handshake leaves behind errs on the safe side.
THEOREM PlacesLimitViewers == Spec => [](Cardinality(Present) <= MaxViewers)
<1>1. LiveInv => Cardinality(Present) <= MaxViewers
  <2> SUFFICES ASSUME LiveInv PROVE Cardinality(Present) <= MaxViewers
    OBVIOUS
  <2>1. Cardinality(Present) \in Nat
    BY FS_CardinalityType DEF LiveInv, Seated
  <2>2. QED
    BY <2>1, LiveAssumption DEF LiveInv, Seated
<1>2. QED
  BY <1>1, LiveHolds, PTL

(***************************************************************************)
(* The tracker.                                                            *)
(***************************************************************************)
Below == {ss \in Nat \X Nat : ss[1] < ss[2]}

LEMMA LeastOf ==
    ASSUME NEW S \in SUBSET Nat, S # {}
    PROVE  \E x \in S : \A y \in S : x <= y
<1>1. IsWellFoundedOn(Below, Nat)
  BY NatLessThanWellFounded DEF OpToRel, Below
<1>2. PICK x \in S : \A y \in S : ~ (<<y, x>> \in Below)
  BY <1>1, WFMin
<1>3. ASSUME NEW y \in S
      PROVE  x <= y
  <2>1. y < x => <<y, x>> \in Below
    BY DEF Below
  <2>2. QED
    BY <1>2, <2>1
<1>4. QED
  BY <1>3

\* A set that holds 0 and with every number the next one holds them all.
LEMMA CountsUp ==
    ASSUME NEW n \in Nat, NEW S, 0 \in S, \A i \in 1 .. n : i - 1 \in S => i \in S
    PROVE  \A i \in 0 .. n : i \in S
<1> DEFINE Out == {i \in 0 .. n : i \notin S}
<1>1. Out = {}
  <2> SUFFICES ASSUME Out # {} PROVE FALSE
    OBVIOUS
  <2>1. PICK i \in Out : \A y \in Out : i <= y
    <3>1. Out \in SUBSET Nat
      OBVIOUS
    <3> HIDE DEF Out
    <3>2. QED
      BY <3>1, LeastOf
  <2>2. i \in 1 .. n /\ i - 1 \in 0 .. n
    BY <2>1
  <2>3. i - 1 \notin Out
    <3>1. ~ i <= i - 1
      BY <2>2
    <3> HIDE DEF Out
    <3>2. QED
      BY <2>1, <3>1
  <2>4. QED
    BY <2>1, <2>2, <2>3
<1>2. QED
  BY <1>1

Fits(t, k) == t.idle <= k.idle /\ t.age <= k.cap

IsKept(f, q, k) ==
    f = [i \in 0 .. Len(q) |-> IF i = 0 THEN <<>>
                               ELSE IF Fits(q[i], k) THEN Append(f[i - 1], q[i]) ELSE f[i - 1]]

IsAfter(f, q, detections, k) ==
    f = [i \in 0 .. Len(detections) |->
            IF i = 0 THEN [tracks |-> q, open |-> DOMAIN q, new |-> <<>>]
            ELSE Claim(f[i - 1], detections[i], k)]

LEMMA KeptExists ==
    ASSUME NEW S, NEW q \in Seq(S), NEW k
    PROVE  \E f : IsKept(f, q, k)
<1> DEFINE On(v, i) == IF Fits(q[i], k) THEN Append(v, q[i]) ELSE v
           Chain(f, n) == \A m \in 0 .. n : f[m] = IF m = 0 THEN <<>> ELSE On(f[m - 1], m)
           T == {n \in 0 .. Len(q) : \E f : Chain(f, n)}
<1> HIDE DEF On
<1>1. Len(q) \in Nat
  OBVIOUS
<1>2. 0 \in T
  <2>1. Chain([m \in {0} |-> <<>>], 0)
    OBVIOUS
  <2>2. 0 \in 0 .. Len(q)
    BY <1>1
  <2> HIDE DEF Chain
  <2>3. QED
    BY <2>1, <2>2
<1>3. ASSUME NEW n \in 1 .. Len(q), n - 1 \in T
      PROVE  n \in T
  <2>1. PICK f : Chain(f, n - 1)
    BY <1>3
  <2> DEFINE g == [m \in 0 .. n |-> IF m = n THEN On(f[n - 1], n) ELSE f[m]]
  <2>2. Chain(g, n)
    <3> SUFFICES ASSUME NEW m \in 0 .. n
                 PROVE  g[m] = IF m = 0 THEN <<>> ELSE On(g[m - 1], m)
      OBVIOUS
    <3>1. CASE m = n
      <4>1. g[m] = On(f[n - 1], n) /\ g[m - 1] = f[n - 1]
        BY <3>1
      <4>2. QED
        BY <4>1, <3>1
    <3>2. CASE m # n
      <4>1. m \in 0 .. (n - 1) /\ (m # 0 => m - 1 \in 0 .. n /\ m - 1 # n)
        BY <3>2
      <4>2. g[m] = f[m] /\ (m # 0 => g[m - 1] = f[m - 1])
        BY <3>2, <4>1
      <4>3. QED
        BY <2>1, <4>1, <4>2
    <3>3. QED
      BY <3>1, <3>2
  <2> HIDE DEF Chain, g
  <2>3. QED
    BY <2>2
<1>4. PICK f : Chain(f, Len(q))
  <2>1. Len(q) \in 0 .. Len(q)
    BY <1>1
  <2> HIDE DEF T
  <2>2. Len(q) \in T
    BY <1>1, <1>2, <1>3, <2>1, CountsUp
  <2>3. QED
    BY <2>2 DEF T
<1> DEFINE g == [m \in 0 .. Len(q) |-> f[m]]
<1>5. g = [i \in 0 .. Len(q) |-> IF i = 0 THEN <<>> ELSE On(g[i - 1], i)]
  <2>1. ASSUME NEW n \in 0 .. Len(q)
        PROVE  f[n] = IF n = 0 THEN <<>> ELSE On(g[n - 1], n)
    <3>1. n # 0 => n - 1 \in 0 .. Len(q)
      OBVIOUS
    <3>2. QED
      BY <1>4, <3>1
  <2>2. QED
    BY <2>1
<1> HIDE DEF g
<1>6. QED
  BY <1>5, Zenon DEF IsKept, On

LEMMA AfterExists ==
    ASSUME NEW q, NEW S, NEW D \in Seq(S), NEW k
    PROVE  \E f : IsAfter(f, q, D, k)
<1> DEFINE Start == [tracks |-> q, open |-> DOMAIN q, new |-> <<>>]
           On(v, i) == Claim(v, D[i], k)
           Chain(f, n) == \A m \in 0 .. n : f[m] = IF m = 0 THEN Start ELSE On(f[m - 1], m)
           T == {n \in 0 .. Len(D) : \E f : Chain(f, n)}
<1> HIDE DEF On, Start
<1>1. Len(D) \in Nat
  OBVIOUS
<1>2. 0 \in T
  <2>1. Chain([m \in {0} |-> Start], 0)
    OBVIOUS
  <2>2. 0 \in 0 .. Len(D)
    BY <1>1
  <2> HIDE DEF Chain
  <2>3. QED
    BY <2>1, <2>2
<1>3. ASSUME NEW n \in 1 .. Len(D), n - 1 \in T
      PROVE  n \in T
  <2>1. PICK f : Chain(f, n - 1)
    BY <1>3
  <2> DEFINE g == [m \in 0 .. n |-> IF m = n THEN On(f[n - 1], n) ELSE f[m]]
  <2>2. Chain(g, n)
    <3> SUFFICES ASSUME NEW m \in 0 .. n
                 PROVE  g[m] = IF m = 0 THEN Start ELSE On(g[m - 1], m)
      OBVIOUS
    <3>1. CASE m = n
      <4>1. g[m] = On(f[n - 1], n) /\ g[m - 1] = f[n - 1]
        BY <3>1
      <4>2. QED
        BY <4>1, <3>1
    <3>2. CASE m # n
      <4>1. m \in 0 .. (n - 1) /\ (m # 0 => m - 1 \in 0 .. n /\ m - 1 # n)
        BY <3>2
      <4>2. g[m] = f[m] /\ (m # 0 => g[m - 1] = f[m - 1])
        BY <3>2, <4>1
      <4>3. QED
        BY <2>1, <4>1, <4>2
    <3>3. QED
      BY <3>1, <3>2
  <2> HIDE DEF Chain, g
  <2>3. QED
    BY <2>2
<1>4. PICK f : Chain(f, Len(D))
  <2>1. Len(D) \in 0 .. Len(D)
    BY <1>1
  <2> HIDE DEF T
  <2>2. Len(D) \in T
    BY <1>1, <1>2, <1>3, <2>1, CountsUp
  <2>3. QED
    BY <2>2 DEF T
<1> DEFINE g == [m \in 0 .. Len(D) |-> f[m]]
<1>5. g = [i \in 0 .. Len(D) |-> IF i = 0 THEN Start ELSE On(g[i - 1], i)]
  <2>1. ASSUME NEW n \in 0 .. Len(D)
        PROVE  f[n] = IF n = 0 THEN Start ELSE On(g[n - 1], n)
    <3>1. n # 0 => n - 1 \in 0 .. Len(D)
      OBVIOUS
    <3>2. QED
      BY <1>4, <3>1
  <2>2. QED
    BY <2>1
<1> HIDE DEF g
<1>6. QED
  BY <1>5, Zenon DEF IsAfter, On, Start

LEMMA KeptMeans ==
    ASSUME NEW S, NEW q \in Seq(S), NEW k
    PROVE  \E f : IsKept(f, q, k) /\ Kept(q, k) = f[Len(q)]
<1> DEFINE g == CHOOSE f : IsKept(f, q, k)
<1>1. IsKept(g, q, k)
  BY KeptExists
<1>2. Kept(q, k) = g[Len(q)]
  BY Zenon DEF Kept, IsKept, Fits
<1> HIDE DEF g
<1>3. QED
  BY <1>1, <1>2

LEMMA AfterMeans ==
    ASSUME NEW q, NEW S, NEW D \in Seq(S), NEW k
    PROVE  \E f : IsAfter(f, q, D, k) /\ Associate(q, D, k) = f[Len(D)]
<1> DEFINE g == CHOOSE f : IsAfter(f, q, D, k)
<1>1. IsAfter(g, q, D, k)
  BY AfterExists
<1>2. Associate(q, D, k) = g[Len(D)]
  BY Zenon DEF Associate, IsAfter
<1> HIDE DEF g
<1>3. QED
  BY <1>1, <1>2

(***************************************************************************)
(* What a track is, and what is kept of them.                              *)
(***************************************************************************)
Trk == [who : Visitor, box : Place, idle : 0 .. MaxIdle + 1, age : 0 .. MaxCap + 1]

LEMMA Limits ==
    /\ MinCap \in Nat /\ MaxCap \in Nat /\ MaxIdle \in Nat /\ MinCap <= MaxCap
    /\ \A k \in Knobs : /\ k.iou \in Nat /\ k.idle \in Nat /\ k.cap \in Nat
                        /\ MinCap <= k.cap /\ k.cap <= MaxCap /\ k.idle <= MaxIdle
<1> DEFINE Caps == {k.cap : k \in Knobs}
           Idles == {k.idle : k \in Knobs}
<1>1. Caps \subseteq Nat /\ Idles \subseteq Nat
  BY KnobsAssumption
<1>2. (\E x \in Caps : \A y \in Caps : x <= y) /\ (\E x \in Caps : \A y \in Caps : x >= y)
  BY KnobsAssumption
<1>3. \E x \in Idles : \A y \in Idles : x >= y
  BY KnobsAssumption
<1>4. \A k \in Knobs : /\ k.iou \in Nat /\ k.idle \in Nat /\ k.cap \in Nat
                       /\ k.cap \in Caps /\ k.idle \in Idles
  BY KnobsAssumption
<1> HIDE DEF Caps, Idles
<1>5. Min(Caps) \in Caps /\ \A y \in Caps : Min(Caps) <= y
  BY <1>2 DEF Min
<1>6. Max(Caps) \in Caps /\ \A y \in Caps : Max(Caps) >= y
  BY <1>2 DEF Max
<1>7. Max(Idles) \in Idles /\ \A y \in Idles : Max(Idles) >= y
  BY <1>3 DEF Max
<1>8. MinCap = Min(Caps) /\ MaxCap = Max(Caps) /\ MaxIdle = Max(Idles)
  BY DEF MinCap, MaxCap, MaxIdle, Caps, Idles
<1>9. QED
  BY <1>1, <1>4, <1>5, <1>6, <1>7, <1>8

\* At most one track of a visitor.
One(q, v) == \A i, j \in DOMAIN q : q[i].who = v /\ q[j].who = v => i = j

LEMMA KeptIs ==
    ASSUME NEW S, NEW q \in Seq(S), NEW k
    PROVE  /\ Kept(q, k) \in Seq(S)
           /\ \A j \in DOMAIN Kept(q, k) : \E i \in DOMAIN q : Kept(q, k)[j] = q[i] /\ Fits(q[i], k)
           /\ \A i \in DOMAIN q : Fits(q[i], k) => \E j \in DOMAIN Kept(q, k) : Kept(q, k)[j] = q[i]
           /\ \A v : One(q, v) => One(Kept(q, k), v)
<1>1. PICK f : IsKept(f, q, k) /\ Kept(q, k) = f[Len(q)]
  BY KeptMeans
<1> DEFINE From(n) == \A j \in DOMAIN f[n] : \E i \in 1 .. n : f[n][j] = q[i] /\ Fits(q[i], k)
           All(n) == \A i \in 1 .. n : Fits(q[i], k) => \E j \in DOMAIN f[n] : f[n][j] = q[i]
           Only(n) == \A v : One(q, v) => One(f[n], v)
           T == {n \in 0 .. Len(q) : f[n] \in Seq(S) /\ From(n) /\ All(n) /\ Only(n)}
<1>2. Len(q) \in Nat /\ DOMAIN q = 1 .. Len(q)
  OBVIOUS
<1>3. f[0] = <<>>
  BY <1>1, <1>2 DEF IsKept
<1>4. ASSUME NEW n \in 1 .. Len(q)
      PROVE  f[n] = IF Fits(q[n], k) THEN Append(f[n - 1], q[n]) ELSE f[n - 1]
  <2>1. n \in 0 .. Len(q) /\ n # 0
    BY <1>2
  <2>2. f = [i \in 0 .. Len(q) |-> IF i = 0 THEN <<>>
                ELSE IF Fits(q[i], k) THEN Append(f[i - 1], q[i]) ELSE f[i - 1]]
    BY <1>1 DEF IsKept
  <2>3. QED
    BY <2>1, <2>2
<1>5. 0 \in T
  <2>1. f[0] \in Seq(S) /\ DOMAIN f[0] = {}
    BY <1>3
  <2>2. From(0) /\ All(0) /\ Only(0)
    BY <2>1 DEF One
  <2>3. 0 \in 0 .. Len(q)
    BY <1>2
  <2> HIDE DEF From, All, Only
  <2>4. QED
    BY <2>1, <2>2, <2>3
<1>6. ASSUME NEW n \in 1 .. Len(q), n - 1 \in T
      PROVE  n \in T
  <2>1. f[n - 1] \in Seq(S) /\ From(n - 1) /\ All(n - 1) /\ Only(n - 1)
    BY <1>6
  <2>2. q[n] \in S /\ n \in 0 .. Len(q) /\ n \in DOMAIN q
    BY <1>2
  <2>3. \A i \in 1 .. n : i \in 1 .. (n - 1) \/ i = n
    OBVIOUS
  <2>4. \A i \in 1 .. (n - 1) : i \in 1 .. n /\ i \in DOMAIN q /\ i # n
    BY <1>2
  <2>5. CASE ~ Fits(q[n], k)
    <3>1. f[n] = f[n - 1]
      BY <1>4, <2>5
    <3>2. From(n) /\ All(n) /\ Only(n)
      BY <2>1, <2>3, <2>4, <2>5, <3>1
    <3> HIDE DEF From, All, Only
    <3>3. QED
      BY <2>1, <2>2, <3>1, <3>2
  <2>6. CASE Fits(q[n], k)
    <3> DEFINE p == f[n - 1]
    <3>1. f[n] = Append(p, q[n]) /\ p \in Seq(S)
      BY <1>4, <2>1, <2>6
    <3> HIDE DEF p
    <3>2. /\ f[n] \in Seq(S) /\ Len(p) \in Nat
          /\ DOMAIN p = 1 .. Len(p) /\ DOMAIN f[n] = 1 .. (Len(p) + 1)
          /\ \A j \in DOMAIN p : f[n][j] = p[j]
          /\ f[n][Len(p) + 1] = q[n]
      BY <2>2, <3>1
    <3>3. \A j \in DOMAIN f[n] : j \in DOMAIN p \/ j = Len(p) + 1
      BY <3>2
    <3>4. Len(p) + 1 \in DOMAIN f[n] /\ DOMAIN p \subseteq DOMAIN f[n]
      BY <3>2
    <3>5. From(n)
      BY <2>1, <2>2, <2>4, <2>6, <3>2, <3>3 DEF p
    <3>6. All(n)
      BY <2>1, <2>3, <3>2, <3>4 DEF p
    <3>7. Only(n)
      <4> SUFFICES ASSUME NEW v, One(q, v), NEW i \in DOMAIN f[n], NEW j \in DOMAIN f[n],
                          f[n][i].who = v, f[n][j].who = v
                   PROVE  i = j
        BY DEF One
      <4>1. One(p, v)
        BY <2>1 DEF p
      <4>2. \A l \in DOMAIN p : p[l].who # q[n].who \/ q[n].who # v
        <5> SUFFICES ASSUME NEW l \in DOMAIN p, p[l].who = v, q[n].who = v
                     PROVE  FALSE
          OBVIOUS
        <5>1. PICK m \in 1 .. (n - 1) : p[l] = q[m]
          BY <2>1 DEF p
        <5>2. m \in DOMAIN q /\ m # n
          BY <2>4
        <5>3. QED
          BY <2>2, <5>1, <5>2 DEF One
      <4>3. QED
        BY <3>2, <3>3, <4>1, <4>2 DEF One
    <3> HIDE DEF From, All, Only
    <3>8. QED
      BY <2>2, <3>2, <3>5, <3>6, <3>7
  <2>7. QED
    BY <2>5, <2>6
<1>7. Len(q) \in T
  <2>1. Len(q) \in 0 .. Len(q)
    BY <1>2
  <2> HIDE DEF T
  <2>2. QED
    BY <1>2, <1>5, <1>6, <2>1, CountsUp
<1>8. f[Len(q)] \in Seq(S) /\ From(Len(q)) /\ All(Len(q)) /\ Only(Len(q))
  BY <1>7
<1> DEFINE p == Kept(q, k)
<1>9. p = f[Len(q)] /\ DOMAIN q = 1 .. Len(q)
  BY <1>1, <1>2
<1> HIDE DEF p
<1>10. \A j \in DOMAIN p : \E i \in DOMAIN q : p[j] = q[i] /\ Fits(q[i], k)
  BY <1>8, <1>9
<1>11. \A i \in DOMAIN q : Fits(q[i], k) => \E j \in DOMAIN p : p[j] = q[i]
  BY <1>8, <1>9
<1>12. p \in Seq(S) /\ \A v : One(q, v) => One(p, v)
  BY <1>8, <1>9
<1>13. QED
  BY <1>10, <1>11, <1>12 DEF p

(***************************************************************************)
(* One detection after the other.                                          *)
(***************************************************************************)
Detection == [who : Visitor, place : Place]

Sound(s) == s.tracks \in Seq(Trk) /\ s.new \in Seq(Visitor) /\ s.open \subseteq DOMAIN s.tracks

Begun(s, d, t) ==
    /\ DOMAIN t.tracks = 1 .. (Len(s.tracks) + 1)
    /\ \A i \in DOMAIN s.tracks : t.tracks[i] = s.tracks[i]
    /\ t.tracks[Len(s.tracks) + 1] = [who |-> d.who, box |-> d.place, idle |-> 0, age |-> 0]
    /\ t.open = s.open
    /\ t.new = Append(s.new, d.who)

Continued(s, d, t, m) ==
    /\ DOMAIN t.tracks = DOMAIN s.tracks
    /\ \A i \in DOMAIN s.tracks \ {m} : t.tracks[i] = s.tracks[i]
    /\ t.tracks[m].who = s.tracks[m].who /\ t.tracks[m].age = s.tracks[m].age
    /\ t.tracks[m].box = d.place /\ t.tracks[m].idle = 0
    /\ t.open = s.open \ {m}
    /\ t.new = s.new

LEMMA TrackMoves ==
    ASSUME NEW r \in Trk, NEW b
    PROVE  [[r EXCEPT !.box = b] EXCEPT !.idle = 0] = [who |-> r.who, box |-> b, idle |-> 0, age |-> r.age]
<1> DEFINE x == [r EXCEPT !.box = b]
<1>1. x \in [who : Visitor, box : {b}, idle : 0 .. MaxIdle + 1, age : 0 .. MaxCap + 1]
      /\ x.who = r.who /\ x.box = b /\ x.age = r.age
  BY DEF Trk
<1> HIDE DEF x
<1>2. [x EXCEPT !.idle = 0] = [who |-> x.who, box |-> x.box, idle |-> 0, age |-> x.age]
  BY <1>1
<1>3. QED
  BY <1>1, <1>2 DEF x

LEMMA ClaimIs ==
    ASSUME NEW s, Sound(s), NEW d \in Detection, NEW k
    PROVE  /\ Sound(Claim(s, d, k))
           /\ \/ /\ Best(s.tracks, s.open, d.place, k) = {}
                 /\ Begun(s, d, Claim(s, d, k))
              \/ \E m \in Best(s.tracks, s.open, d.place, k) : Continued(s, d, Claim(s, d, k), m)
<1> DEFINE best == Best(s.tracks, s.open, d.place, k)
           m == Min(best)
           t == Claim(s, d, k)
           q == s.tracks
<1>1. /\ q \in Seq(Trk) /\ Len(q) \in Nat /\ DOMAIN q = 1 .. Len(q)
      /\ s.new \in Seq(Visitor) /\ s.open \subseteq DOMAIN q
  BY DEF Sound
<1>2. d.who \in Visitor /\ d.place \in Place
  BY DEF Detection
<1>3. 0 \in 0 .. MaxIdle + 1 /\ 0 \in 0 .. MaxCap + 1
  BY Limits
<1>4. CASE best = {}
  <2> DEFINE new == [who |-> d.who, box |-> d.place, idle |-> 0, age |-> 0]
  <2>1. new \in Trk
    BY <1>2, <1>3 DEF Trk
  <2>2. t = [tracks |-> Append(s.tracks, new), open |-> s.open, new |-> Append(s.new, d.who)]
    BY <1>4, Zenon DEF Claim
  <2>3. t.tracks = Append(q, new) /\ t.open = s.open /\ t.new = Append(s.new, d.who)
    BY <2>2
  <2>4. /\ Append(q, new) \in Seq(Trk) /\ DOMAIN Append(q, new) = 1 .. (Len(q) + 1)
        /\ \A i \in DOMAIN q : Append(q, new)[i] = q[i]
        /\ Append(q, new)[Len(q) + 1] = new
    <3> HIDE DEF new, q
    <3>1. QED
      BY <1>1, <2>1
  <2>5. DOMAIN q \subseteq DOMAIN Append(q, new)
    BY <1>1, <2>4
  <2>6. Append(s.new, d.who) \in Seq(Visitor)
    BY <1>1, <1>2
  <2> HIDE DEF t, new, q
  <2>7. Sound(t)
    BY <1>1, <2>3, <2>4, <2>5, <2>6 DEF Sound
  <2>8. Begun(s, d, t)
    BY <2>3, <2>4 DEF Begun, new, q
  <2>9. QED
    BY <1>4, <2>7, <2>8 DEF t
<1>5. CASE best # {}
  <2>1. best \subseteq s.open
    BY DEF Best
  <2>2. m \in best
    <3>1. best \in SUBSET Nat
      BY <1>1, <2>1
    <3>2. \E x \in best : \A y \in best : x <= y
      <4> HIDE DEF best
      <4>1. QED
        BY <1>5, <3>1, LeastOf
    <3> HIDE DEF best
    <3>3. QED
      BY <3>2 DEF Min
  <2> DEFINE p == [q EXCEPT ![m].box = d.place, ![m].idle = 0]
  <2>3. t = [tracks |-> p, open |-> s.open \ {m}, new |-> s.new]
    BY <1>5, Zenon DEF Claim
  <2>4. t.tracks = p /\ t.open = s.open \ {m} /\ t.new = s.new
    BY <2>3
  <2> HIDE DEF best, m, q
  <2>5. m \in DOMAIN q /\ q[m] \in Trk
    BY <1>1, <2>1, <2>2
  <2>6. q[m] = [who |-> q[m].who, box |-> q[m].box, idle |-> q[m].idle, age |-> q[m].age]
        /\ q[m].who \in Visitor /\ q[m].age \in 0 .. MaxCap + 1
    BY <2>5 DEF Trk
  <2>7. /\ DOMAIN p = DOMAIN q
        /\ \A i \in DOMAIN q \ {m} : p[i] = q[i]
        /\ p[m] = [[q[m] EXCEPT !.box = d.place] EXCEPT !.idle = 0]
    BY <1>1, <2>5
  <2>8. p[m] = [who |-> q[m].who, box |-> d.place, idle |-> 0, age |-> q[m].age]
    BY <2>5, <2>7, TrackMoves
  <2>9. p[m] \in Trk
    BY <1>2, <1>3, <2>6, <2>8 DEF Trk
  <2>10. p \in Seq(Trk)
    <3>1. p = [i \in 1 .. Len(q) |-> p[i]]
      BY <1>1
    <3> HIDE DEF p
    <3>2. \A i \in 1 .. Len(q) : p[i] \in Trk
      BY <1>1, <2>7, <2>9
    <3>3. p \in [1 .. Len(q) -> Trk]
      BY <3>1, <3>2
    <3>4. QED
      BY <1>1, <3>3
  <2> HIDE DEF t, p
  <2>11. Sound(t)
    BY <1>1, <2>4, <2>7, <2>10 DEF Sound
  <2>12. Continued(s, d, t, m)
    BY <2>4, <2>7, <2>8 DEF Continued, q
  <2>13. QED
    BY <2>2, <2>11, <2>12 DEF t, best
<1>6. QED
  BY <1>4, <1>5

(***************************************************************************)
(* A visitor whom nobody comes close to: their tracks and detections lie   *)
(* in places of their own, which overlap each other as much as is asked    *)
(* for and no place of anybody else.                                       *)
(***************************************************************************)
Ring(Own, Others, k) ==
    /\ Own \subseteq Place /\ Others \subseteq Place
    /\ \A b \in Own, c \in Others : Iou(b, c) = 0 /\ Iou(c, b) = 0
    /\ \A b, c \in Own : Iou(b, c) > 0 /\ Iou(b, c) >= k.iou

Fenced(q, v, Own, Others) ==
    \A i \in DOMAIN q : q[i].box \in IF q[i].who = v THEN Own ELSE Others

Follower(s, v, Own, Others) ==
    Sound(s) /\ One(s.tracks, v) /\ Fenced(s.tracks, v, Own, Others)

\* Nothing of a visitor's changes.
Passed(s, t, v) ==
    /\ \A i \in DOMAIN s.tracks : s.tracks[i].who = v =>
          i \in DOMAIN t.tracks /\ t.tracks[i] = s.tracks[i] /\ (i \in s.open => i \in t.open)
    /\ \A i \in DOMAIN t.tracks : t.tracks[i].who = v => i \in DOMAIN s.tracks /\ s.tracks[i].who = v
    /\ \A i \in DOMAIN s.new : i \in DOMAIN t.new /\ t.new[i] = s.new[i]
    /\ \A i \in DOMAIN t.new : t.new[i] = v => i \in DOMAIN s.new

LEMMA AppendIs ==
    ASSUME NEW S, NEW q \in Seq(S), NEW x \in S
    PROVE  /\ Append(q, x) \in Seq(S) /\ Len(q) \in Nat
           /\ DOMAIN q = 1 .. Len(q) /\ DOMAIN Append(q, x) = 1 .. (Len(q) + 1)
           /\ \A i \in DOMAIN q : Append(q, x)[i] = q[i]
           /\ Append(q, x)[Len(q) + 1] = x
  OBVIOUS

\* Somebody else's detection.
LEMMA OthersPass ==
    ASSUME NEW v, NEW Own, NEW Others, NEW k, Ring(Own, Others, k),
           NEW s, Follower(s, v, Own, Others),
           NEW d \in Detection, d.who # v, d.place \in Others
    PROVE  Follower(Claim(s, d, k), v, Own, Others) /\ Passed(s, Claim(s, d, k), v)
<1> DEFINE t == Claim(s, d, k)
           best == Best(s.tracks, s.open, d.place, k)
<1>1. Sound(s) /\ One(s.tracks, v) /\ Fenced(s.tracks, v, Own, Others)
  BY DEF Follower
<1>2. Sound(t) /\ ((best = {} /\ Begun(s, d, t)) \/ \E m \in best : Continued(s, d, t, m))
  BY <1>1, ClaimIs
<1>3. \A m \in best : m \in DOMAIN s.tracks /\ Iou(d.place, s.tracks[m].box) > 0
  BY <1>1 DEF Best, Sound
<1>4. \A m \in best : s.tracks[m].who # v
  <2> SUFFICES ASSUME NEW m \in best, s.tracks[m].who = v PROVE FALSE
    OBVIOUS
  <2>1. s.tracks[m].box \in Own /\ Iou(d.place, s.tracks[m].box) > 0
    BY <1>1, <1>3 DEF Fenced
  <2>2. QED
    BY <2>1 DEF Ring
<1>5. /\ s.tracks \in Seq(Trk) /\ Len(s.tracks) \in Nat /\ DOMAIN s.tracks = 1 .. Len(s.tracks)
      /\ s.new \in Seq(Visitor) /\ d.who \in Visitor
  BY <1>1 DEF Sound, Detection
<1> HIDE DEF t, best
<1>6. CASE Begun(s, d, t)
  <2> DEFINE n == Len(s.tracks) + 1
  <2>1. /\ DOMAIN t.tracks = 1 .. n
        /\ \A i \in DOMAIN s.tracks : t.tracks[i] = s.tracks[i]
        /\ t.tracks[n].who = d.who /\ t.tracks[n].box = d.place
        /\ t.open = s.open /\ t.new = Append(s.new, d.who)
    BY <1>6 DEF Begun
  <2>2. \A i \in DOMAIN t.tracks : i \in DOMAIN s.tracks \/ i = n
    BY <1>5, <2>1
  <2>3. DOMAIN s.tracks \subseteq DOMAIN t.tracks
    BY <1>5, <2>1
  <2>4. /\ \A i \in DOMAIN s.new : i \in DOMAIN t.new /\ t.new[i] = s.new[i]
        /\ \A i \in DOMAIN t.new : i \in DOMAIN s.new \/ t.new[i] = d.who
    BY <1>5, <2>1, AppendIs
  <2> HIDE DEF n
  <2>5. Fenced(t.tracks, v, Own, Others) /\ One(t.tracks, v)
    BY <1>1, <2>1, <2>2 DEF Fenced, One
  <2>6. Passed(s, t, v)
    BY <2>1, <2>2, <2>3, <2>4 DEF Passed
  <2>7. QED
    BY <1>2, <2>5, <2>6 DEF Follower, t
<1>7. ASSUME NEW m \in best, Continued(s, d, t, m)
      PROVE  Follower(t, v, Own, Others) /\ Passed(s, t, v)
  <2>1. /\ DOMAIN t.tracks = DOMAIN s.tracks
        /\ \A i \in DOMAIN s.tracks \ {m} : t.tracks[i] = s.tracks[i]
        /\ t.tracks[m].who = s.tracks[m].who /\ t.tracks[m].box = d.place
        /\ t.open = s.open \ {m} /\ t.new = s.new
    BY <1>7 DEF Continued
  <2>2. s.tracks[m].who # v
    BY <1>4
  <2>3. Fenced(t.tracks, v, Own, Others) /\ One(t.tracks, v)
    BY <1>1, <2>1, <2>2 DEF Fenced, One
  <2>4. Passed(s, t, v)
    BY <2>1, <2>2 DEF Passed
  <2>5. QED
    BY <1>2, <2>3, <2>4 DEF Follower
<1>8. QED
  BY <1>2, <1>6, <1>7 DEF t

\* The visitor's own, while their track is unclaimed.
LEMMA OwnContinues ==
    ASSUME NEW v, NEW Own, NEW Others, NEW k, Ring(Own, Others, k),
           NEW s, Follower(s, v, Own, Others),
           NEW d \in Detection, d.who = v, d.place \in Own,
           NEW o \in DOMAIN s.tracks, s.tracks[o].who = v, o \in s.open
    PROVE  /\ Follower(Claim(s, d, k), v, Own, Others)
           /\ Continued(s, d, Claim(s, d, k), o)
<1> DEFINE t == Claim(s, d, k)
           best == Best(s.tracks, s.open, d.place, k)
<1>1. Sound(s) /\ One(s.tracks, v) /\ Fenced(s.tracks, v, Own, Others)
  BY DEF Follower
<1>2. Sound(t) /\ ((best = {} /\ Begun(s, d, t)) \/ \E m \in best : Continued(s, d, t, m))
  BY <1>1, ClaimIs
<1>3. /\ s.tracks[o].box \in Own
      /\ Iou(d.place, s.tracks[o].box) > 0 /\ Iou(d.place, s.tracks[o].box) >= k.iou
      /\ Iou(d.place, s.tracks[o].box) \in Nat
  BY <1>1, IouAssumption DEF Fenced, Ring
<1>4. \A j \in s.open : j # o => s.tracks[j].who # v /\ Iou(d.place, s.tracks[j].box) = 0
  BY <1>1 DEF Sound, One, Fenced, Ring
<1>5. o \in best
  <2>1. \A j \in s.open : Iou(d.place, s.tracks[j].box) <= Iou(d.place, s.tracks[o].box)
    BY <1>3, <1>4
  <2>2. QED
    BY <1>3, <2>1 DEF Best
<1>6. \A m \in best : m = o
  BY <1>4 DEF Best
<1> HIDE DEF t, best
<1>7. Continued(s, d, t, o)
  BY <1>2, <1>5, <1>6
<1>8. /\ DOMAIN t.tracks = DOMAIN s.tracks
      /\ \A i \in DOMAIN s.tracks \ {o} : t.tracks[i] = s.tracks[i]
      /\ t.tracks[o].who = v /\ t.tracks[o].box = d.place
  BY <1>7 DEF Continued
<1>9. Fenced(t.tracks, v, Own, Others) /\ One(t.tracks, v)
  BY <1>1, <1>8 DEF Fenced, One
<1>10. QED
  BY <1>2, <1>7, <1>9 DEF Follower, t

\* The visitor's own, when nothing follows them.
LEMMA OwnBegins ==
    ASSUME NEW v, NEW Own, NEW Others, NEW k, Ring(Own, Others, k),
           NEW s, Follower(s, v, Own, Others),
           NEW d \in Detection, d.who = v, d.place \in Own,
           \A i \in DOMAIN s.tracks : s.tracks[i].who # v
    PROVE  /\ Follower(Claim(s, d, k), v, Own, Others)
           /\ Begun(s, d, Claim(s, d, k))
<1> DEFINE t == Claim(s, d, k)
           best == Best(s.tracks, s.open, d.place, k)
<1>1. Sound(s) /\ One(s.tracks, v) /\ Fenced(s.tracks, v, Own, Others)
  BY DEF Follower
<1>2. Sound(t) /\ ((best = {} /\ Begun(s, d, t)) \/ \E m \in best : Continued(s, d, t, m))
  BY <1>1, ClaimIs
<1>3. best = {}
  <2> SUFFICES ASSUME NEW m \in best PROVE FALSE
    OBVIOUS
  <2>1. m \in DOMAIN s.tracks /\ Iou(d.place, s.tracks[m].box) > 0
    BY <1>1 DEF Best, Sound
  <2>2. s.tracks[m].box \in Others
    BY <1>1, <2>1 DEF Fenced
  <2>3. QED
    BY <2>1, <2>2 DEF Ring
<1> HIDE DEF t, best
<1>4. Begun(s, d, t)
  BY <1>2, <1>3
<1> DEFINE n == Len(s.tracks) + 1
<1>5. /\ DOMAIN t.tracks = 1 .. n
      /\ \A i \in DOMAIN s.tracks : t.tracks[i] = s.tracks[i]
      /\ t.tracks[n].who = d.who /\ t.tracks[n].box = d.place
  BY <1>4 DEF Begun
<1>6. \A i \in DOMAIN t.tracks : i \in DOMAIN s.tracks \/ i = n
  BY <1>1, <1>5 DEF Sound
<1> HIDE DEF n
<1>7. Fenced(t.tracks, v, Own, Others) /\ One(t.tracks, v)
  BY <1>1, <1>5, <1>6 DEF Fenced, One
<1>8. QED
  BY <1>2, <1>4, <1>7 DEF Follower, t

\* A visitor is found in a frame once.
Twice(D, v) == \E i, j \in DOMAIN D : D[i].who = v /\ D[j].who = v /\ i # j

FoundIn(D, v, n) == \E i \in 1 .. n : D[i].who = v

Placed(D, v, Own, Others) ==
    \A i \in DOMAIN D : D[i].place \in IF D[i].who = v THEN Own ELSE Others

LEMMA AfterSteps ==
    ASSUME NEW q, NEW S, NEW D \in Seq(S), NEW k, NEW f, IsAfter(f, q, D, k)
    PROVE  /\ Len(D) \in Nat /\ DOMAIN D = 1 .. Len(D)
           /\ f[0] = [tracks |-> q, open |-> DOMAIN q, new |-> <<>>]
           /\ \A n \in 1 .. Len(D) : f[n] = Claim(f[n - 1], D[n], k)
<1>1. Len(D) \in Nat /\ DOMAIN D = 1 .. Len(D)
  OBVIOUS
<1>2. f = [i \in 0 .. Len(D) |-> IF i = 0 THEN [tracks |-> q, open |-> DOMAIN q, new |-> <<>>]
                                 ELSE Claim(f[i - 1], D[i], k)]
  BY DEF IsAfter
<1>3. 0 \in 0 .. Len(D) /\ \A n \in 1 .. Len(D) : n \in 0 .. Len(D) /\ n # 0
  BY <1>1
<1>4. f[0] = [tracks |-> q, open |-> DOMAIN q, new |-> <<>>]
  BY <1>2, <1>3
<1>5. ASSUME NEW n \in 1 .. Len(D)
      PROVE  f[n] = Claim(f[n - 1], D[n], k)
  BY <1>2, <1>3
<1>6. QED
  BY <1>1, <1>4, <1>5

LEMMA AssociateSound ==
    ASSUME NEW q \in Seq(Trk), NEW D \in Seq(Detection), NEW k
    PROVE  Sound(Associate(q, D, k))
<1>1. PICK f : IsAfter(f, q, D, k) /\ Associate(q, D, k) = f[Len(D)]
  BY AfterMeans
<1>2. /\ Len(D) \in Nat /\ DOMAIN D = 1 .. Len(D)
      /\ f[0] = [tracks |-> q, open |-> DOMAIN q, new |-> <<>>]
      /\ \A n \in 1 .. Len(D) : f[n] = Claim(f[n - 1], D[n], k)
  BY <1>1, AfterSteps
<1> DEFINE T == {n \in 0 .. Len(D) : Sound(f[n])}
<1>3. 0 \in T
  <2>1. f[0].tracks = q /\ f[0].open = DOMAIN q /\ f[0].new = <<>> /\ 0 \in 0 .. Len(D)
    BY <1>2
  <2>2. Sound(f[0])
    BY <2>1 DEF Sound
  <2>3. QED
    BY <2>1, <2>2
<1>4. ASSUME NEW n \in 1 .. Len(D), n - 1 \in T
      PROVE  n \in T
  <2>1. Sound(f[n - 1]) /\ D[n] \in Detection /\ n \in 0 .. Len(D)
    BY <1>2, <1>4
  <2>2. QED
    BY <1>2, <2>1, ClaimIs
<1>5. Len(D) \in T
  <2>1. Len(D) \in 0 .. Len(D)
    BY <1>2
  <2> HIDE DEF T
  <2>2. QED
    BY <1>2, <1>3, <1>4, <2>1, CountsUp
<1>6. QED
  BY <1>1, <1>5

\* A visitor's track goes on.
GoesOn(q, t, D, v, o) ==
    /\ \A i \in DOMAIN t.new : t.new[i] # v
    /\ o \in DOMAIN t.tracks /\ t.tracks[o].who = v /\ t.tracks[o].age = q[o].age
    /\ t.tracks[o].idle = IF FoundIn(D, v, Len(D)) THEN 0 ELSE q[o].idle

\* A visitor's track begins when they are found.
Begins(t, D, v) ==
    /\ \A i, j \in DOMAIN t.new : t.new[i] = v /\ t.new[j] = v => i = j
    /\ IF FoundIn(D, v, Len(D))
       THEN \E o \in DOMAIN t.tracks : t.tracks[o].who = v /\ t.tracks[o].age = 0 /\ t.tracks[o].idle = 0
       ELSE /\ \A i \in DOMAIN t.tracks : t.tracks[i].who # v
            /\ \A i \in DOMAIN t.new : t.new[i] # v

\* Whoever is followed is followed on, in the same track, and found in it.
LEMMA FollowedOn ==
    ASSUME NEW v, NEW Own, NEW Others, NEW k, Ring(Own, Others, k),
           NEW q \in Seq(Trk), One(q, v), Fenced(q, v, Own, Others),
           NEW D \in Seq(Detection), Placed(D, v, Own, Others), ~ Twice(D, v),
           NEW o \in DOMAIN q, q[o].who = v
    PROVE  /\ Follower(Associate(q, D, k), v, Own, Others)
           /\ GoesOn(q, Associate(q, D, k), D, v, o)
<1>1. PICK f : IsAfter(f, q, D, k) /\ Associate(q, D, k) = f[Len(D)]
  BY AfterMeans
<1>2. /\ Len(D) \in Nat /\ DOMAIN D = 1 .. Len(D)
      /\ f[0] = [tracks |-> q, open |-> DOMAIN q, new |-> <<>>]
      /\ \A n \in 1 .. Len(D) : f[n] = Claim(f[n - 1], D[n], k)
  BY <1>1, AfterSteps
<1> DEFINE Right(s, n) ==
               /\ Follower(s, v, Own, Others)
               /\ \A i \in DOMAIN s.new : s.new[i] # v
               /\ o \in DOMAIN s.tracks /\ s.tracks[o].who = v /\ s.tracks[o].age = q[o].age
               /\ IF FoundIn(D, v, n) THEN s.tracks[o].idle = 0
                  ELSE s.tracks[o].idle = q[o].idle /\ o \in s.open
           T == {n \in 0 .. Len(D) : Right(f[n], n)}
<1>3. 0 \in T
  <2>1. f[0].tracks = q /\ f[0].open = DOMAIN q /\ f[0].new = <<>> /\ 0 \in 0 .. Len(D)
    BY <1>2
  <2>2. Follower(f[0], v, Own, Others)
    BY <2>1 DEF Follower, Sound
  <2>3. ~ FoundIn(D, v, 0)
    BY DEF FoundIn
  <2>4. \A i \in DOMAIN f[0].new : f[0].new[i] # v
    BY <2>1
  <2>5. QED
    BY <2>1, <2>2, <2>3, <2>4
<1>4. ASSUME NEW n \in 1 .. Len(D), n - 1 \in T
      PROVE  n \in T
  <2> DEFINE s == f[n - 1]
             t == f[n]
  <2>1. Right(s, n - 1) /\ t = Claim(s, D[n], k) /\ D[n] \in Detection /\ n \in 0 .. Len(D)
    BY <1>2, <1>4
  <2>2. D[n].place \in IF D[n].who = v THEN Own ELSE Others
    BY <1>2 DEF Placed
  <2>3. FoundIn(D, v, n) <=> FoundIn(D, v, n - 1) \/ D[n].who = v
    <3>1. \A i \in 1 .. n : i \in 1 .. (n - 1) \/ i = n
      OBVIOUS
    <3>2. \A i \in 1 .. (n - 1) : i \in 1 .. n
      OBVIOUS
    <3>3. n \in 1 .. n
      OBVIOUS
    <3>4. QED
      BY <3>1, <3>2, <3>3 DEF FoundIn
  <2> HIDE DEF s, t
  <2>4. CASE D[n].who # v
    <3>1. Follower(t, v, Own, Others) /\ Passed(s, t, v)
      BY <2>1, <2>2, <2>4, OthersPass
    <3>2. /\ o \in DOMAIN t.tracks /\ t.tracks[o] = s.tracks[o] /\ (o \in s.open => o \in t.open)
          /\ \A i \in DOMAIN t.new : t.new[i] # v
      BY <2>1, <3>1 DEF Passed
    <3>3. Right(t, n)
      BY <2>1, <2>3, <2>4, <3>1, <3>2
    <3> HIDE DEF Right
    <3>4. QED
      BY <2>1, <3>3 DEF t
  <2>5. CASE D[n].who = v
    <3>1. ~ FoundIn(D, v, n - 1)
      <4>1. \A i \in 1 .. (n - 1) : i \in DOMAIN D /\ n \in DOMAIN D /\ i # n
        BY <1>2
      <4>2. QED
        BY <2>5, <4>1 DEF FoundIn, Twice
    <3>2. o \in s.open
      BY <2>1, <3>1
    <3>3. Follower(t, v, Own, Others) /\ Continued(s, D[n], t, o)
      BY <2>1, <2>2, <2>5, <3>2, OwnContinues
    <3>4. /\ DOMAIN t.tracks = DOMAIN s.tracks /\ t.tracks[o].who = v
          /\ t.tracks[o].age = q[o].age /\ t.tracks[o].idle = 0 /\ t.new = s.new
      BY <2>1, <3>3 DEF Continued
    <3>5. Right(t, n)
      BY <2>1, <2>3, <2>5, <3>3, <3>4
    <3> HIDE DEF Right
    <3>6. QED
      BY <2>1, <3>5 DEF t
  <2>6. QED
    BY <2>4, <2>5
<1>5. Len(D) \in T
  <2>1. Len(D) \in 0 .. Len(D)
    BY <1>2
  <2> HIDE DEF T
  <2>2. QED
    BY <1>2, <1>3, <1>4, <2>1, CountsUp
<1>6. QED
  BY <1>1, <1>5 DEF GoesOn

\* Whom nothing follows gets a track and a row to write if they are found, and no
\* second one; else neither.
LEMMA BegunFor ==
    ASSUME NEW v, NEW Own, NEW Others, NEW k, Ring(Own, Others, k),
           NEW q \in Seq(Trk), Fenced(q, v, Own, Others),
           NEW D \in Seq(Detection), Placed(D, v, Own, Others), ~ Twice(D, v),
           \A i \in DOMAIN q : q[i].who # v
    PROVE  /\ Follower(Associate(q, D, k), v, Own, Others)
           /\ Begins(Associate(q, D, k), D, v)
<1>1. PICK f : IsAfter(f, q, D, k) /\ Associate(q, D, k) = f[Len(D)]
  BY AfterMeans
<1>2. /\ Len(D) \in Nat /\ DOMAIN D = 1 .. Len(D)
      /\ f[0] = [tracks |-> q, open |-> DOMAIN q, new |-> <<>>]
      /\ \A n \in 1 .. Len(D) : f[n] = Claim(f[n - 1], D[n], k)
  BY <1>1, AfterSteps
<1> DEFINE AtMostOnce(s) == \A i, j \in DOMAIN s.new : s.new[i] = v /\ s.new[j] = v => i = j
           Newborn(s) == \E o \in DOMAIN s.tracks : s.tracks[o].who = v /\ s.tracks[o].age = 0 /\ s.tracks[o].idle = 0
           Unheard(s) == /\ \A i \in DOMAIN s.tracks : s.tracks[i].who # v
                       /\ \A i \in DOMAIN s.new : s.new[i] # v
           Right(s, n) == /\ Follower(s, v, Own, Others) /\ AtMostOnce(s)
                          /\ IF FoundIn(D, v, n) THEN Newborn(s) ELSE Unheard(s)
           T == {n \in 0 .. Len(D) : Right(f[n], n)}
<1>3. 0 \in T
  <2>1. f[0].tracks = q /\ f[0].open = DOMAIN q /\ f[0].new = <<>> /\ 0 \in 0 .. Len(D)
    BY <1>2
  <2>2. Follower(f[0], v, Own, Others)
    BY <2>1 DEF Follower, Sound, One
  <2>3. ~ FoundIn(D, v, 0)
    BY DEF FoundIn
  <2>4. AtMostOnce(f[0]) /\ Unheard(f[0])
    BY <2>1
  <2> HIDE DEF AtMostOnce, Newborn, Unheard
  <2>5. QED
    BY <2>1, <2>2, <2>3, <2>4
<1>4. ASSUME NEW n \in 1 .. Len(D), n - 1 \in T
      PROVE  n \in T
  <2> DEFINE s == f[n - 1]
             t == f[n]
  <2>1. Right(s, n - 1) /\ t = Claim(s, D[n], k) /\ D[n] \in Detection /\ n \in 0 .. Len(D)
    BY <1>2, <1>4
  <2>2. D[n].place \in IF D[n].who = v THEN Own ELSE Others
    BY <1>2 DEF Placed
  <2>3. FoundIn(D, v, n) <=> FoundIn(D, v, n - 1) \/ D[n].who = v
    <3>1. \A i \in 1 .. n : i \in 1 .. (n - 1) \/ i = n
      OBVIOUS
    <3>2. \A i \in 1 .. (n - 1) : i \in 1 .. n
      OBVIOUS
    <3>3. n \in 1 .. n
      OBVIOUS
    <3>4. QED
      BY <3>1, <3>2, <3>3 DEF FoundIn
  <2> HIDE DEF s, t
  <2>4. CASE D[n].who # v
    <3>1. Follower(t, v, Own, Others) /\ Passed(s, t, v)
      BY <2>1, <2>2, <2>4, OthersPass
    <3>2. AtMostOnce(t)
      BY <2>1, <3>1 DEF Passed
    <3>3. (Newborn(s) => Newborn(t)) /\ (Unheard(s) => Unheard(t))
      BY <3>1 DEF Passed
    <3> HIDE DEF AtMostOnce, Newborn, Unheard
    <3>4. Right(t, n)
      BY <2>1, <2>3, <2>4, <3>1, <3>2, <3>3
    <3> HIDE DEF Right
    <3>5. QED
      BY <2>1, <3>4 DEF t
  <2>5. CASE D[n].who = v
    <3>1. ~ FoundIn(D, v, n - 1)
      <4>1. \A i \in 1 .. (n - 1) : i \in DOMAIN D /\ n \in DOMAIN D /\ i # n
        BY <1>2
      <4>2. QED
        BY <2>5, <4>1 DEF FoundIn, Twice
    <3>2. Unheard(s) /\ Follower(s, v, Own, Others)
      <4> HIDE DEF AtMostOnce, Newborn, Unheard
      <4>1. QED
        BY <2>1, <3>1
    <3>3. Follower(t, v, Own, Others) /\ Begun(s, D[n], t)
      BY <2>1, <2>2, <2>5, <3>2, OwnBegins
    <3>4. s.tracks \in Seq(Trk) /\ Len(s.tracks) \in Nat /\ s.new \in Seq(Visitor) /\ D[n].who \in Visitor
      BY <2>1, <3>2 DEF Follower, Sound, Detection
    <3>5. Newborn(t)
      <4>1. Len(s.tracks) + 1 \in DOMAIN t.tracks
        BY <3>3, <3>4 DEF Begun
      <4>2. t.tracks[Len(s.tracks) + 1] = [who |-> v, box |-> D[n].place, idle |-> 0, age |-> 0]
        BY <2>5, <3>3 DEF Begun
      <4>3. QED
        BY <4>1, <4>2
    <3>6. AtMostOnce(t)
      <4>1. t.new = Append(s.new, v)
        BY <2>5, <3>3 DEF Begun
      <4>2. \A i \in DOMAIN t.new : i = Len(s.new) + 1 \/ (i \in DOMAIN s.new /\ t.new[i] = s.new[i])
        BY <2>5, <3>4, <4>1, AppendIs
      <4>3. QED
        BY <3>2, <4>2
    <3> HIDE DEF AtMostOnce, Newborn, Unheard
    <3>7. Right(t, n)
      BY <2>3, <2>5, <3>3, <3>5, <3>6
    <3> HIDE DEF Right
    <3>8. QED
      BY <2>1, <3>7 DEF t
  <2>6. QED
    BY <2>4, <2>5
<1>5. Len(D) \in T
  <2>1. Len(D) \in 0 .. Len(D)
    BY <1>2
  <2> HIDE DEF T
  <2>2. QED
    BY <1>2, <1>3, <1>4, <2>1, CountsUp
<1>6. QED
  BY <1>1, <1>5 DEF Begins

Frames == [Visitor -> Place \cup {None}]

LEMMA DetectionsAre ==
    ASSUME held \in Frames, NEW D \in Detections
    PROVE  /\ D \in Seq(Detection)
           /\ \A i \in DOMAIN D : D[i].place = held[D[i].who]
           /\ \A v : ~ Twice(D, v)
           /\ \A v \in Visitor : FoundIn(D, v, Len(D)) <=> held[v] # None
<1> DEFINE S == {v \in Visitor : held[v] # None}
           N == Cardinality(S)
<1>1. PICK order \in SetToSeqs(S) :
        D = [i \in DOMAIN order |-> [who |-> order[i], place |-> held[order[i]]]]
  BY DEF Detections
<1>2. IsFiniteSet(S)
  BY VisitorAssumption, FS_Subset
<1>3. /\ N \in Nat /\ order \in [1 .. N -> S]
      /\ \A s \in S : \E i \in 1 .. N : order[i] = s /\ \A j \in 1 .. N : order[j] = s => j = i
  <2> HIDE DEF S
  <2>1. QED
    BY <1>2, PermutationNamesOnce
<1> HIDE DEF N
<1>4. \A i \in 1 .. N : order[i] \in Visitor /\ held[order[i]] \in Place /\ order[i] \in S
  BY <1>3 DEF Frames
<1>5. D = [i \in 1 .. N |-> [who |-> order[i], place |-> held[order[i]]]]
  BY <1>1, <1>3
<1>6. \A i \in 1 .. N : /\ D[i] \in Detection /\ D[i].who = order[i]
                        /\ D[i].place = held[order[i]]
  BY <1>4, <1>5 DEF Detection
<1>7. D \in Seq(Detection) /\ DOMAIN D = 1 .. N /\ Len(D) = N
  <2>1. D \in [1 .. N -> Detection]
    BY <1>5, <1>6
  <2>2. QED
    BY <1>3, <2>1
<1>8. \A i \in DOMAIN D : D[i].place = held[D[i].who]
  BY <1>6, <1>7
<1>9. \A v : ~ Twice(D, v)
  BY <1>3, <1>4, <1>6, <1>7 DEF Twice
<1>10. \A v \in Visitor : FoundIn(D, v, Len(D)) <=> held[v] # None
  BY <1>3, <1>4, <1>6, <1>7 DEF FoundIn
<1>11. QED
  BY <1>7, <1>8, <1>9, <1>10

(***************************************************************************)
(* Every variable has its type, and rows are left to write exactly while   *)
(* the analyzer is writing rows.                                           *)
(***************************************************************************)
Visit == [clear : BOOLEAN, rows : 0 .. 2, stay : Nat]

Pictures ==
    /\ where \in Frames /\ held \in Frames
    /\ slot \in Frames \cup {None} /\ fresh \in BOOLEAN /\ (fresh => slot # None)

Trail ==
    /\ reader \in {"open", "read", "ended"}
    /\ analyzer \in {"wait", "pace", "detect", "emit", "publish", "ended"}
    /\ since \in 0 .. ForceEvery
    /\ tracks \in Seq(Trk) /\ todo \in Seq(Visitor)
    /\ todo # <<>> <=> analyzer \in {"emit", "publish"}

Settings == enabled \in BOOLEAN /\ knobs \in Knobs

Story == visit \in [Visitor -> Visit]

Typed == Pictures /\ Trail /\ Settings /\ Story

LEMMA UpsetIs ==
    ASSUME NEW x \in Visit
    PROVE  Upset(x) \in Visit /\ Upset(x).clear = FALSE
  BY DEF Visit, Upset

LEMMA DisturbedIs ==
    ASSUME Story, NEW S
    PROVE  /\ Disturbed(S) \in [Visitor -> Visit]
           /\ \A v \in Visitor : Disturbed(S)[v].clear => visit[v].clear
           /\ \A v \in S \cap InView : Disturbed(S)[v].clear = FALSE
           /\ \A v \in Visitor : Disturbed(S)[v].clear => Disturbed(S)[v] = visit[v]
<1>1. \A v \in Visitor : visit[v] \in Visit
  BY DEF Story
<1>2. Disturbed(S) = [v \in Visitor |-> IF v \in S \cap InView THEN Upset(visit[v]) ELSE visit[v]]
  BY DEF Disturbed
<1>3. \A v \in Visitor : Upset(visit[v]) \in Visit /\ Upset(visit[v]).clear = FALSE
  BY <1>1, UpsetIs
<1>4. InView \subseteq Visitor
  BY DEF InView
<1>5. QED
  BY <1>1, <1>2, <1>3, <1>4

LEMMA ClearIs ==
    ASSUME Story, NEW S, NEW v \in Visitor, Disturbed(S)[v].clear
    PROVE  Disturbed(S)[v] = visit[v] /\ visit[v].clear /\ (v \in InView => v \notin S)
  BY DisturbedIs

LEMMA NewVisitIs ==
    ASSUME NEW b \in BOOLEAN
    PROVE  /\ NewVisit \in Visit
           /\ [NewVisit EXCEPT !.clear = b] = [clear |-> b, rows |-> 0, stay |-> 0]
           /\ [NewVisit EXCEPT !.clear = b] \in Visit
  BY DEF NewVisit, Visit

\* How a unit of time changes a track.
Aged(r) == [r EXCEPT !.idle = UpTo(@, MaxIdle + 1), !.age = UpTo(@, MaxCap + 1)]

LEMMA UpToIs ==
    ASSUME NEW m \in Nat, NEW n \in 0 .. m
    PROVE  UpTo(n, m) \in 0 .. m /\ UpTo(n, m) <= n + 1 /\ (n < m => UpTo(n, m) = n + 1)
  BY DEF UpTo

LEMMA TrackAges ==
    ASSUME NEW r \in Trk
    PROVE  /\ Aged(r) \in Trk
           /\ Aged(r).who = r.who /\ Aged(r).box = r.box
           /\ Aged(r).idle <= r.idle + 1 /\ Aged(r).age <= r.age + 1
<1>1. /\ r.who \in Visitor /\ r.box \in Place
      /\ r.idle \in 0 .. MaxIdle + 1 /\ r.age \in 0 .. MaxCap + 1
  BY DEF Trk
<1>2. MaxIdle + 1 \in Nat /\ MaxCap + 1 \in Nat
  BY Limits
<1>3. /\ UpTo(r.idle, MaxIdle + 1) \in 0 .. MaxIdle + 1 /\ UpTo(r.idle, MaxIdle + 1) <= r.idle + 1
      /\ UpTo(r.age, MaxCap + 1) \in 0 .. MaxCap + 1 /\ UpTo(r.age, MaxCap + 1) <= r.age + 1
  BY <1>1, <1>2, UpToIs
<1> DEFINE i == UpTo(r.idle, MaxIdle + 1)
           a == UpTo(r.age, MaxCap + 1)
           x == [r EXCEPT !.idle = i]
<1>4. x \in Trk /\ x.who = r.who /\ x.box = r.box /\ x.age = r.age /\ x.idle = i
  <2> HIDE DEF i
  <2>1. i \in 0 .. MaxIdle + 1
    BY <1>3 DEF i
  <2>2. QED
    BY <2>1 DEF Trk
<1>5. Aged(r) = [x EXCEPT !.age = a]
  BY DEF Aged
<1> HIDE DEF x
<1>6. a \in 0 .. MaxCap + 1 /\ a <= r.age + 1 /\ i <= r.idle + 1
  BY <1>3
<1> HIDE DEF i, a
<1>7. /\ [x EXCEPT !.age = a] \in Trk
      /\ [x EXCEPT !.age = a].who = x.who /\ [x EXCEPT !.age = a].box = x.box
      /\ [x EXCEPT !.age = a].idle = x.idle /\ [x EXCEPT !.age = a].age = a
  BY <1>4, <1>6 DEF Trk
<1>8. QED
  BY <1>4, <1>5, <1>6, <1>7

\* A unit of time, seen from one visitor.
Endured(v) ==
    visit[v].clear /\ enabled /\ visit'[v].rows = visit[v].rows
    /\ visit'[v].stay = UpTo(visit[v].stay, Horizon(visit[v]))

LEMMA TimeIs ==
    ASSUME Typed, NEW c \in BOOLEAN, TimePasses(c)
    PROVE  /\ since' \in 0 .. ForceEvery
           /\ since' <= since + 1 /\ (since < ForceEvery => since' = since + 1)
           /\ tracks' \in Seq(Trk) /\ DOMAIN tracks' = DOMAIN tracks
           /\ \A i \in DOMAIN tracks : /\ tracks'[i].who = tracks[i].who /\ tracks'[i].box = tracks[i].box
                                       /\ tracks'[i].idle <= tracks[i].idle + 1
                                       /\ tracks'[i].age <= tracks[i].age + 1
           /\ visit' \in [Visitor -> Visit]
           /\ \A v \in InView : visit'[v].clear => c /\ Endured(v)
<1>1. /\ tracks \in Seq(Trk) /\ since \in 0 .. ForceEvery /\ visit \in [Visitor -> Visit]
      /\ ForceEvery \in Nat
  BY PaceAssumption DEF Typed, Trail, Story
<1>2. since' = UpTo(since, ForceEvery)
  BY DEF TimePasses
<1>3. tracks' = [i \in DOMAIN tracks |-> Aged(tracks[i])]
  BY DEF TimePasses, Aged
<1>4. /\ tracks' \in Seq(Trk) /\ DOMAIN tracks' = DOMAIN tracks
      /\ \A i \in DOMAIN tracks : /\ tracks'[i].who = tracks[i].who /\ tracks'[i].box = tracks[i].box
                                  /\ tracks'[i].idle <= tracks[i].idle + 1
                                  /\ tracks'[i].age <= tracks[i].age + 1
  <2>1. DOMAIN tracks = 1 .. Len(tracks) /\ Len(tracks) \in Nat
    BY <1>1
  <2>2. \A i \in DOMAIN tracks : tracks[i] \in Trk
    BY <1>1
  <2>3. \A i \in DOMAIN tracks : Aged(tracks[i]) \in Trk
    BY <2>2, TrackAges
  <2>4. tracks' \in [1 .. Len(tracks) -> Trk]
    BY <1>3, <2>1, <2>3
  <2>5. \A i \in DOMAIN tracks : tracks'[i] = Aged(tracks[i])
    BY <1>3
  <2>6. QED
    BY <2>1, <2>2, <2>4, <2>5, TrackAges
<1>5. /\ visit' \in [Visitor -> Visit]
      /\ \A v \in InView : visit'[v].clear => c /\ Endured(v)
  <2> DEFINE Calm(v) ==
               /\ c /\ enabled
               /\ \A u \in Visitor \ {v} :
                    \A b \in {where[u], Seen(slot, u), held[u]} \ {None} : Iou(where[v], b) = 0
             On(x) == [x EXCEPT !.stay = UpTo(@, Horizon(x))]
  <2>1. visit' = [v \in Visitor |-> IF v \notin InView THEN visit[v]
                                    ELSE IF Calm(v) THEN On(visit[v]) ELSE Upset(visit[v])]
    BY DEF TimePasses
  <2>2. ASSUME NEW x \in Visit
        PROVE  /\ On(x) \in Visit /\ On(x).rows = x.rows /\ On(x).clear = x.clear
               /\ On(x).stay = UpTo(x.stay, Horizon(x))
    <3>1. UpTo(x.stay, Horizon(x)) \in Nat
      BY DEF UpTo, Visit
    <3> DEFINE h == UpTo(x.stay, Horizon(x))
    <3> HIDE DEF h
    <3>2. [x EXCEPT !.stay = h] \in Visit /\ [x EXCEPT !.stay = h].rows = x.rows
          /\ [x EXCEPT !.stay = h].clear = x.clear /\ [x EXCEPT !.stay = h].stay = h
      BY <3>1 DEF Visit, h
    <3>3. QED
      BY <3>2 DEF h
  <2> HIDE DEF On
  <2>3. ASSUME NEW v \in Visitor
        PROVE  visit'[v] \in Visit /\ (v \in InView /\ visit'[v].clear => c /\ Endured(v))
    <3>1. visit[v] \in Visit
      BY <1>1
    <3>2. Calm(v) => c /\ enabled
      OBVIOUS
    <3> HIDE DEF Calm
    <3>3. visit'[v] = IF v \notin InView THEN visit[v]
                      ELSE IF Calm(v) THEN On(visit[v]) ELSE Upset(visit[v])
      BY <2>1
    <3>4. visit'[v] \in Visit
      BY <2>2, <3>1, <3>3, UpsetIs
    <3>5. ASSUME v \in InView, visit'[v].clear
          PROVE  c /\ Endured(v)
      <4>1. Calm(v)
        BY <3>1, <3>3, <3>5, UpsetIs
      <4>2. visit'[v] = On(visit[v])
        BY <3>3, <3>5, <4>1
      <4>3. QED
        BY <2>2, <3>1, <3>2, <3>5, <4>1, <4>2 DEF Endured
    <3>6. QED
      BY <3>4, <3>5
  <2> HIDE DEF Calm
  <2>4. visit' = [v \in Visitor |-> visit'[v]]
    BY <2>1
  <2>5. InView \subseteq Visitor
    BY DEF InView
  <2>6. QED
    BY <2>3, <2>4, <2>5
<1>6. since' \in 0 .. ForceEvery /\ since' <= since + 1 /\ (since < ForceEvery => since' = since + 1)
  BY <1>1, <1>2, UpToIs
<1>7. QED
  BY <1>4, <1>5, <1>6

LEMMA KeptTracks ==
    ASSUME Typed
    PROVE  Kept(tracks, knobs) \in Seq(Trk)
  BY KeptIs DEF Typed, Trail

LEMMA FollowTyped ==
    ASSUME Typed, NEW D \in Seq(Detection)
    PROVE  /\ Associate(Kept(tracks, knobs), D, knobs).tracks \in Seq(Trk)
           /\ Associate(Kept(tracks, knobs), D, knobs).new \in Seq(Visitor)
  BY KeptTracks, AssociateSound DEF Sound

LEMMA ArriveTyped ==
    ASSUME Typed, NEW v \in Visitor, NEW place \in Place, Arrive(v, place)
    PROVE  Typed'
<1>1. /\ where' = [where EXCEPT ![v] = place]
      /\ visit' = [Disturbed(Beset(v, place)) EXCEPT
                      ![v] = [NewVisit EXCEPT !.clear = (Beset(v, place) = {})]]
      /\ UNCHANGED <<settings, threads, frames, tracking>>
  BY DEF Arrive
<1>2. Pictures'
  BY <1>1 DEF Typed, Pictures, Frames, frames
<1>3. Trail' /\ Settings'
  BY <1>1 DEF Typed, Trail, Settings, threads, tracking, settings
<1>4. Story'
  <2> DEFINE b == (Beset(v, place) = {})
  <2>1. b \in BOOLEAN
    OBVIOUS
  <2> HIDE DEF b
  <2>2. [NewVisit EXCEPT !.clear = b] \in Visit
    BY <2>1, NewVisitIs
  <2>3. Disturbed(Beset(v, place)) \in [Visitor -> Visit]
    BY DisturbedIs DEF Typed
  <2>4. QED
    BY <1>1, <2>2, <2>3 DEF Story, b
<1>5. QED
  BY <1>2, <1>3, <1>4 DEF Typed

LEMMA MoveTyped ==
    ASSUME Typed, NEW v \in Visitor, NEW place \in Place, Move(v, place)
    PROVE  Typed'
<1>1. /\ where' = [where EXCEPT ![v] = place]
      /\ \E S : visit' = Disturbed(S)
      /\ UNCHANGED <<settings, threads, frames, tracking>>
  BY DEF Move
<1>2. Pictures'
  BY <1>1 DEF Typed, Pictures, Frames, frames
<1>3. Trail' /\ Settings'
  BY <1>1 DEF Typed, Trail, Settings, threads, tracking, settings
<1>4. Story'
  BY <1>1, DisturbedIs DEF Typed, Story
<1>5. QED
  BY <1>2, <1>3, <1>4 DEF Typed

LEMMA LeaveTyped ==
    ASSUME Typed, NEW v \in Visitor, Leave(v)
    PROVE  Typed'
<1>1. /\ where' = [where EXCEPT ![v] = None] /\ visit' = [visit EXCEPT ![v] = NewVisit]
      /\ UNCHANGED <<settings, threads, frames, tracking>>
  BY DEF Leave
<1>2. Pictures'
  BY <1>1 DEF Typed, Pictures, Frames, frames
<1>3. Trail' /\ Settings'
  BY <1>1 DEF Typed, Trail, Settings, threads, tracking, settings
<1>4. Story'
  BY <1>1 DEF Typed, Story, NewVisit, Visit
<1>5. QED
  BY <1>2, <1>3, <1>4 DEF Typed

LEMMA ReadingTyped ==
    ASSUME Typed, Reading
    PROVE  Typed'
<1>1. Settings' /\ Story'
  BY DEF Typed, Settings, Story, Reading, OpenStream, ReadFrame, ReaderEnds, settings
<1>2. Pictures'
  <2>1. /\ where' = where /\ held' = held
        /\ (slot' = slot /\ fresh' = fresh) \/ (slot' = where /\ fresh' = TRUE)
    BY DEF Reading, OpenStream, ReadFrame, ReaderEnds, frames
  <2>2. where # None
    BY NoneAssumption DEF Typed, Pictures, Frames
  <2>3. CASE slot' = slot /\ fresh' = fresh
    BY <2>1, <2>3 DEF Typed, Pictures
  <2>4. CASE slot' = where /\ fresh' = TRUE
    BY <2>1, <2>2, <2>4 DEF Typed, Pictures
  <2>5. QED
    BY <2>1, <2>3, <2>4
<1>3. Trail'
  BY DEF Typed, Trail, Reading, OpenStream, ReadFrame, ReaderEnds, tracking
<1>4. QED
  BY <1>1, <1>2, <1>3 DEF Typed

LEMMA LookTyped ==
    ASSUME Typed, LookAtFrame
    PROVE  Typed'
<1>1. Settings' /\ Story' /\ Trail'
  BY DEF Typed, Settings, Story, Trail, LookAtFrame, settings, tracking
<1>2. Pictures'
  BY DEF Typed, Pictures, LookAtFrame
<1>3. QED
  BY <1>1, <1>2 DEF Typed

LEMMA TimeTyped ==
    ASSUME Typed, NEW c \in BOOLEAN, TimePasses(c), todo = <<>>, todo' = todo,
           analyzer' \in {"wait", "detect"}, reader' = reader,
           UNCHANGED <<where, settings, frames>>
    PROVE  Typed'
<1>1. Pictures' /\ Settings'
  BY DEF Typed, Pictures, Settings, settings, frames
<1>2. Trail' /\ Story'
  BY TimeIs DEF Typed, Trail, Story
<1>3. QED
  BY <1>1, <1>2 DEF Typed

LEMMA EmptyTodo ==
    ASSUME Typed, analyzer \notin {"emit", "publish"}
    PROVE  todo = <<>>
  BY DEF Typed, Trail

LEMMA PaceTyped ==
    ASSUME Typed, Pace
    PROVE  Typed'
<1>1. todo = <<>>
  BY EmptyTodo DEF Pace
<1>2. QED
  BY <1>1, TimeTyped DEF Pace, settings, frames

LEMMA MissingTyped ==
    ASSUME Typed, FramesMissing
    PROVE  Typed'
<1>1. todo = <<>>
  BY EmptyTodo DEF FramesMissing
<1>2. analyzer' = "wait" /\ reader' = reader
  BY DEF FramesMissing, threads
<1>3. QED
  BY <1>1, <1>2, TimeTyped DEF FramesMissing, settings, frames

\* What the analyzer's look at a frame leaves, found or not.
LEMMA FollowKeeps ==
    ASSUME Typed, NEW D \in Seq(Detection),
           tracks' = Associate(Kept(tracks, knobs), D, knobs).tracks,
           \/ todo' = Associate(Kept(tracks, knobs), D, knobs).new /\ Onward(todo')
           \/ todo' = <<>> /\ analyzer' \in {"wait", "ended"},
           since' \in 0 .. ForceEvery, reader' = reader
    PROVE  Trail'
<1>1. tracks' \in Seq(Trk) /\ todo' \in Seq(Visitor)
  <2>1. <<>> \in Seq(Visitor)
    OBVIOUS
  <2>2. QED
    BY <2>1, FollowTyped
<1>2. /\ analyzer' \in {"wait", "emit", "ended"}
      /\ todo' # <<>> <=> analyzer' \in {"emit", "publish"}
  BY DEF Onward
<1>3. QED
  BY <1>1, <1>2 DEF Typed, Trail

LEMMA NoDetections == <<>> \in Seq(Detection)
  OBVIOUS

LEMMA AnalyzeTyped ==
    ASSUME Typed, AnalyzeFrame
    PROVE  Typed'
<1>1. Pictures' /\ Settings' /\ Story'
  BY DEF Typed, Pictures, Settings, Story, AnalyzeFrame, settings, frames
<1>2. PICK looks \in BOOLEAN :
        /\ \E detections \in IF looks /\ enabled THEN Detections ELSE {<<>>} : Follow(detections)
        /\ since' = IF looks THEN 0 ELSE since
  BY DEF AnalyzeFrame
<1>3. PICK D \in IF looks /\ enabled THEN Detections ELSE {<<>>} : Follow(D)
  BY <1>2
<1>4. held \in Frames
  BY DEF Typed, Pictures
<1>5. D \in Seq(Detection)
  BY <1>3, <1>4, DetectionsAre, NoDetections
<1>6. since' \in 0 .. ForceEvery
  BY <1>2, PaceAssumption DEF Typed, Trail
<1>7. Trail'
  BY <1>3, <1>5, <1>6, FollowKeeps DEF AnalyzeFrame, Follow
<1>8. QED
  BY <1>1, <1>7 DEF Typed

LEMMA NothingNew ==
    ASSUME NEW q, NEW k
    PROVE  Associate(q, <<>>, k).new = <<>>
<1> DEFINE D == <<>>
<1>1. D \in Seq(Detection) /\ Len(D) = 0
  OBVIOUS
<1> HIDE DEF D
<1>2. PICK f : IsAfter(f, q, D, k) /\ Associate(q, D, k) = f[Len(D)]
  BY <1>1, AfterMeans
<1>3. f = [i \in 0 .. Len(D) |-> IF i = 0 THEN [tracks |-> q, open |-> DOMAIN q, new |-> <<>>]
                                 ELSE Claim(f[i - 1], D[i], k)]
  BY <1>2 DEF IsAfter
<1>4. f[0] = [tracks |-> q, open |-> DOMAIN q, new |-> <<>>]
  BY <1>1, <1>3
<1>5. QED
  BY <1>1, <1>2, <1>4 DEF D

LEMMA DetectionFailsTyped ==
    ASSUME Typed, DetectionFails
    PROVE  Typed'
<1>1. Pictures' /\ Settings'
  BY DEF Typed, Pictures, Settings, DetectionFails, settings, frames
<1>2. Story'
  BY DisturbedIs DEF Typed, Story, DetectionFails
<1>3. /\ tracks' = Associate(Kept(tracks, knobs), <<>>, knobs).tracks
      /\ todo' = Associate(Kept(tracks, knobs), <<>>, knobs).new
      /\ analyzer' = "wait" /\ since' = since /\ reader' = reader
  BY DEF DetectionFails, Follow
<1>4. Associate(Kept(tracks, knobs), <<>>, knobs).new = <<>>
  BY NothingNew
<1>5. todo' = <<>>
  BY <1>3, <1>4
<1>6. Trail'
  BY <1>3, <1>5, NoDetections, FollowKeeps DEF Typed, Trail
<1>7. QED
  BY <1>1, <1>2, <1>6 DEF Typed

LEMMA MatchFailsTyped ==
    ASSUME Typed, MatchFails
    PROVE  Typed'
<1>1. Pictures' /\ Settings'
  BY DEF Typed, Pictures, Settings, MatchFails, settings, frames
<1>2. Story'
  BY DisturbedIs DEF Typed, Story, MatchFails
<1>3. PICK D \in Detections \ {<<>>} : tracks' = Associate(Kept(tracks, knobs), D, knobs).tracks
  BY DEF MatchFails
<1>4. D \in Seq(Detection)
  BY <1>3, DetectionsAre DEF Typed, Pictures
<1>5. todo' = <<>> /\ since' = 0 /\ analyzer' = "ended" /\ reader' = reader /\ 0 \in 0 .. ForceEvery
  BY PaceAssumption DEF MatchFails
<1>6. Trail'
  BY <1>3, <1>4, <1>5, FollowKeeps
<1>7. QED
  BY <1>1, <1>2, <1>6 DEF Typed

LEMMA TodoShrinks ==
    ASSUME Typed, analyzer \in {"emit", "publish"}
    PROVE  /\ Head(todo) \in Visitor /\ Tail(todo) \in Seq(Visitor)
           /\ Head(todo) = todo[1] /\ 1 \in DOMAIN todo
           /\ DOMAIN todo = 1 .. Len(todo) /\ Len(todo) \in Nat \ {0}
           /\ DOMAIN Tail(todo) = 1 .. (Len(todo) - 1)
           /\ \A i \in DOMAIN Tail(todo) : Tail(todo)[i] = todo[i + 1]
<1>1. todo \in Seq(Visitor) /\ todo # <<>>
  BY DEF Typed, Trail
<1>2. QED
  BY <1>1

LEMMA InsertTyped ==
    ASSUME Typed, InsertRow
    PROVE  Typed'
<1>1. Pictures' /\ Settings' /\ Trail'
  BY DEF Typed, Pictures, Settings, Trail, InsertRow, settings, frames, tracking
<1>2. Story'
  <2> DEFINE h == Head(todo)
  <2>1. h \in Visitor
    BY TodoShrinks DEF InsertRow
  <2> HIDE DEF h
  <2>2. visit' = [visit EXCEPT ![h].rows = IF h \in InView THEN UpTo(@, 2) ELSE @]
    BY DEF InsertRow, h
  <2> DEFINE r == IF h \in InView THEN UpTo(visit[h].rows, 2) ELSE visit[h].rows
  <2>3. visit' = [visit EXCEPT ![h] = [visit[h] EXCEPT !.rows = r]]
    BY <2>2
  <2>4. visit[h] \in Visit /\ visit \in [Visitor -> Visit]
    BY <2>1 DEF Typed, Story
  <2>5. r \in 0 .. 2
    <3>1. visit[h].rows \in 0 .. 2
      BY <2>4 DEF Visit
    <3>2. QED
      BY <3>1 DEF UpTo
  <2> HIDE DEF r
  <2>6. [visit[h] EXCEPT !.rows = r] \in Visit
    BY <2>4, <2>5 DEF Visit
  <2>7. QED
    BY <2>1, <2>3, <2>4, <2>6 DEF Story
<1>3. QED
  BY <1>1, <1>2 DEF Typed

LEMMA ShiftTyped ==
    ASSUME Typed, analyzer \in {"emit", "publish"}, todo' = Tail(todo), Onward(todo'),
           Story', UNCHANGED <<where, settings, reader, frames, since, tracks>>
    PROVE  Typed'
<1>1. Pictures' /\ Settings'
  BY DEF Typed, Pictures, Settings, settings, frames
<1>2. todo' \in Seq(Visitor) /\ (todo' # <<>> <=> analyzer' \in {"emit", "publish"})
      /\ analyzer' \in {"wait", "emit"}
  BY TodoShrinks DEF Onward
<1>3. Trail'
  BY <1>2 DEF Typed, Trail
<1>4. QED
  BY <1>1, <1>3 DEF Typed

LEMMA EmitTyped ==
    ASSUME Typed, EmitFails \/ Publish
    PROVE  Typed'
<1>1. /\ analyzer \in {"emit", "publish"} /\ todo' = Tail(todo) /\ Onward(todo')
      /\ UNCHANGED <<where, settings, reader, frames, since, tracks>>
  BY DEF EmitFails, Publish
<1>2. Story'
  BY DisturbedIs DEF Typed, Story, EmitFails, Publish
<1>3. QED
  BY <1>1, <1>2, ShiftTyped

LEMMA AnalyzerEndsTyped ==
    ASSUME Typed, AnalyzerEnds
    PROVE  Typed'
<1>1. Pictures' /\ Settings' /\ Story'
  BY DEF Typed, Pictures, Settings, Story, AnalyzerEnds, settings, frames
<1>2. Trail'
  BY DEF Typed, Trail, AnalyzerEnds, tracking
<1>3. QED
  BY <1>1, <1>2 DEF Typed

LEMMA ManagingTyped ==
    ASSUME Typed, Managing
    PROVE  Typed'
<1>1. CASE \E k \in Knobs : UpdateTracker(k)
  <2>1. PICK k \in Knobs : UpdateTracker(k)
    BY <1>1
  <2>2. Pictures' /\ Settings' /\ Trail'
    BY <2>1 DEF Typed, Pictures, Settings, Trail, UpdateTracker, frames, threads, tracking
  <2>3. Story'
    BY <2>1, DisturbedIs DEF Typed, Story, UpdateTracker
  <2>4. QED
    BY <2>2, <2>3 DEF Typed
<1>2. CASE UpdateDetectionEnabled
  <2>1. Pictures' /\ Settings' /\ Trail'
    BY <1>2 DEF Typed, Pictures, Settings, Trail, UpdateDetectionEnabled, frames, threads, tracking
  <2>2. Story'
    BY <1>2, DisturbedIs DEF Typed, Story, UpdateDetectionEnabled
  <2>3. QED
    BY <2>1, <2>2 DEF Typed
<1>3. CASE StopWorker
  BY <1>3 DEF Typed, Pictures, Settings, Trail, Story, StopWorker, settings, frames, tracking
<1>4. CASE StartWorker
  <2>1. Pictures'
    BY <1>4 DEF Typed, Pictures, StartWorker, Frames, Empty
  <2>2. Trail'
    BY <1>4, PaceAssumption DEF Typed, Trail, StartWorker
  <2>3. Settings'
    BY <1>4 DEF Typed, Settings, StartWorker, settings
  <2>4. Story'
    BY <1>4, DisturbedIs DEF Typed, Story, StartWorker
  <2>5. QED
    BY <2>1, <2>2, <2>3, <2>4 DEF Typed
<1>5. QED
  BY <1>1, <1>2, <1>3, <1>4 DEF Managing

LEMMA IdleTyped ==
    ASSUME Typed, UNCHANGED <<where, settings, threads, frames, tracking, visit>>
    PROVE  Typed'
  BY DEF Typed, Pictures, Settings, Trail, Story, settings, threads, frames, tracking

LEMMA StreamTyped ==
    ASSUME Typed, StreamFails \/ StreamRecovers
    PROVE  Typed'
  BY IdleTyped DEF StreamFails, StreamRecovers

LEMMA TypedStart == Init => Typed
<1> SUFFICES ASSUME Init PROVE Typed
  OBVIOUS
<1>1. Pictures
  BY DEF Init, Pictures, Frames, Empty
<1>2. Trail
  BY PaceAssumption DEF Init, Trail
<1>3. Settings
  BY DEF Init, Settings
<1>4. Story
  <2>1. visit = [v \in Visitor |-> [NewVisit EXCEPT !.clear =
           \A u \in Visitor \ {v} : None \notin {where[u], where[v]} => Iou(where[u], where[v]) = 0]]
    BY DEF Init
  <2> DEFINE C(v) == \A u \in Visitor \ {v} : None \notin {where[u], where[v]} => Iou(where[u], where[v]) = 0
  <2>2. \A v \in Visitor : C(v) \in BOOLEAN
    OBVIOUS
  <2>3. visit = [v \in Visitor |-> [NewVisit EXCEPT !.clear = C(v)]]
    BY <2>1
  <2> HIDE DEF C
  <2>4. \A v \in Visitor : [NewVisit EXCEPT !.clear = C(v)] \in Visit
    BY <2>2, NewVisitIs
  <2>5. QED
    BY <2>3, <2>4 DEF Story
<1>5. QED
  BY <1>1, <1>2, <1>3, <1>4 DEF Typed

LEMMA TypedStep == Typed /\ [Next]_vars => Typed'
<1> SUFFICES ASSUME Typed, [Next]_vars PROVE Typed'
  OBVIOUS
<1>1. CASE UNCHANGED vars
  BY <1>1, IdleTyped DEF vars
<1>2. CASE People
  BY <1>2, ArriveTyped, MoveTyped, LeaveTyped DEF People
<1>3. CASE Reading
  BY <1>3, ReadingTyped
<1>4. CASE Analyzing
  BY <1>4, LookTyped, PaceTyped, AnalyzeTyped, InsertTyped, EmitTyped, AnalyzerEndsTyped DEF Analyzing
<1>5. CASE Faults
  BY <1>5, StreamTyped, MissingTyped, DetectionFailsTyped, MatchFailsTyped, EmitTyped DEF Faults
<1>6. CASE Managing
  BY <1>6, ManagingTyped
<1>7. CASE Watching
  BY <1>7, IdleTyped DEF Watching
<1>8. QED
  BY <1>1, <1>2, <1>3, <1>4, <1>5, <1>6, <1>7 DEF Next

\* Every variable of the worker keeps its type, whatever is detected in whatever order:
\* rows are left to write exactly while the analyzer is writing rows, and a frame
\* announced as new is there (reader.py, tracker.py).
THEOREM WorkerTypes == Spec => []TypeOK
<1>1. Init => Typed
  BY TypedStart
<1>2. Spec => []Typed
  BY <1>1, TypedStep, PTL DEF Spec
<1>3. Typed /\ LiveInv => TypeOK
  BY DEF Typed, Pictures, Trail, Frames, Trk, LiveInv, Seated, Present, TypeOK
<1>4. QED
  BY <1>2, <1>3, LiveHolds, PTL

(***************************************************************************)
(* One row for one visit.                                                  *)
(***************************************************************************)
Follows(v) == \E i \in DOMAIN tracks : tracks[i].who = v

(* A face is in the frame the analyzer works on, and in the latest, from   *)
(* its first detection on.                                                 *)
Handed(v) ==
    /\ held[v] # None => slot # None /\ slot[v] # None
    /\ Follows(v) => held[v] # None

(* Nobody else's boxes overlap the visitor's, and those overlap each other *)
(* as much as is asked for.                                                *)
Apart(v) == \A u \in Visitor \ {v} : \A b \in Boxes(v), c \in Boxes(u) : Iou(b, c) = 0

Near(v) == \A b, c \in Boxes(v) : Iou(b, c) > 0 /\ Iou(b, c) >= knobs.iou

(* The rows still to insert for a visitor. *)
Unwritten(v) == {i \in DOMAIN todo : todo[i] = v /\ (analyzer = "publish" => i # 1)}

(* A track stands for a row written or about to be, never for two.  It is  *)
(* not older than the visit, and has been detected when anything was.      *)
Lone(v) ==
    /\ ~ Follows(v) => visit[v].rows = 0 /\ Unwritten(v) = {}
    /\ visit[v].rows <= 1 /\ (visit[v].rows = 1 => Unwritten(v) = {})
    /\ \A i, j \in Unwritten(v) : i = j
    /\ \A i \in DOMAIN tracks : tracks[i].who = v =>
          tracks[i].idle <= since /\ tracks[i].age <= visit[v].stay

(* Whoever is followed is detected again before the track idles out. *)
Soon(v) == Follows(v) => enabled /\ (analyzer # "detect" => since < ForceEvery)

\* A track outlives the pause between two detections.
Patient == \A k \in Knobs : ForceEvery <= k.idle

Young(v) == Patient /\ visit[v].clear /\ visit[v].stay <= MinCap

Watched(v) ==
    /\ Handed(v)
    /\ visit[v].clear => Apart(v) /\ Near(v) /\ One(tracks, v)
    /\ Young(v) => Lone(v) /\ Soon(v)

Single == \A v \in InView : Watched(v)

(***************************************************************************)
(* Where a visitor is seen.                                                *)
(***************************************************************************)
Spots(w, s, h, q, v) ==
    ({w[v], Seen(s, v), h[v]} \cup {t.box : t \in {u \in Range(q) : u.who = v}}) \ {None}

SeenAt(w, s, h, q, v, b) ==
    b # None /\ \/ b = w[v] \/ b = h[v] \/ (s # None /\ b = s[v])
                \/ \E i \in DOMAIN q : q[i].who = v /\ b = q[i].box

LEMMA SpotsAre ==
    ASSUME NEW w, NEW s, NEW h, NEW q, NEW v, NEW b
    PROVE  b \in Spots(w, s, h, q, v) <=> SeenAt(w, s, h, q, v, b)
<1> DEFINE X == {t.box : t \in {u \in Range(q) : u.who = v}}
<1>1. \A r : r \in Range(q) <=> \E i \in DOMAIN q : r = q[i]
  BY DEF Range
<1>2. \A x : x \in X <=> \E i \in DOMAIN q : q[i].who = v /\ x = q[i].box
  BY <1>1
<1> HIDE DEF X
<1>3. Seen(s, v) = IF s = None THEN None ELSE s[v]
  BY DEF Seen
<1>4. Spots(w, s, h, q, v) = ({w[v], Seen(s, v), h[v]} \cup X) \ {None}
  BY DEF Spots, X
<1>5. QED
  BY <1>2, <1>3, <1>4 DEF SeenAt

LEMMA PlacesAre ==
    ASSUME NEW w \in Frames, NEW s, s # None => s \in Frames, NEW h \in Frames, NEW q \in Seq(Trk),
           NEW v \in Visitor, NEW b, SeenAt(w, s, h, q, v, b)
    PROVE  b \in Place
<1>1. \A i \in DOMAIN q : q[i] \in Trk
  OBVIOUS
<1>2. \A i \in DOMAIN q : q[i].box \in Place
  BY <1>1 DEF Trk
<1>3. QED
  BY <1>2 DEF Frames, SeenAt

LEMMA BoxesAre ==
    ASSUME NEW v, NEW b
    PROVE  /\ b \in Boxes(v) <=> SeenAt(where, slot, held, tracks, v, b)
           /\ b \in Boxes(v)' <=> SeenAt(where', slot', held', tracks', v, b)
<1>1. Boxes(v) = Spots(where, slot, held, tracks, v) /\ Boxes(v)' = Spots(where', slot', held', tracks', v)
  BY DEF Boxes, Spots
<1>2. QED
  BY <1>1, SpotsAre

LEMMA BoxesArePlaces ==
    ASSUME NEW v \in Visitor
    PROVE  /\ Pictures /\ tracks \in Seq(Trk) => Boxes(v) \subseteq Place
           /\ Pictures' /\ tracks' \in Seq(Trk) => Boxes(v)' \subseteq Place
<1>1. ASSUME Pictures, tracks \in Seq(Trk), NEW b \in Boxes(v)
      PROVE  b \in Place
  <2>1. where \in Frames /\ held \in Frames /\ (slot # None => slot \in Frames)
    BY <1>1 DEF Pictures
  <2>2. SeenAt(where, slot, held, tracks, v, b)
    BY <1>1, BoxesAre
  <2>3. QED
    BY <1>1, <2>1, <2>2, PlacesAre
<1>2. ASSUME Pictures', tracks' \in Seq(Trk), NEW b \in Boxes(v)'
      PROVE  b \in Place
  <2>1. where' \in Frames /\ held' \in Frames /\ (slot' # None => slot' \in Frames)
    BY <1>2 DEF Pictures
  <2>2. SeenAt(where', slot', held', tracks', v, b)
    BY <1>2, BoxesAre
  <2>3. QED
    BY <1>2, <2>1, <2>2, PlacesAre
<1>3. QED
  BY <1>1, <1>2

LEMMA BoxesStay ==
    ASSUME UNCHANGED <<where, slot, held, tracks>>, NEW v
    PROVE  Boxes(v)' = Boxes(v)
  BY DEF Boxes

LEMMA InViewIs ==
    /\ \A v : v \in InView <=> v \in Visitor /\ where[v] # None
    /\ \A v : v \in InView' <=> v \in Visitor /\ where'[v] # None
  BY DEF InView

\* Boxes nobody else's are added to keep a visitor apart.
LEMMA StillApart ==
    ASSUME NEW v \in Visitor, Apart(v), Near(v), Boxes(v)' \subseteq Boxes(v),
           \A u \in Visitor \ {v} : Boxes(u)' \subseteq UNION {Boxes(w) : w \in Visitor \ {v}},
           knobs' = knobs
    PROVE  Apart(v)' /\ Near(v)'
<1>1. \A u \in Visitor \ {v} : \A c \in Boxes(u)' : \E w \in Visitor \ {v} : c \in Boxes(w)
  OBVIOUS
<1>2. Apart(v)'
  BY <1>1 DEF Apart
<1>3. Near(v)'
  BY DEF Near
<1>4. QED
  BY <1>2, <1>3

LEMMA ApartStays ==
    ASSUME NEW v \in Visitor, Apart(v), Near(v), knobs' = knobs,
           \A u \in Visitor : Boxes(u)' \subseteq Boxes(u)
    PROVE  Apart(v)' /\ Near(v)'
<1>1. \A u \in Visitor \ {v} : Boxes(u)' \subseteq UNION {Boxes(w) : w \in Visitor \ {v}}
  OBVIOUS
<1>2. QED
  BY <1>1, StillApart

\* Nothing but the pictures changes for a visitor.
LEMMA LoneStays ==
    ASSUME NEW v, UNCHANGED <<tracks, todo, since, enabled>>, visit'[v] = visit[v],
           analyzer' = "publish" <=> analyzer = "publish",
           analyzer' # "detect" => analyzer # "detect",
           Lone(v), Soon(v)
    PROVE  Lone(v)' /\ Soon(v)'
<1>1. Follows(v)' <=> Follows(v)
  BY DEF Follows
<1>2. Unwritten(v)' = Unwritten(v)
  BY DEF Unwritten
<1>3. Lone(v)'
  BY <1>1, <1>2 DEF Lone
<1>4. Soon(v)'
  BY <1>1 DEF Soon
<1>5. QED
  BY <1>3, <1>4

LEMMA HandedStays ==
    ASSUME NEW v, Handed(v), UNCHANGED <<slot, held, tracks>>
    PROVE  Handed(v)'
  BY DEF Handed, Follows

LEMMA QuietKeeps ==
    ASSUME NEW v \in Visitor, Watched(v), Handed(v)',
           UNCHANGED <<tracks, todo, since, enabled, knobs>>, visit'[v] = visit[v],
           \A u \in Visitor : Boxes(u)' \subseteq Boxes(u),
           analyzer' = "publish" <=> analyzer = "publish",
           analyzer' # "detect" => analyzer # "detect"
    PROVE  Watched(v)'
<1>1. visit[v].clear => Apart(v)' /\ Near(v)' /\ One(tracks, v)'
  BY ApartStays DEF Watched, One
<1>2. Young(v)' <=> Young(v)
  BY DEF Young
<1>3. Young(v) => Lone(v)' /\ Soon(v)'
  BY LoneStays DEF Watched
<1>4. QED
  BY <1>1, <1>2, <1>3 DEF Watched

LEMMA UpsetKeeps ==
    ASSUME NEW v, Handed(v)', ~ visit'[v].clear
    PROVE  Watched(v)'
  BY DEF Watched, Young

\* Whoever somebody else comes into reach of is disturbed.
LEMMA CrowdIs ==
    ASSUME Typed, Typed', NEW u \in Visitor, NEW place \in Place, NEW v \in Visitor \ {u},
           v \notin Crowd(u, place)
    PROVE  \A b \in Boxes(v) : Iou(place, b) = 0 /\ Iou(b, place) = 0
<1> SUFFICES ASSUME NEW b \in Boxes(v)
             PROVE  Iou(place, b) = 0 /\ Iou(b, place) = 0
  OBVIOUS
<1>1. b \in Place
  BY BoxesArePlaces DEF Typed, Trail
<1>2. ~ (Iou(place, b) > 0)
  BY DEF Crowd
<1>3. QED
  BY <1>1, <1>2, IouAssumption

\* One visitor comes to a place; what that is to another.
LEMMA OthersCome ==
    ASSUME Typed, Typed', NEW u \in Visitor, NEW place \in Place, NEW v \in Visitor \ {u},
           v \in InView, Watched(v), where' = [where EXCEPT ![u] = place],
           UNCHANGED <<settings, threads, frames, tracking>>,
           NEW S, Beset(u, place) \subseteq S, visit'[v] = Disturbed(S)[v]
    PROVE  Watched(v)'
<1>1. Handed(v)'
  BY HandedStays DEF Watched, frames, tracking
<1>2. \A x \in Visitor \ {u} : Boxes(x)' = Boxes(x)
  <2>1. \A x \in Visitor \ {u} : where'[x] = where[x]
    BY DEF Typed, Pictures, Frames
  <2>2. QED
    BY <2>1 DEF Boxes, frames, tracking
<1>3. \A b \in Boxes(u)' : b \in Boxes(u) \/ b = place
  <2>1. where'[u] = place
    BY DEF Typed, Pictures, Frames
  <2>2. ASSUME NEW b \in Boxes(u)' PROVE b \in Boxes(u) \/ b = place
    <3>1. SeenAt(where', slot', held', tracks', u, b)
      BY <2>2, BoxesAre
    <3>2. SeenAt(where, slot, held, tracks, u, b) \/ b = place
      BY <2>1, <3>1 DEF SeenAt, frames, tracking
    <3>3. QED
      BY <3>2, BoxesAre
  <2>3. QED
    BY <2>2
<1>4. CASE ~ visit'[v].clear
  BY <1>1, <1>4, UpsetKeeps
<1>5. CASE visit'[v].clear
  <2>1. visit'[v] = visit[v] /\ visit[v].clear /\ v \notin S
    BY <1>5, DisturbedIs DEF Typed
  <2>2. v \notin Crowd(u, place)
    BY <2>1 DEF Beset
  <2>3. \A b \in Boxes(v) : Iou(b, place) = 0
    BY <2>2, CrowdIs
  <2>4. Apart(v) /\ Near(v) /\ One(tracks, v)
    BY <2>1 DEF Watched
  <2>5. Apart(v)'
    BY <1>2, <1>3, <2>3, <2>4 DEF Apart
  <2>6. Near(v)' /\ One(tracks, v)'
    BY <1>2, <2>4 DEF Near, One, settings, tracking
  <2>7. Young(v)' => Lone(v)' /\ Soon(v)'
    <3>1. Young(v)' => Lone(v) /\ Soon(v)
      BY <2>1 DEF Watched, Young
    <3>2. QED
      BY <2>1, <3>1, LoneStays DEF tracking, threads, settings
  <2>8. QED
    BY <1>1, <2>5, <2>6, <2>7 DEF Watched
<1>6. QED
  BY <1>4, <1>5

LEMMA ArriveWatched ==
    ASSUME Typed, Typed', Single, NEW u \in Visitor, NEW place \in Place, Arrive(u, place)
    PROVE  Single'
<1>1. /\ Boxes(u) = {} /\ u \notin Range(todo)
      /\ where' = [where EXCEPT ![u] = place]
      /\ visit' = [Disturbed(Beset(u, place)) EXCEPT
                      ![u] = [NewVisit EXCEPT !.clear = (Beset(u, place) = {})]]
      /\ UNCHANGED <<settings, threads, frames, tracking>>
  BY DEF Arrive
<1>2. where \in Frames /\ where'[u] = place /\ \A x \in Visitor \ {u} : where'[x] = where[x]
  BY <1>1 DEF Typed, Pictures, Frames
<1>3. Disturbed(Beset(u, place)) \in [Visitor -> Visit]
  BY DisturbedIs DEF Typed
<1>4. ASSUME NEW v \in InView', v # u
      PROVE  Watched(v)'
  <2>1. v \in Visitor \ {u} /\ v \in InView
    BY <1>2, <1>4, InViewIs
  <2>2. visit'[v] = Disturbed(Beset(u, place))[v]
    BY <1>1, <1>3, <2>1
  <2>3. Watched(v)
    BY <2>1 DEF Single
  <2>4. QED
    BY <1>1, <2>1, <2>2, <2>3, OthersCome
<1>5. Watched(u)'
  <2>1. ~ Follows(u) /\ held[u] = None
    <3>1. \A b : ~ SeenAt(where, slot, held, tracks, u, b)
      BY <1>1, BoxesAre
    <3>2. held[u] = None
      BY <3>1 DEF SeenAt
    <3>3. ASSUME NEW i \in DOMAIN tracks, tracks[i].who = u PROVE FALSE
      <4>1. tracks[i] \in Trk
        BY DEF Typed, Trail
      <4>2. tracks[i].box # None
        BY <4>1, NoneAssumption DEF Trk
      <4>3. QED
        BY <3>1, <3>3, <4>2 DEF SeenAt
    <3>4. QED
      BY <3>2, <3>3 DEF Follows
  <2>2. ~ Follows(u)' /\ held'[u] = None /\ Handed(u)'
    BY <1>1, <2>1 DEF Follows, Handed, frames, tracking
  <2>3. \A b \in Boxes(u)' : b = place
    <3>1. ASSUME NEW b \in Boxes(u)' PROVE b = place
      <4>1. SeenAt(where', slot', held', tracks', u, b)
        BY <3>1, BoxesAre
      <4>2. SeenAt(where, slot, held, tracks, u, b) \/ b = place
        BY <1>1, <1>2, <4>1 DEF SeenAt, frames, tracking
      <4>3. QED
        BY <1>1, <4>2, BoxesAre
    <3>2. QED
      BY <3>1
  <2>4. ASSUME visit'[u].clear
        PROVE  Apart(u)' /\ Near(u)' /\ One(tracks, u)'
    <3> DEFINE c == (Beset(u, place) = {})
    <3>1. visit'[u] = [NewVisit EXCEPT !.clear = c]
      BY <1>1, <1>3
    <3>2. c
      <4>1. c \in BOOLEAN
        OBVIOUS
      <4> HIDE DEF c
      <4>2. [NewVisit EXCEPT !.clear = c].clear = c
        BY <4>1, NewVisitIs
      <4>3. QED
        BY <2>4, <3>1, <4>2
    <3>3. Crowd(u, place) = {}
      BY <3>2 DEF Beset
    <3>4. \A x \in Visitor \ {u} : Boxes(x)' = Boxes(x)
      BY <1>1, <1>2 DEF Boxes, frames, tracking
    <3>5. \A x \in Visitor \ {u} : \A b \in Boxes(x) : Iou(place, b) = 0
      BY <3>3, CrowdIs
    <3>6. Apart(u)'
      BY <2>3, <3>4, <3>5 DEF Apart
    <3>7. knobs' \in Knobs
      BY DEF Typed, Settings
    <3>8. Near(u)'
      BY <2>3, <3>7, KnobsAssumption DEF Near
    <3>9. One(tracks, u)'
      BY <2>2 DEF One, Follows
    <3>10. QED
      BY <3>6, <3>8, <3>9
  <2>5. Lone(u)' /\ Soon(u)'
    <3>1. Unwritten(u)' = {}
      <4>1. \A i \in DOMAIN todo : todo[i] # u
        BY <1>1 DEF Range
      <4>2. QED
        BY <1>1, <4>1 DEF Unwritten, tracking
    <3>2. visit'[u].rows = 0
      <4> DEFINE c == (Beset(u, place) = {})
      <4>1. visit'[u] = [NewVisit EXCEPT !.clear = c]
        BY <1>1, <1>3
      <4>2. c \in BOOLEAN
        OBVIOUS
      <4> HIDE DEF c
      <4>3. QED
        BY <4>1, <4>2, NewVisitIs
    <3>3. Lone(u)'
      BY <2>2, <3>1, <3>2 DEF Lone, Follows
    <3>4. Soon(u)'
      BY <2>2 DEF Soon
    <3>5. QED
      BY <3>3, <3>4
  <2>6. QED
    BY <2>2, <2>4, <2>5 DEF Watched
<1>6. QED
  BY <1>4, <1>5 DEF Single

LEMMA MoveWatched ==
    ASSUME Typed, Typed', Single, NEW u \in Visitor, NEW place \in Place, Move(u, place)
    PROVE  Single'
<1> DEFINE lost == \E b \in Boxes(u) : Iou(place, b) = 0 \/ Iou(place, b) < knobs.iou
           S == Beset(u, place) \cup (IF lost THEN {u} ELSE {})
<1>1. /\ where[u] # None
      /\ where' = [where EXCEPT ![u] = place]
      /\ visit' = Disturbed(S)
      /\ UNCHANGED <<settings, threads, frames, tracking>>
  BY DEF Move
<1>2. where \in Frames /\ where'[u] = place /\ \A x \in Visitor \ {u} : where'[x] = where[x]
  BY <1>1 DEF Typed, Pictures, Frames
<1>3. ASSUME NEW v \in InView', v # u
      PROVE  Watched(v)'
  <2>1. v \in Visitor \ {u} /\ v \in InView
    BY <1>2, <1>3, InViewIs
  <2>2. visit'[v] = Disturbed(S)[v] /\ Beset(u, place) \subseteq S
    BY <1>1
  <2>3. Watched(v)
    BY <2>1 DEF Single
  <2> HIDE DEF S
  <2>4. QED
    BY <1>1, <2>1, <2>2, <2>3, OthersCome
<1>4. Watched(u)'
  <2>1. u \in InView /\ Watched(u)
    BY <1>1, InViewIs DEF Single
  <2>2. Handed(u)'
    BY <1>1, <2>1, HandedStays DEF Watched, frames, tracking
  <2>3. CASE ~ visit'[u].clear
    BY <2>2, <2>3, UpsetKeeps
  <2>4. CASE visit'[u].clear
    <3>1. visit'[u] = visit[u] /\ visit[u].clear /\ u \notin S
      <4> HIDE DEF S
      <4>1. Disturbed(S)[u].clear
        BY <1>1, <2>4
      <4>2. u \notin S
        BY <2>1, <4>1, DisturbedIs DEF Typed
      <4>3. Disturbed(S)[u] = visit[u] /\ visit[u].clear
        BY <4>1, DisturbedIs DEF Typed
      <4>4. QED
        BY <1>1, <4>2, <4>3
    <3>2. Crowd(u, place) = {} /\ ~ lost
      BY <3>1 DEF Beset
    <3>3. \A b \in Boxes(u)' : b \in Boxes(u) \/ b = place
      <4>1. ASSUME NEW b \in Boxes(u)' PROVE b \in Boxes(u) \/ b = place
        <5>1. SeenAt(where', slot', held', tracks', u, b)
          BY <4>1, BoxesAre
        <5>2. SeenAt(where, slot, held, tracks, u, b) \/ b = place
          BY <1>1, <1>2, <5>1 DEF SeenAt, frames, tracking
        <5>3. QED
          BY <5>2, BoxesAre
      <4>2. QED
        BY <4>1
    <3>4. \A x \in Visitor \ {u} : Boxes(x)' = Boxes(x)
      BY <1>1, <1>2 DEF Boxes, frames, tracking
    <3>5. \A x \in Visitor \ {u} : \A b \in Boxes(x) : Iou(place, b) = 0
      BY <3>2, CrowdIs
    <3>6. Apart(u) /\ Near(u) /\ One(tracks, u)
      BY <2>1, <3>1 DEF Watched
    <3>7. Apart(u)'
      BY <3>3, <3>4, <3>5, <3>6 DEF Apart
    <3>8. \A b \in Boxes(u) : b \in Place /\ Iou(place, b) \in Nat /\ Iou(b, place) = Iou(place, b)
      BY BoxesArePlaces, IouAssumption DEF Typed, Trail
    <3>9. knobs \in Knobs /\ knobs.iou \in Nat
      BY Limits DEF Typed, Settings
    <3>10. \A b \in Boxes(u) : /\ Iou(place, b) > 0 /\ Iou(place, b) >= knobs.iou
                               /\ Iou(b, place) > 0 /\ Iou(b, place) >= knobs.iou
      BY <3>2, <3>8, <3>9
    <3>11. Iou(place, place) > 0 /\ Iou(place, place) >= knobs.iou
      BY <3>9, KnobsAssumption
    <3>12. Near(u)'
      BY <1>1, <3>3, <3>6, <3>10, <3>11 DEF Near, settings
    <3>13. One(tracks, u)'
      BY <1>1, <3>6 DEF One, tracking
    <3>14. Young(u)' => Lone(u)' /\ Soon(u)'
      <4>1. Young(u)' => Lone(u) /\ Soon(u)
        BY <2>1, <3>1 DEF Watched, Young
      <4>2. QED
        BY <1>1, <3>1, <4>1, LoneStays DEF tracking, threads, settings
    <3>15. QED
      BY <2>2, <3>7, <3>12, <3>13, <3>14 DEF Watched
  <2>5. QED
    BY <2>3, <2>4
<1>5. QED
  BY <1>3, <1>4 DEF Single

LEMMA LeaveWatched ==
    ASSUME Typed, Typed', Single, NEW u \in Visitor, Leave(u)
    PROVE  Single'
<1>1. /\ where' = [where EXCEPT ![u] = None] /\ visit' = [visit EXCEPT ![u] = NewVisit]
      /\ UNCHANGED <<settings, threads, frames, tracking>>
  BY DEF Leave
<1>2. where \in Frames /\ where'[u] = None /\ \A x \in Visitor \ {u} : where'[x] = where[x]
  BY <1>1 DEF Typed, Pictures, Frames
<1>3. ASSUME NEW x \in Visitor
      PROVE  Boxes(x)' \subseteq Boxes(x)
  <2>1. ASSUME NEW b \in Boxes(x)' PROVE b \in Boxes(x)
    <3>1. SeenAt(where', slot', held', tracks', x, b)
      BY <2>1, BoxesAre
    <3>2. SeenAt(where, slot, held, tracks, x, b)
      BY <1>1, <1>2, <3>1 DEF SeenAt, frames, tracking
    <3>3. QED
      BY <3>2, BoxesAre
  <2>2. QED
    BY <2>1
<1>4. ASSUME NEW v \in InView'
      PROVE  Watched(v)'
  <2>1. v \in Visitor \ {u} /\ v \in InView
    BY <1>2, <1>4, InViewIs
  <2>2. Watched(v) /\ visit'[v] = visit[v]
    BY <1>1, <2>1 DEF Single, Typed, Story
  <2>3. Handed(v)'
    BY <1>1, <2>2, HandedStays DEF Watched, frames, tracking
  <2>4. QED
    BY <1>1, <1>3, <2>1, <2>2, <2>3, QuietKeeps DEF settings, threads, tracking
<1>5. QED
  BY <1>4 DEF Single

\* Steps that show the visitors' pictures on, and nothing else of theirs.
LEMMA ShowingKeeps ==
    ASSUME Typed, Typed', Single, UNCHANGED <<where, settings, tracking, visit>>,
           slot' = slot \/ slot' = where,
           held' = held \/ (slot # None /\ slot' = slot /\ held' = slot),
           analyzer' = "publish" <=> analyzer = "publish",
           analyzer' # "detect" => analyzer # "detect"
    PROVE  Single'
<1>1. where \in Frames /\ held \in Frames
  BY DEF Typed, Pictures
<1>2. ASSUME NEW x \in Visitor
      PROVE  Boxes(x)' \subseteq Boxes(x)
  <2>1. ASSUME NEW b \in Boxes(x)' PROVE b \in Boxes(x)
    <3>1. SeenAt(where', slot', held', tracks', x, b)
      BY <2>1, BoxesAre
    <3>2. SeenAt(where, slot, held, tracks, x, b)
      BY <3>1 DEF SeenAt, tracking
    <3>3. QED
      BY <3>2, BoxesAre
  <2>2. QED
    BY <2>1
<1>3. ASSUME NEW v \in InView'
      PROVE  Watched(v)'
  <2>1. v \in Visitor /\ where[v] # None /\ Watched(v)
    BY <1>3, InViewIs DEF Single
  <2>2. Handed(v)'
    <3>1. where # None
      BY <1>1, NoneAssumption DEF Frames
    <3>2. Handed(v) /\ (Follows(v)' <=> Follows(v))
      BY <2>1 DEF Watched, Follows, tracking
    <3>3. held'[v] # None => slot' # None /\ slot'[v] # None
      <4>1. CASE held' = held
        BY <2>1, <3>1, <3>2, <4>1 DEF Handed
      <4>2. CASE slot # None /\ slot' = slot /\ held' = slot
        BY <4>2
      <4>3. QED
        BY <4>1, <4>2
    <3>4. Follows(v)' => held'[v] # None
      BY <3>2 DEF Handed
    <3>5. QED
      BY <3>3, <3>4 DEF Handed
  <2>3. QED
    BY <1>2, <2>1, <2>2, QuietKeeps DEF settings, tracking
<1>4. QED
  BY <1>3 DEF Single

LEMMA ReadingWatched ==
    ASSUME Typed, Typed', Single, Reading
    PROVE  Single'
<1>1. UNCHANGED <<where, settings, tracking, visit>> /\ held' = held /\ analyzer' = analyzer
      /\ (slot' = slot \/ slot' = where)
  BY DEF Reading, OpenStream, ReadFrame, ReaderEnds, frames
<1>2. QED
  BY <1>1, ShowingKeeps

LEMMA LookWatched ==
    ASSUME Typed, Typed', Single, LookAtFrame
    PROVE  Single'
<1>1. UNCHANGED <<where, settings, tracking, visit>> /\ slot' = slot /\ held' = slot
      /\ analyzer = "wait" /\ analyzer' = "pace" /\ slot # None
  BY DEF LookAtFrame, Typed, Pictures
<1>2. QED
  BY <1>1, ShowingKeeps

LEMMA EndsWatched ==
    ASSUME Typed, Typed', Single, AnalyzerEnds
    PROVE  Single'
<1>1. UNCHANGED <<where, settings, tracking, visit>> /\ slot' = slot /\ held' = held
      /\ analyzer \in {"wait", "pace"} /\ analyzer' = "ended"
  BY DEF AnalyzerEnds, frames
<1>2. QED
  BY <1>1, ShowingKeeps

LEMMA IdleWatched ==
    ASSUME Typed, Typed', Single, UNCHANGED <<where, settings, frames, tracking, visit, analyzer>>
    PROVE  Single'
<1>1. slot' = slot /\ held' = held
  BY DEF frames
<1>2. QED
  BY <1>1, ShowingKeeps

LEMMA StayIs ==
    ASSUME NEW x \in Visit, x.clear, UpTo(x.stay, Horizon(x)) <= MinCap
    PROVE  x.stay <= MinCap /\ UpTo(x.stay, Horizon(x)) = x.stay + 1
<1>1. x.stay \in Nat /\ MinCap \in Nat /\ MaxCap \in Nat /\ ForceEvery \in Nat /\ MinCap <= MaxCap
  BY Limits, PaceAssumption DEF Visit
<1>2. Horizon(x) = MaxCap + ForceEvery + 2 \/ Horizon(x) = MinCap + 1
  BY DEF Horizon
<1>3. Horizon(x) \in Nat /\ Horizon(x) > MinCap
  BY <1>1, <1>2
<1>4. UpTo(x.stay, Horizon(x)) = IF x.stay < Horizon(x) THEN x.stay + 1 ELSE x.stay
  BY DEF UpTo
<1>5. QED
  BY <1>1, <1>3, <1>4

LEMMA TimeWatched ==
    ASSUME Typed, Typed', Single, NEW c \in BOOLEAN, TimePasses(c), analyzer # "detect",
           c => analyzer' = "detect", UNCHANGED <<where, settings, frames, todo>>,
           analyzer # "publish", analyzer' # "publish"
    PROVE  Single'
<1>1. /\ since' \in 0 .. ForceEvery
      /\ since' <= since + 1 /\ (since < ForceEvery => since' = since + 1)
      /\ tracks' \in Seq(Trk) /\ DOMAIN tracks' = DOMAIN tracks
      /\ \A i \in DOMAIN tracks : /\ tracks'[i].who = tracks[i].who /\ tracks'[i].box = tracks[i].box
                                  /\ tracks'[i].idle <= tracks[i].idle + 1
                                  /\ tracks'[i].age <= tracks[i].age + 1
      /\ visit' \in [Visitor -> Visit]
      /\ \A v \in InView : visit'[v].clear => c /\ Endured(v)
  BY TimeIs
<1>2. ASSUME NEW x \in Visitor
      PROVE  Boxes(x)' \subseteq Boxes(x)
  <2>1. ASSUME NEW b \in Boxes(x)' PROVE b \in Boxes(x)
    <3>1. SeenAt(where', slot', held', tracks', x, b)
      BY <2>1, BoxesAre
    <3>2. SeenAt(where, slot, held, tracks, x, b)
      BY <1>1, <3>1 DEF SeenAt, frames
    <3>3. QED
      BY <3>2, BoxesAre
  <2>2. QED
    BY <2>1
<1>3. ASSUME NEW v \in InView'
      PROVE  Watched(v)'
  <2>1. v \in Visitor /\ v \in InView /\ Watched(v)
    BY <1>3, InViewIs DEF Single
  <2>2. Follows(v)' <=> Follows(v)
    BY <1>1 DEF Follows
  <2>3. Handed(v)'
    BY <2>1, <2>2 DEF Watched, Handed, frames
  <2>4. CASE ~ visit'[v].clear
    BY <2>3, <2>4, UpsetKeeps
  <2>5. CASE visit'[v].clear
    <3>1. c /\ Endured(v) /\ visit[v].clear
      BY <1>1, <2>1, <2>5 DEF Endured
    <3>2. Apart(v) /\ Near(v) /\ One(tracks, v)
      BY <2>1, <3>1 DEF Watched
    <3>3. Apart(v)' /\ Near(v)'
      BY <1>2, <2>1, <3>2, ApartStays DEF settings
    <3>4. One(tracks, v)'
      BY <1>1, <3>2 DEF One
    <3>5. ASSUME Young(v)'
          PROVE  Lone(v)' /\ Soon(v)'
      <4>1. visit[v] \in Visit
        BY <2>1 DEF Typed, Story
      <4>2. /\ visit[v].stay <= MinCap /\ visit'[v].stay = visit[v].stay + 1
            /\ visit'[v].rows = visit[v].rows
        BY <3>1, <3>5, <4>1, StayIs DEF Endured, Young
      <4>3. Lone(v) /\ Soon(v)
        BY <2>1, <3>1, <3>5, <4>2 DEF Watched, Young, Patient
      <4>4. Unwritten(v)' = Unwritten(v)
        BY DEF Unwritten
      <4>5. ASSUME NEW i \in DOMAIN tracks', tracks'[i].who = v
            PROVE  tracks'[i].idle <= since' /\ tracks'[i].age <= visit'[v].stay
        <5>1. i \in DOMAIN tracks /\ tracks[i].who = v
          BY <1>1, <4>5
        <5>2. tracks[i].idle <= since /\ tracks[i].age <= visit[v].stay
          BY <4>3, <5>1 DEF Lone
        <5>3. since < ForceEvery
          BY <4>3, <5>1 DEF Soon, Follows
        <5>4. tracks[i] \in Trk /\ tracks'[i] \in Trk /\ since \in Nat
          BY <1>1, <5>1 DEF Typed, Trail
        <5>5. /\ tracks[i].idle \in Nat /\ tracks[i].age \in Nat
              /\ tracks'[i].idle \in Nat /\ tracks'[i].age \in Nat /\ visit[v].stay \in Nat
          BY <4>1, <5>4, Limits DEF Trk, Visit
        <5>6. tracks'[i].idle <= tracks[i].idle + 1 /\ tracks'[i].age <= tracks[i].age + 1
          BY <1>1, <5>1
        <5>7. since' = since + 1
          BY <1>1, <5>3
        <5>8. QED
          BY <4>2, <5>2, <5>4, <5>5, <5>6, <5>7
      <4>6. Lone(v)'
        BY <2>2, <4>2, <4>3, <4>4, <4>5 DEF Lone
      <4>7. Soon(v)'
        BY <2>2, <3>1, <4>3 DEF Soon, settings
      <4>8. QED
        BY <4>6, <4>7
    <3>6. QED
      BY <2>3, <3>3, <3>4, <3>5 DEF Watched
  <2>6. QED
    BY <2>4, <2>5
<1>4. QED
  BY <1>3 DEF Single

LEMMA PaceWatched ==
    ASSUME Typed, Typed', Single, Pace
    PROVE  Single'
  BY TimeWatched DEF Pace, settings, frames

LEMMA MissingWatched ==
    ASSUME Typed, Typed', Single, FramesMissing
    PROVE  Single'
  BY TimeWatched DEF FramesMissing, settings, frames, threads

LEMMA InsertWatched ==
    ASSUME Typed, Typed', Single, InsertRow
    PROVE  Single'
<1> DEFINE h == Head(todo)
<1>1. /\ analyzer = "emit" /\ analyzer' = "publish"
      /\ visit' = [visit EXCEPT ![h].rows = IF h \in InView THEN UpTo(@, 2) ELSE @]
      /\ UNCHANGED <<where, settings, frames, tracking>>
  BY DEF InsertRow
<1>2. h \in Visitor /\ h = todo[1] /\ 1 \in DOMAIN todo
  BY <1>1, TodoShrinks
<1> HIDE DEF h
<1>3. ASSUME NEW v \in InView'
      PROVE  Watched(v)'
  <2>1. v \in Visitor /\ v \in InView /\ Watched(v) /\ visit[v] \in Visit
    BY <1>1, <1>3, InViewIs DEF Single, Typed, Story
  <2>2. Handed(v)' /\ (Follows(v)' <=> Follows(v))
    BY <1>1, <2>1, HandedStays DEF Watched, Follows, frames, tracking
  <2>3. \A u \in Visitor : Boxes(u)' = Boxes(u)
    BY <1>1, BoxesStay DEF frames, tracking
  <2>4. visit \in [Visitor -> Visit]
    BY DEF Typed, Story
  <2>5. /\ visit'[v].clear = visit[v].clear /\ visit'[v].stay = visit[v].stay
        /\ v # h => visit'[v] = visit[v]
        /\ v = h => visit'[v].rows = UpTo(visit[v].rows, 2)
    <3>1. CASE v # h
      BY <1>1, <2>1, <2>4, <3>1
    <3>2. CASE v = h
      <4>1. visit'[v] = [visit[v] EXCEPT !.rows = UpTo(visit[v].rows, 2)]
        BY <1>1, <2>1, <2>4, <3>2
      <4> DEFINE r == UpTo(visit[v].rows, 2)
      <4> HIDE DEF r
      <4>2. /\ [visit[v] EXCEPT !.rows = r].clear = visit[v].clear
            /\ [visit[v] EXCEPT !.rows = r].stay = visit[v].stay
            /\ [visit[v] EXCEPT !.rows = r].rows = r
        BY <2>1 DEF Visit
      <4>3. QED
        BY <3>2, <4>1, <4>2 DEF r
    <3>3. QED
      BY <3>1, <3>2
  <2>6. visit[v].clear => Apart(v)' /\ Near(v)' /\ One(tracks, v)'
    BY <1>1, <2>1, <2>3, ApartStays DEF Watched, One, settings, tracking
  <2>7. ASSUME Young(v)
        PROVE  Lone(v)' /\ Soon(v)'
    <3>1. Lone(v) /\ Soon(v)
      BY <2>1, <2>7 DEF Watched
    <3>2. Soon(v)'
      BY <1>1, <2>2, <3>1 DEF Soon, settings, tracking
    <3>3. Unwritten(v) = {i \in DOMAIN todo : todo[i] = v}
      BY <1>1 DEF Unwritten
    <3>4. Unwritten(v)' = {i \in DOMAIN todo : todo[i] = v /\ i # 1}
      BY <1>1 DEF Unwritten, tracking
    <3>5. \A i \in DOMAIN tracks' : tracks'[i].who = v =>
            tracks'[i].idle <= since' /\ tracks'[i].age <= visit'[v].stay
      BY <1>1, <2>5, <3>1 DEF Lone, tracking
    <3>6. CASE v # h
      <4>1. Unwritten(v)' = Unwritten(v)
        BY <1>2, <3>3, <3>4, <3>6
      <4>2. QED
        BY <2>2, <2>5, <3>1, <3>2, <3>5, <3>6, <4>1 DEF Lone
    <3>7. CASE v = h
      <4>1. 1 \in Unwritten(v)
        BY <1>2, <3>3, <3>7
      <4>2. Unwritten(v)' = {}
        BY <3>1, <3>3, <3>4, <4>1 DEF Lone
      <4>3. Follows(v) /\ visit[v].rows <= 1 /\ visit[v].rows # 1
        BY <3>1, <4>1 DEF Lone
      <4>4. visit'[v].rows = 1
        <5>1. visit[v].rows \in 0 .. 2
          BY <2>1 DEF Visit
        <5>2. QED
          BY <2>5, <3>7, <4>3, <5>1 DEF UpTo
      <4>5. QED
        BY <2>2, <3>2, <3>5, <4>2, <4>3, <4>4 DEF Lone
    <3>8. QED
      BY <3>6, <3>7
  <2>8. Young(v)' <=> Young(v)
    BY <2>5 DEF Young
  <2>9. QED
    BY <2>2, <2>5, <2>6, <2>7, <2>8 DEF Watched
<1>4. QED
  BY <1>3 DEF Single

LEMMA ShiftWatched ==
    ASSUME Typed, Typed', Single, EmitFails \/ Publish
    PROVE  Single'
<1>1. /\ analyzer \in {"emit", "publish"} /\ todo' = Tail(todo) /\ Onward(todo')
      /\ UNCHANGED <<where, settings, frames, since, tracks>>
      /\ (visit' = visit \/ visit' = Disturbed({Head(todo)}))
  BY DEF EmitFails, Publish
<1>2. analyzer' \in {"wait", "emit"}
  BY <1>1 DEF Onward
<1>3. ASSUME NEW v \in InView'
      PROVE  Watched(v)'
  <2>1. v \in Visitor /\ v \in InView /\ Watched(v)
    BY <1>1, <1>3, InViewIs DEF Single
  <2>2. Handed(v)' /\ (Follows(v)' <=> Follows(v))
    BY <1>1, <2>1, HandedStays DEF Watched, Follows, frames
  <2>3. \A u \in Visitor : Boxes(u)' = Boxes(u)
    BY <1>1, BoxesStay DEF frames
  <2>4. CASE ~ visit'[v].clear
    BY <2>2, <2>4, UpsetKeeps
  <2>5. CASE visit'[v].clear
    <3>1. visit'[v] = visit[v] /\ visit[v].clear
      <4>1. CASE visit' = visit
        BY <2>5, <4>1
      <4>2. CASE visit' = Disturbed({Head(todo)})
        BY <2>1, <2>5, <4>2, ClearIs DEF Typed
      <4>3. QED
        BY <1>1, <4>1, <4>2
    <3>2. Apart(v)' /\ Near(v)' /\ One(tracks, v)'
      BY <1>1, <2>1, <2>3, <3>1, ApartStays DEF Watched, One, settings
    <3>3. ASSUME Young(v)
          PROVE  Lone(v)' /\ Soon(v)'
      <4>1. Lone(v) /\ Soon(v)
        BY <2>1, <3>3 DEF Watched
      <4>2. Soon(v)'
        BY <1>1, <1>2, <2>2, <4>1 DEF Soon, settings
      <4>3. \A i \in Unwritten(v)' : i \in Nat /\ i + 1 \in Unwritten(v)
        <5>1. ASSUME NEW i \in Unwritten(v)' PROVE i \in Nat /\ i + 1 \in Unwritten(v)
          <6>1. i \in DOMAIN todo' /\ todo'[i] = v
            BY <5>1 DEF Unwritten
          <6>2. /\ DOMAIN todo = 1 .. Len(todo) /\ Len(todo) \in Nat \ {0}
                /\ DOMAIN Tail(todo) = 1 .. (Len(todo) - 1)
                /\ \A j \in DOMAIN Tail(todo) : Tail(todo)[j] = todo[j + 1]
            BY <1>1, TodoShrinks
          <6>3. i \in 1 .. (Len(todo) - 1) /\ todo[i + 1] = v
            BY <1>1, <6>1, <6>2
          <6>4. i \in Nat /\ i + 1 \in DOMAIN todo /\ i + 1 # 1
            BY <6>2, <6>3
          <6>5. QED
            BY <6>3, <6>4 DEF Unwritten
        <5>2. QED
          BY <5>1
      <4>4. Unwritten(v) = {} => Unwritten(v)' = {}
        BY <4>3
      <4>5. \A i, j \in Unwritten(v)' : i = j
        <5>1. ASSUME NEW i \in Unwritten(v)', NEW j \in Unwritten(v)' PROVE i = j
          <6>1. i \in Nat /\ j \in Nat /\ i + 1 = j + 1
            BY <4>1, <4>3 DEF Lone
          <6>2. QED
            BY <6>1
        <5>2. QED
          BY <5>1
      <4>6. Lone(v)'
        BY <1>1, <2>2, <3>1, <4>1, <4>4, <4>5 DEF Lone
      <4>7. QED
        BY <4>2, <4>6
    <3>4. Young(v)' <=> Young(v)
      BY <3>1 DEF Young
    <3>5. QED
      BY <2>2, <3>2, <3>3, <3>4 DEF Watched
  <2>6. QED
    BY <2>4, <2>5
<1>4. QED
  BY <1>3 DEF Single

\* What upsets everyone in view leaves nothing to keep but where they are seen.
LEMMA AllUpset ==
    ASSUME Typed, Single, where' = where, visit' = Disturbed(InView),
           \A v \in InView : Handed(v)'
    PROVE  Single'
<1>1. ASSUME NEW v \in InView'
      PROVE  Watched(v)'
  <2>1. v \in InView
    BY <1>1, InViewIs
  <2>2. ~ visit'[v].clear
    BY <2>1, DisturbedIs DEF Typed
  <2>3. QED
    BY <2>1, <2>2, UpsetKeeps
<1>2. QED
  BY <1>1 DEF Single

LEMMA ManagingWatched ==
    ASSUME Typed, Typed', Single, Managing
    PROVE  Single'
<1>1. CASE \E k \in Knobs : UpdateTracker(k)
  <2>1. PICK k \in Knobs : UpdateTracker(k)
    BY <1>1
  <2> DEFINE S == {v \in InView : \E b, c \in Boxes(v) : Iou(b, c) < k.iou}
  <2>2. /\ knobs' = k /\ visit' = Disturbed(S)
        /\ UNCHANGED <<where, enabled, threads, frames, tracking>>
    BY <2>1 DEF UpdateTracker
  <2>3. ASSUME NEW v \in InView'
        PROVE  Watched(v)'
    <3>1. v \in Visitor /\ v \in InView /\ Watched(v)
      BY <2>2, <2>3, InViewIs DEF Single
    <3>2. Handed(v)'
      BY <2>2, <3>1, HandedStays DEF Watched, frames, tracking
    <3>3. \A u \in Visitor : Boxes(u)' = Boxes(u)
      BY <2>2, BoxesStay DEF frames, tracking
    <3>4. CASE ~ visit'[v].clear
      BY <3>2, <3>4, UpsetKeeps
    <3>5. CASE visit'[v].clear
      <4>1. visit'[v] = visit[v] /\ visit[v].clear /\ v \notin S
        <5> HIDE DEF S
        <5>1. Disturbed(S)[v].clear
          BY <2>2, <3>5
        <5>2. QED
          BY <2>2, <3>1, <5>1, ClearIs DEF Typed
      <4>2. Apart(v) /\ Near(v) /\ One(tracks, v)
        BY <3>1, <4>1 DEF Watched
      <4>3. Apart(v)' /\ One(tracks, v)'
        BY <2>2, <3>1, <3>3, <4>2 DEF Apart, One, tracking
      <4>4. \A b, c \in Boxes(v) : Iou(b, c) \in Nat /\ ~ (Iou(b, c) < k.iou)
        BY <3>1, <4>1, BoxesArePlaces, IouAssumption DEF Typed, Trail
      <4>5. k.iou \in Nat
        BY Limits
      <4>6. Near(v)'
        BY <2>2, <3>1, <3>3, <4>2, <4>4, <4>5 DEF Near
      <4>7. Young(v)' => Lone(v)' /\ Soon(v)'
        <5>1. Young(v)' => Lone(v) /\ Soon(v)
          BY <3>1, <4>1 DEF Watched, Young
        <5>2. QED
          BY <2>2, <4>1, <5>1, LoneStays DEF tracking, threads
      <4>8. QED
        BY <3>2, <4>3, <4>6, <4>7 DEF Watched
    <3>6. QED
      BY <3>4, <3>5
  <2>4. QED
    BY <2>3 DEF Single
<1>2. CASE UpdateDetectionEnabled
  <2>1. where' = where /\ visit' = Disturbed(InView) /\ UNCHANGED <<slot, held, tracks>>
    BY <1>2 DEF UpdateDetectionEnabled, frames, tracking
  <2>2. \A v \in InView : Handed(v)'
    BY <2>1, HandedStays DEF Single, Watched
  <2>3. QED
    BY <2>1, <2>2, AllUpset
<1>3. CASE StopWorker
  BY <1>3, IdleWatched DEF StopWorker
<1>4. CASE StartWorker
  <2>1. /\ where' = where /\ visit' = Disturbed(InView)
        /\ held' = Empty /\ tracks' = <<>>
    BY <1>4 DEF StartWorker
  <2>2. \A v \in InView : Handed(v)'
    BY <2>1 DEF Handed, Follows, Empty, InView
  <2>3. QED
    BY <2>1, <2>2, AllUpset
<1>5. QED
  BY <1>1, <1>2, <1>3, <1>4 DEF Managing

(***************************************************************************)
(* The analyzer's look at a frame.                                         *)
(***************************************************************************)
LEMMA AssociateWho ==
    ASSUME NEW q \in Seq(Trk), NEW D \in Seq(Detection), NEW k
    PROVE  LET t == Associate(q, D, k) IN
           \A i \in DOMAIN t.tracks : \/ \E j \in DOMAIN q : q[j].who = t.tracks[i].who
                                      \/ \E j \in DOMAIN D : D[j].who = t.tracks[i].who
<1>1. PICK f : IsAfter(f, q, D, k) /\ Associate(q, D, k) = f[Len(D)]
  BY AfterMeans
<1>2. /\ Len(D) \in Nat /\ DOMAIN D = 1 .. Len(D)
      /\ f[0] = [tracks |-> q, open |-> DOMAIN q, new |-> <<>>]
      /\ \A n \in 1 .. Len(D) : f[n] = Claim(f[n - 1], D[n], k)
  BY <1>1, AfterSteps
<1> DEFINE Known(x) == (\E j \in DOMAIN q : q[j].who = x) \/ (\E j \in DOMAIN D : D[j].who = x)
           Right(s) == Sound(s) /\ \A i \in DOMAIN s.tracks : Known(s.tracks[i].who)
           T == {n \in 0 .. Len(D) : Right(f[n])}
<1>3. 0 \in T
  <2>1. f[0].tracks = q /\ f[0].open = DOMAIN q /\ f[0].new = <<>> /\ 0 \in 0 .. Len(D)
    BY <1>2
  <2>2. Sound(f[0])
    BY <2>1 DEF Sound
  <2>3. \A i \in DOMAIN q : Known(q[i].who)
    OBVIOUS
  <2> HIDE DEF Known
  <2>4. QED
    BY <2>1, <2>2, <2>3
<1>4. ASSUME NEW n \in 1 .. Len(D), n - 1 \in T
      PROVE  n \in T
  <2> DEFINE s == f[n - 1]
             t == f[n]
             d == D[n]
             best == Best(s.tracks, s.open, d.place, k)
  <2>1. Right(s) /\ t = Claim(s, d, k) /\ d \in Detection /\ n \in 0 .. Len(D) /\ n \in DOMAIN D
    BY <1>2, <1>4
  <2>2. Known(d.who)
    BY <2>1
  <2> HIDE DEF Known
  <2>3. Sound(t) /\ ((best = {} /\ Begun(s, d, t)) \/ \E m \in best : Continued(s, d, t, m))
    BY <2>1, ClaimIs
  <2>4. \A m \in best : m \in DOMAIN s.tracks
    BY <2>1 DEF Best, Sound
  <2> HIDE DEF s, t, d, best
  <2>5. CASE Begun(s, d, t)
    <3>1. \A i \in DOMAIN t.tracks : i \in DOMAIN s.tracks \/ t.tracks[i].who = d.who
      <4>1. /\ DOMAIN t.tracks = 1 .. (Len(s.tracks) + 1)
            /\ t.tracks[Len(s.tracks) + 1].who = d.who
        BY <2>5 DEF Begun
      <4>2. DOMAIN s.tracks = 1 .. Len(s.tracks) /\ Len(s.tracks) \in Nat
        BY <2>1 DEF Sound
      <4>3. \A i \in DOMAIN t.tracks : i \in DOMAIN s.tracks \/ i = Len(s.tracks) + 1
        BY <4>1, <4>2
      <4>4. QED
        BY <4>1, <4>3
    <3>2. \A i \in DOMAIN s.tracks : t.tracks[i] = s.tracks[i]
      BY <2>5 DEF Begun
    <3>3. Right(t)
      BY <2>1, <2>2, <2>3, <3>1, <3>2
    <3> HIDE DEF Right
    <3>4. QED
      BY <2>1, <3>3 DEF t
  <2>6. ASSUME NEW m \in best, Continued(s, d, t, m)
        PROVE  n \in T
    <3>1. \A i \in DOMAIN t.tracks : i \in DOMAIN s.tracks /\ t.tracks[i].who = s.tracks[i].who
      BY <2>4, <2>6 DEF Continued
    <3>2. Right(t)
      BY <2>1, <2>3, <3>1
    <3> HIDE DEF Right
    <3>3. QED
      BY <2>1, <3>2 DEF t
  <2>7. QED
    BY <2>3, <2>5, <2>6
<1>5. Len(D) \in T
  <2>1. Len(D) \in 0 .. Len(D)
    BY <1>2
  <2> HIDE DEF T
  <2>2. QED
    BY <1>2, <1>3, <1>4, <2>1, CountsUp
<1>6. QED
  BY <1>1, <1>5

LEMMA FollowHands ==
    ASSUME Typed, NEW v \in Visitor, Handed(v), NEW D \in Seq(Detection),
           \A i \in DOMAIN D : D[i].who = v => held[v] # None,
           tracks' = Associate(Kept(tracks, knobs), D, knobs).tracks,
           UNCHANGED <<slot, held>>
    PROVE  Handed(v)'
<1> DEFINE q == Kept(tracks, knobs)
<1>1. q \in Seq(Trk) /\ \A j \in DOMAIN q : \E i \in DOMAIN tracks : q[j] = tracks[i]
  BY KeptIs DEF Typed, Trail
<1> HIDE DEF q
<1>2. \A i \in DOMAIN tracks' : \/ \E j \in DOMAIN q : q[j].who = tracks'[i].who
                                \/ \E j \in DOMAIN D : D[j].who = tracks'[i].who
  BY <1>1, AssociateWho DEF q
<1>3. Follows(v)' => Follows(v) \/ \E j \in DOMAIN D : D[j].who = v
  BY <1>1, <1>2 DEF Follows
<1>4. QED
  BY <1>3 DEF Handed

\* Everyone else's boxes.
Others(v) == UNION {Boxes(w) : w \in Visitor \ {v}}

LEMMA RingIs ==
    ASSUME Typed, NEW v \in Visitor, Apart(v), Near(v)
    PROVE  Ring(Boxes(v), Others(v), knobs)
<1>1. \A w \in Visitor : Boxes(w) \subseteq Place
  BY BoxesArePlaces DEF Typed, Trail
<1>2. \A c : c \in Others(v) <=> \E w \in Visitor \ {v} : c \in Boxes(w)
  BY DEF Others
<1>3. Others(v) \subseteq Place
  BY <1>1, <1>2
<1>4. \A b \in Boxes(v), c \in Others(v) : Iou(b, c) = 0
  BY <1>2 DEF Apart
<1>5. \A b \in Boxes(v), c \in Others(v) : Iou(c, b) = 0
  BY <1>1, <1>3, <1>4, IouAssumption
<1>6. QED
  BY <1>1, <1>3, <1>4, <1>5 DEF Ring, Near

\* The kept tracks of a visitor who is apart.
LEMMA KeptFenced ==
    ASSUME Typed, NEW v \in Visitor, One(tracks, v)
    PROVE  LET q == Kept(tracks, knobs) IN
           /\ q \in Seq(Trk) /\ One(q, v) /\ Fenced(q, v, Boxes(v), Others(v))
           /\ \A j \in DOMAIN q : \E i \in DOMAIN tracks : q[j] = tracks[i]
           /\ \A i \in DOMAIN tracks : Fits(tracks[i], knobs) => \E j \in DOMAIN q : q[j] = tracks[i]
<1> DEFINE q == Kept(tracks, knobs)
<1>1. tracks \in Seq(Trk)
  BY DEF Typed, Trail
<1>2. /\ q \in Seq(Trk) /\ One(q, v)
      /\ \A j \in DOMAIN q : \E i \in DOMAIN tracks : q[j] = tracks[i]
  BY <1>1, KeptIs
<1>3. \A i \in DOMAIN tracks : Fits(tracks[i], knobs) => \E j \in DOMAIN q : q[j] = tracks[i]
  BY <1>1, KeptIs
<1> HIDE DEF q
<1>4. ASSUME NEW i \in DOMAIN tracks
      PROVE  tracks[i].box \in Boxes(tracks[i].who) /\ tracks[i].who \in Visitor
  <2>1. tracks[i] \in Trk
    BY <1>1
  <2>2. tracks[i].box # None /\ tracks[i].who \in Visitor
    BY <2>1, NoneAssumption DEF Trk
  <2>3. SeenAt(where, slot, held, tracks, tracks[i].who, tracks[i].box)
    BY <2>2 DEF SeenAt
  <2>4. QED
    BY <2>2, <2>3, BoxesAre
<1>5. \A i \in DOMAIN tracks : tracks[i].box \in IF tracks[i].who = v THEN Boxes(v) ELSE Others(v)
  BY <1>4 DEF Others
<1>6. Fenced(q, v, Boxes(v), Others(v))
  BY <1>2, <1>5 DEF Fenced
<1>7. QED
  BY <1>2, <1>3, <1>6 DEF q

LEMMA DetectionsPlaced ==
    ASSUME Typed, NEW v \in Visitor, NEW D \in Seq(Detection),
           \A i \in DOMAIN D : D[i].place = held[D[i].who]
    PROVE  Placed(D, v, Boxes(v), Others(v))
<1>1. ASSUME NEW i \in DOMAIN D
      PROVE  D[i].place \in Boxes(D[i].who) /\ D[i].who \in Visitor
  <2>1. D[i] \in Detection
    OBVIOUS
  <2>2. D[i].place # None /\ D[i].who \in Visitor
    BY <2>1, NoneAssumption DEF Detection
  <2>3. SeenAt(where, slot, held, tracks, D[i].who, D[i].place)
    BY <2>2 DEF SeenAt
  <2>4. QED
    BY <2>2, <2>3, BoxesAre
<1>2. QED
  BY <1>1 DEF Placed, Others

\* However the others are found, a visitor apart stays so, and has one track.
LEMMA FollowApart ==
    ASSUME Typed, NEW v \in Visitor, Apart(v), Near(v), NEW t,
           Follower(t, v, Boxes(v), Others(v)), tracks' = t.tracks,
           UNCHANGED <<where, slot, held, knobs>>
    PROVE  Apart(v)' /\ Near(v)' /\ One(tracks, v)'
<1>1. Fenced(tracks', v, Boxes(v), Others(v)) /\ One(tracks', v)
  BY DEF Follower
<1>2. ASSUME NEW u \in Visitor, NEW b \in Boxes(u)'
      PROVE  b \in Boxes(u) \/ \E i \in DOMAIN tracks' : tracks'[i].who = u /\ b = tracks'[i].box
  <2>1. SeenAt(where', slot', held', tracks', u, b)
    BY <1>2, BoxesAre
  <2>2. \/ SeenAt(where, slot, held, tracks, u, b)
        \/ \E i \in DOMAIN tracks' : tracks'[i].who = u /\ b = tracks'[i].box
    BY <2>1 DEF SeenAt
  <2>3. QED
    BY <2>2, BoxesAre
<1>3. Boxes(v)' \subseteq Boxes(v)
  BY <1>1, <1>2 DEF Fenced
<1>4. \A u \in Visitor \ {v} : Boxes(u) \subseteq Others(v)
  BY DEF Others
<1>5. \A u \in Visitor \ {v} : Boxes(u)' \subseteq Others(v)
  BY <1>1, <1>2, <1>4 DEF Fenced
<1>6. Apart(v)' /\ Near(v)'
  BY <1>3, <1>5, StillApart DEF Others
<1>7. QED
  BY <1>1, <1>6 DEF One

\* A look, as it is for one visitor in view: whether they are found in the frame is
\* whether they are in it, when the analyzer looks and detection is on.
LEMMA LookWatches ==
    ASSUME Typed, Typed', NEW v \in Visitor, Watched(v),
           NEW D \in Seq(Detection), \A i \in DOMAIN D : D[i].place = held[D[i].who], ~ Twice(D, v),
           NEW looks \in BOOLEAN, since >= ForceEvery => looks,
           FoundIn(D, v, Len(D)) <=> looks /\ enabled /\ held[v] # None,
           analyzer = "detect", Follow(D), since' = IF looks THEN 0 ELSE since,
           UNCHANGED <<where, slot, held, enabled, knobs, visit>>, analyzer' \in {"wait", "emit"}
    PROVE  Watched(v)'
<1> DEFINE q == Kept(tracks, knobs)
           t == Associate(q, D, knobs)
<1>1. tracks' = t.tracks /\ todo' = t.new
  BY DEF Follow
<1>2. Handed(v)'
  <2>1. Len(D) \in Nat /\ DOMAIN D = 1 .. Len(D)
    OBVIOUS
  <2>2. \A i \in DOMAIN D : D[i].who = v => held[v] # None
    BY <2>1 DEF FoundIn
  <2>3. QED
    BY <1>1, <2>2, FollowHands DEF Watched
<1>3. CASE ~ visit'[v].clear
  BY <1>2, <1>3, UpsetKeeps
<1>4. CASE visit'[v].clear
  <2>1. Apart(v) /\ Near(v) /\ One(tracks, v)
    BY <1>4 DEF Watched
  <2>2. Ring(Boxes(v), Others(v), knobs) /\ Placed(D, v, Boxes(v), Others(v))
    BY <2>1, RingIs, DetectionsPlaced
  <2>3. /\ q \in Seq(Trk) /\ One(q, v) /\ Fenced(q, v, Boxes(v), Others(v))
        /\ \A j \in DOMAIN q : \E i \in DOMAIN tracks : q[j] = tracks[i]
        /\ \A i \in DOMAIN tracks : Fits(tracks[i], knobs) => \E j \in DOMAIN q : q[j] = tracks[i]
    BY <2>1, KeptFenced
  <2> HIDE DEF q
  <2>4. ASSUME NEW o \in DOMAIN q, q[o].who = v
        PROVE  Follower(t, v, Boxes(v), Others(v)) /\ GoesOn(q, t, D, v, o)
    BY <2>2, <2>3, <2>4, FollowedOn
  <2>5. ASSUME \A i \in DOMAIN q : q[i].who # v
        PROVE  Follower(t, v, Boxes(v), Others(v)) /\ Begins(t, D, v)
    BY <2>2, <2>3, <2>5, BegunFor
  <2> HIDE DEF t
  <2>6. Follower(t, v, Boxes(v), Others(v))
    BY <2>4, <2>5
  <2>7. Apart(v)' /\ Near(v)' /\ One(tracks, v)'
    BY <1>1, <2>1, <2>6, FollowApart
  <2>8. ASSUME Young(v)
        PROVE  Lone(v)' /\ Soon(v)'
    <3>1. Lone(v) /\ Soon(v)
      BY <2>8 DEF Watched
    <3>2. since \in Nat /\ since' \in Nat /\ ForceEvery \in Nat /\ 0 < ForceEvery /\ since <= ForceEvery
      BY PaceAssumption DEF Typed, Trail
    <3>3. visit[v].stay \in Nat /\ visit[v].stay <= MinCap
      BY <2>8 DEF Young, Typed, Story, Visit
    <3>4. One(tracks', v)
      BY <1>1, <2>6 DEF Follower
    <3>5. Unwritten(v)' = {i \in DOMAIN todo' : todo'[i] = v}
      BY DEF Unwritten
    <3>6. CASE Follows(v)
      <4>1. PICK i \in DOMAIN tracks : tracks[i].who = v
        BY <3>6 DEF Follows
      <4>2. tracks[i].idle <= since /\ tracks[i].age <= visit[v].stay
        BY <3>1, <4>1 DEF Lone
      <4>3. tracks[i].idle \in Nat /\ tracks[i].age \in Nat
        <5>1. tracks[i] \in Trk
          BY DEF Typed, Trail
        <5>2. QED
          BY <5>1, Limits DEF Trk
      <4>4. Fits(tracks[i], knobs)
        <5>1. knobs \in Knobs /\ knobs.idle \in Nat /\ knobs.cap \in Nat /\ MinCap <= knobs.cap /\ MinCap \in Nat
          BY Limits DEF Typed, Settings
        <5>2. ForceEvery <= knobs.idle
          BY <2>8, <5>1 DEF Young, Patient
        <5>3. QED
          BY <3>2, <3>3, <4>2, <4>3, <5>1, <5>2 DEF Fits
      <4>5. PICK o \in DOMAIN q : q[o] = tracks[i]
        BY <2>3, <4>4
      <4>6. GoesOn(q, t, D, v, o)
        BY <2>4, <4>1, <4>5
      <4>7. enabled /\ held[v] # None
        BY <3>1, <3>6 DEF Soon, Watched, Handed
      <4>8. tracks'[o].idle <= since' /\ tracks'[o].age <= visit'[v].stay
        <5>1. CASE looks
          BY <1>1, <3>2, <4>2, <4>5, <4>6, <4>7, <5>1 DEF GoesOn
        <5>2. CASE ~ looks
          BY <1>1, <3>2, <4>2, <4>5, <4>6, <4>7, <5>2 DEF GoesOn
        <5>3. QED
          BY <5>1, <5>2
      <4>9. o \in DOMAIN tracks' /\ tracks'[o].who = v
        BY <1>1, <4>6 DEF GoesOn
      <4>10. \A j \in DOMAIN tracks' : tracks'[j].who = v =>
               tracks'[j].idle <= since' /\ tracks'[j].age <= visit'[v].stay
        BY <3>4, <4>8, <4>9 DEF One
      <4>11. Unwritten(v)' = {}
        BY <1>1, <3>5, <4>6 DEF GoesOn
      <4>12. Follows(v)'
        BY <4>9 DEF Follows
      <4>13. visit'[v].rows <= 1
        BY <3>1 DEF Lone
      <4>14. Lone(v)'
        BY <4>10, <4>11, <4>12, <4>13 DEF Lone
      <4>15. since' < ForceEvery
        BY <3>2
      <4>16. Soon(v)'
        BY <4>7, <4>15 DEF Soon
      <4>17. QED
        BY <4>14, <4>16
    <3>7. CASE ~ Follows(v)
      <4>1. visit[v].rows = 0
        BY <3>1, <3>7 DEF Lone
      <4>2. \A i \in DOMAIN q : q[i].who # v
        BY <2>3, <3>7 DEF Follows
      <4>3. Begins(t, D, v)
        BY <2>5, <4>2
      <4>4. \A i, j \in Unwritten(v)' : i = j
        BY <1>1, <3>5, <4>3 DEF Begins
      <4>5. CASE FoundIn(D, v, Len(D))
        <5>1. PICK o \in DOMAIN t.tracks :
                 t.tracks[o].who = v /\ t.tracks[o].age = 0 /\ t.tracks[o].idle = 0
          BY <4>3, <4>5 DEF Begins
        <5>2. o \in DOMAIN tracks' /\ tracks'[o].who = v /\ tracks'[o].age = 0 /\ tracks'[o].idle = 0
          BY <1>1, <5>1
        <5>3. \A j \in DOMAIN tracks' : tracks'[j].who = v =>
                tracks'[j].idle <= since' /\ tracks'[j].age <= visit'[v].stay
          BY <3>2, <3>3, <3>4, <5>2 DEF One
        <5>4. Follows(v)'
          BY <5>2 DEF Follows
        <5>5. visit'[v].rows = 0
          BY <4>1
        <5>6. Lone(v)'
          BY <4>4, <5>3, <5>4, <5>5 DEF Lone
        <5>7. Soon(v)'
          BY <3>2, <4>5 DEF Soon
        <5>8. QED
          BY <5>6, <5>7
      <4>6. CASE ~ FoundIn(D, v, Len(D))
        <5>1. (\A i \in DOMAIN tracks' : tracks'[i].who # v) /\ Unwritten(v)' = {}
          BY <1>1, <3>5, <4>3, <4>6 DEF Begins
        <5>2. ~ Follows(v)'
          BY <5>1 DEF Follows
        <5>3. visit'[v].rows = 0
          BY <4>1
        <5>4. Lone(v)'
          BY <5>1, <5>2, <5>3 DEF Lone
        <5>5. Soon(v)'
          BY <5>2 DEF Soon
        <5>6. QED
          BY <5>4, <5>5
      <4>7. QED
        BY <4>5, <4>6
    <3>8. QED
      BY <3>6, <3>7
  <2>9. Young(v)' <=> Young(v)
    BY DEF Young
  <2>10. QED
    BY <1>2, <2>7, <2>8, <2>9 DEF Watched
<1>5. QED
  BY <1>3, <1>4

LEMMA AnalyzeWatched ==
    ASSUME Typed, Typed', Single, AnalyzeFrame
    PROVE  Single'
<1>1. PICK looks \in {x \in BOOLEAN : since >= ForceEvery => x} :
        /\ \E detections \in IF looks /\ enabled THEN Detections ELSE {<<>>} : Follow(detections)
        /\ since' = IF looks THEN 0 ELSE since
  BY DEF AnalyzeFrame
<1>2. PICK D \in IF looks /\ enabled THEN Detections ELSE {<<>>} : Follow(D)
  BY <1>1
<1>3. /\ analyzer = "detect" /\ Onward(todo')
      /\ UNCHANGED <<where, slot, held, enabled, knobs, visit>>
  BY DEF AnalyzeFrame, settings, frames
<1>4. analyzer' \in {"wait", "emit"}
  BY <1>3 DEF Onward
<1>5. /\ D \in Seq(Detection)
      /\ \A i \in DOMAIN D : D[i].place = held[D[i].who]
      /\ \A v : ~ Twice(D, v)
      /\ \A v \in Visitor : FoundIn(D, v, Len(D)) <=> looks /\ enabled /\ held[v] # None
  <2>1. CASE looks /\ enabled
    <3>1. D \in Detections /\ held \in Frames
      BY <1>2, <2>1 DEF Typed, Pictures
    <3>2. QED
      BY <2>1, <3>1, DetectionsAre
  <2>2. CASE ~ (looks /\ enabled)
    <3>1. D = <<>>
      BY <1>2, <2>2
    <3>2. D \in Seq(Detection) /\ Len(D) = 0 /\ DOMAIN D = {}
      BY <3>1
    <3>3. QED
      BY <2>2, <3>2 DEF Twice, FoundIn
  <2>3. QED
    BY <2>1, <2>2
<1>6. ASSUME NEW v \in InView'
      PROVE  Watched(v)'
  <2>1. v \in Visitor /\ Watched(v)
    BY <1>3, <1>6, InViewIs DEF Single
  <2>2. looks \in BOOLEAN /\ (since >= ForceEvery => looks)
    BY <1>1
  <2>3. QED
    BY <1>1, <1>2, <1>3, <1>4, <1>5, <2>1, <2>2, LookWatches
<1>7. QED
  BY <1>6 DEF Single

LEMMA FailedLookWatched ==
    ASSUME Typed, Typed', Single, DetectionFails \/ MatchFails
    PROVE  Single'
<1>1. PICK D \in Seq(Detection) :
        /\ tracks' = Associate(Kept(tracks, knobs), D, knobs).tracks
        /\ \A v \in Visitor : \A i \in DOMAIN D : D[i].who = v => held[v] # None
  <2>1. CASE DetectionFails
    <3>1. tracks' = Associate(Kept(tracks, knobs), <<>>, knobs).tracks
      BY <2>1 DEF DetectionFails, Follow
    <3> DEFINE D == <<>>
    <3>2. D \in Seq(Detection) /\ DOMAIN D = {}
      OBVIOUS
    <3> HIDE DEF D
    <3>3. \A v \in Visitor : \A i \in DOMAIN D : D[i].who = v => held[v] # None
      BY <3>2
    <3>4. QED
      BY <3>1, <3>2, <3>3 DEF D
  <2>2. CASE MatchFails
    <3>1. PICK D \in Detections : tracks' = Associate(Kept(tracks, knobs), D, knobs).tracks
      BY <2>2 DEF MatchFails
    <3>2. held \in Frames
      BY DEF Typed, Pictures
    <3>3. /\ D \in Seq(Detection)
          /\ \A v \in Visitor : FoundIn(D, v, Len(D)) <=> held[v] # None
      BY <3>1, <3>2, DetectionsAre
    <3>4. DOMAIN D = 1 .. Len(D)
      BY <3>3
    <3>5. QED
      BY <3>1, <3>3, <3>4 DEF FoundIn
  <2>3. QED
    BY <2>1, <2>2
<1>2. where' = where /\ visit' = Disturbed(InView) /\ UNCHANGED <<slot, held>>
  BY DEF DetectionFails, MatchFails, frames
<1>3. ASSUME NEW v \in InView
      PROVE  Handed(v)'
  <2>1. v \in Visitor /\ Handed(v)
    BY InViewIs DEF Single, Watched
  <2>2. QED
    BY <1>1, <1>2, <2>1, FollowHands
<1>4. QED
  BY <1>2, <1>3, AllUpset

LEMMA SingleStart ==
    ASSUME Init, Typed
    PROVE  Single
<1>1. /\ slot = None /\ held = Empty /\ tracks = <<>> /\ todo = <<>>
      /\ visit = [v \in Visitor |-> [NewVisit EXCEPT !.clear =
             \A u \in Visitor \ {v} : None \notin {where[u], where[v]} => Iou(where[u], where[v]) = 0]]
  BY DEF Init
<1>2. ASSUME NEW v \in Visitor, NEW b
      PROVE  b \in Boxes(v) <=> b # None /\ b = where[v]
  <2>1. SeenAt(where, slot, held, tracks, v, b) <=> b # None /\ b = where[v]
    BY <1>1 DEF SeenAt, Empty
  <2>2. QED
    BY <2>1, BoxesAre
<1>3. ASSUME NEW v \in InView
      PROVE  Watched(v)
  <2>1. v \in Visitor /\ where[v] # None /\ where \in Frames
    BY InViewIs DEF Typed, Pictures
  <2>2. ~ Follows(v) /\ Handed(v)
    BY <1>1, <2>1 DEF Follows, Handed, Empty
  <2> DEFINE c == \A u \in Visitor \ {v} : None \notin {where[u], where[v]} => Iou(where[u], where[v]) = 0
  <2>3. visit[v] = [NewVisit EXCEPT !.clear = c]
    BY <1>1, <2>1
  <2>4. visit[v].clear = c /\ visit[v].rows = 0
    <3>1. c \in BOOLEAN
      OBVIOUS
    <3> HIDE DEF c
    <3>2. QED
      BY <2>3, <3>1, NewVisitIs
  <2>5. ASSUME visit[v].clear
        PROVE  Apart(v) /\ Near(v) /\ One(tracks, v)
    <3>1. Apart(v)
      <4>1. ASSUME NEW u \in Visitor \ {v}, NEW a \in Boxes(v), NEW b \in Boxes(u)
            PROVE  Iou(a, b) = 0
        <5>1. a = where[v] /\ b = where[u] /\ a # None /\ b # None
          BY <1>2, <2>1, <4>1
        <5>2. Iou(b, a) = 0
          BY <2>4, <2>5, <5>1
        <5>3. a \in Place /\ b \in Place
          BY <2>1, <5>1 DEF Frames
        <5>4. QED
          BY <5>2, <5>3, IouAssumption
      <4>2. QED
        BY <4>1 DEF Apart
    <3>2. Near(v)
      BY <1>2, <2>1, KnobsAssumption DEF Near, Typed, Settings, Frames
    <3>3. One(tracks, v)
      BY <1>1 DEF One
    <3>4. QED
      BY <3>1, <3>2, <3>3
  <2>6. Unwritten(v) = {}
    BY <1>1 DEF Unwritten
  <2>7. Lone(v) /\ Soon(v)
    BY <1>1, <2>2, <2>4, <2>6 DEF Lone, Soon
  <2>8. QED
    BY <2>2, <2>5, <2>7 DEF Watched
<1>4. QED
  BY <1>3 DEF Single

LEMMA SingleStep ==
    ASSUME Typed, Typed', Single, [Next]_vars
    PROVE  Single'
<1>1. CASE UNCHANGED vars
  BY <1>1, IdleWatched DEF vars, threads
<1>2. CASE People
  BY <1>2, ArriveWatched, MoveWatched, LeaveWatched DEF People
<1>3. CASE Reading
  BY <1>3, ReadingWatched
<1>4. CASE Analyzing
  BY <1>4, LookWatched, PaceWatched, AnalyzeWatched, InsertWatched, ShiftWatched, EndsWatched DEF Analyzing
<1>5. CASE Faults
  <2>1. CASE StreamFails \/ StreamRecovers
    BY <2>1, IdleWatched DEF StreamFails, StreamRecovers, threads
  <2>2. QED
    BY <1>5, <2>1, MissingWatched, FailedLookWatched, ShiftWatched DEF Faults
<1>6. CASE Managing
  BY <1>6, ManagingWatched
<1>7. CASE Watching
  BY <1>7, IdleWatched DEF Watching, threads
<1>8. QED
  BY <1>1, <1>2, <1>3, <1>4, <1>5, <1>6, <1>7 DEF Next

\* A visitor nothing goes wrong for, and whom nobody else comes close to, has one row and
\* not two until their track is as old as a track may be, in whatever order the faces of a
\* frame are found, if tracks may idle as long as the analyzer may pause (tracker.py, reader.py).
THEOREM OneRowHolds ==
    ASSUME Patient
    PROVE  Spec => []OneRowPerVisit
<1>1. Init => Typed /\ Single
  BY TypedStart, SingleStart
<1>2. Typed /\ Single /\ [Next]_vars => (Typed /\ Single)'
  BY TypedStep, SingleStep
<1>3. Single => OneRowPerVisit
  BY DEF Single, Watched, Young, Lone, OneRowPerVisit
<1>4. QED
  BY <1>1, <1>2, <1>3, PTL DEF Spec

(***************************************************************************)
(* Nobody is overlooked: for every visitor without a row the invariant     *)
(* tells where their face is on its way to the analyzer, and which tracks  *)
(* it cannot be taken for.                                                 *)
(***************************************************************************)
Free(a, b) == None \notin {a, b} => Iou(a, b) = 0

\* Where a visitor stands and has been pictured.
Shots(v) == {where[v], Seen(slot, v), held[v]}

Shown(v) ==
    /\ held[v] # None => Seen(slot, v) # None
    /\ held[v] = None /\ Seen(slot, v) # None => fresh

\* While units pass the visitor stands free of the others.  Their place in the frame read
\* before that is looked at once more after the first of these units, and in hand at the
\* second.
Spaced(v) ==
    LET stay == visit[v].stay IN
    \A u \in Visitor \ {v} :
        /\ stay >= 1 => \A b \in Shots(u) : Free(where[v], b)
        /\ fresh /\ (stay >= 2 \/ (stay = 1 /\ analyzer = "pace")) =>
              \A b \in Shots(u) : Free(Seen(slot, v), b)
        /\ (analyzer = "pace" /\ stay >= 2) \/ (analyzer = "detect" /\ stay >= 3) =>
              Free(held[v], held[u])

\* A visitor who still waits for a row.
Rowless(v) == visit[v].rows = 0 /\ Unwritten(v) = {}

\* A track begun later than one unit after something last went wrong for a visitor.
Recent(t, v) == t.age + 1 < visit[v].stay /\ t.age <= MaxCap

Clear(v, t) ==
    /\ t.who # v /\ Free(where[v], t.box)
    /\ fresh => Free(Seen(slot, v), t.box)
    /\ analyzer \in {"pace", "detect"} => Free(held[v], t.box)

Unmixed(v) ==
    Rowless(v) => \A i \in DOMAIN tracks : Recent(tracks[i], v) => Clear(v, tracks[i])

\* The way of a face from the picture to the analyzer's hand.
Nearing(v) ==
    LET stay == visit[v].stay IN
    /\ stay > 0 => enabled
    /\ Seen(slot, v) = None /\ fresh => stay <= 1 /\ (analyzer = "pace" => stay = 0)
    /\ held[v] = None => stay <= 2 /\ (analyzer = "pace" => stay <= 1)

\* By how much a visit may be older than the last detection.
Lag(v) == IF visit[v].clear THEN 2 ELSE MaxCap + 1

InHand(v) ==
    LET stay == visit[v].stay IN
    /\ stay <= since + Lag(v)
    /\ analyzer \in {"wait", "emit", "publish"} /\ since = ForceEvery => stay = 0
    /\ analyzer = "pace" /\ since = ForceEvery => stay <= 2

Timely(v) ==
    /\ held[v] # None /\ Rowless(v) => InHand(v)
    /\ visit[v].rows = 0 => visit[v].stay <= ForceEvery + Lag(v)
    /\ visit[v].clear /\ Rowless(v) => ~ Follows(v)

Attended(v) == Shown(v) /\ Spaced(v) /\ Unmixed(v) /\ Nearing(v) /\ Timely(v)

Punctual == \A v \in InView : Attended(v)

LEMMA Bounds ==
    /\ ForceEvery \in Nat \ {0} /\ MaxCap \in Nat \ {0}
    /\ \A v \in Visitor : Story => /\ visit[v] \in Visit /\ visit[v].stay \in Nat
                                   /\ Lag(v) \in Nat /\ Lag(v) >= 2
<1>1. MaxCap \in Nat \ {0}
  <2>1. PICK k \in Knobs : k.cap \in Nat \ {0}
    BY KnobsAssumption
  <2>2. QED
    BY <2>1, Limits
<1>2. QED
  BY <1>1, PaceAssumption DEF Story, Visit, Lag

\* How a step may disturb a visit.
LEMMA DisturbedTo ==
    ASSUME Story, NEW S, NEW v \in Visitor
    PROVE  /\ Disturbed(S)[v] = visit[v] \/ Disturbed(S)[v] = Upset(visit[v])
           /\ v \in S \cap InView => Disturbed(S)[v] = Upset(visit[v])
           /\ Upset(visit[v]).stay = 0 /\ Upset(visit[v]).rows = visit[v].rows
           /\ Upset(visit[v]).clear = FALSE
<1>1. visit[v] \in Visit
  BY DEF Story
<1>2. Disturbed(S)[v] = IF v \in S \cap InView THEN Upset(visit[v]) ELSE visit[v]
  BY DEF Disturbed
<1>3. /\ Upset(visit[v]).stay = 0 /\ Upset(visit[v]).rows = visit[v].rows
      /\ Upset(visit[v]).clear = FALSE
  BY <1>1 DEF Upset, Visit
<1>4. QED
  BY <1>2, <1>3

\* A visit whose count begins anew has everything before it.
LEMMA BeginsAnew ==
    ASSUME Typed', NEW v \in Visitor, visit'[v].stay = 0, Shown(v)',
           visit'[v].clear => ~ Follows(v)'
    PROVE  Attended(v)'
<1>1. /\ ForceEvery \in Nat \ {0} /\ MaxCap \in Nat /\ since' \in Nat
  BY Bounds DEF Typed, Trail
<1>2. Spaced(v)'
  BY DEF Spaced
<1>3. Unmixed(v)'
  <2>1. ASSUME NEW i \in DOMAIN tracks' PROVE tracks'[i].age \in Nat
    <3>1. tracks'[i] \in Trk
      BY DEF Typed, Trail
    <3>2. QED
      BY <3>1, Limits DEF Trk
  <2>2. \A i \in DOMAIN tracks' : ~ (tracks'[i].age + 1 < visit'[v].stay)
    BY <2>1
  <2>3. QED
    BY <2>2 DEF Unmixed, Recent
<1>4. Nearing(v)'
  BY DEF Nearing
<1>5. Timely(v)'
  <2>1. Lag(v)' \in Nat
    BY <1>1 DEF Lag
  <2>2. QED
    BY <1>1, <2>1 DEF Timely, InHand
<1>6. QED
  BY <1>2, <1>3, <1>4, <1>5 DEF Attended

\* Steps that leave alone where a visitor is seen, and do not make them wait again.
LEMMA CalmKeeps ==
    ASSUME NEW v \in Visitor, Attended(v),
           UNCHANGED <<where, slot, held, fresh, since, tracks, enabled>>,
           visit'[v].stay = visit[v].stay, visit'[v].clear = visit[v].clear,
           visit'[v].rows = 0 => visit[v].rows = 0,
           Rowless(v)' => Rowless(v),
           analyzer' \in {"pace", "detect"} => analyzer' = analyzer,
           analyzer' \in {"wait", "emit", "publish"} => analyzer \in {"wait", "emit", "publish"}
    PROVE  Attended(v)'
<1>1. Shown(v)'
  BY DEF Attended, Shown, Seen
<1>2. Spaced(v)'
  BY DEF Attended, Spaced, Shots, Free, Seen
<1>3. Unmixed(v)'
  BY DEF Attended, Unmixed, Recent, Clear, Free, Seen
<1>4. Nearing(v)'
  BY DEF Attended, Nearing, Seen
<1>5. Timely(v)'
  BY DEF Attended, Timely, InHand, Lag, Follows
<1>6. QED
  BY <1>1, <1>2, <1>3, <1>4, <1>5 DEF Attended

LEMMA ShotsAreBoxes ==
    ASSUME NEW v
    PROVE  /\ \A b \in Shots(v) : b # None => b \in Boxes(v)
           /\ \A i \in DOMAIN tracks : tracks[i].who = v /\ tracks[i].box # None => tracks[i].box \in Boxes(v)
<1>1. \A b \in Shots(v) : b # None => b \in Boxes(v)
  BY DEF Shots, Boxes
<1>2. ASSUME NEW i \in DOMAIN tracks, tracks[i].who = v, tracks[i].box # None
      PROVE  tracks[i].box \in Boxes(v)
  <2>1. SeenAt(where, slot, held, tracks, v, tracks[i].box)
    BY <1>2 DEF SeenAt
  <2>2. QED
    BY <2>1, BoxesAre
<1>3. QED
  BY <1>1, <1>2

\* Somebody else goes, or comes to where they are in no one's way.
LEMMA OthersGo ==
    ASSUME NEW v \in Visitor, Attended(v),
           UNCHANGED <<slot, held, fresh, analyzer, since, tracks, todo, enabled>>,
           visit'[v] = visit[v], where'[v] = where[v],
           \A u \in Visitor \ {v} : \/ where'[u] = where[u] \/ where'[u] = None
                                    \/ \A b \in Boxes(v) : Iou(b, where'[u]) = 0
    PROVE  Attended(v)'
<1>1. Shown(v)' /\ Nearing(v)'
  BY DEF Attended, Shown, Nearing, Seen
<1>2. Unmixed(v)' /\ Timely(v)'
  BY DEF Attended, Unmixed, Rowless, Unwritten, Recent, Clear, Free, Seen, Timely, InHand, Lag, Follows
<1>3. Spaced(v)'
  <2>1. ASSUME NEW u \in Visitor \ {v}, NEW b \in Shots(u)', b \notin Shots(u)
        PROVE  b = None \/ \A a \in Shots(v) : Free(a, b)
    <3>1. b = where'[u]
      BY <2>1 DEF Shots, Seen
    <3>2. \A a \in Shots(v) : a # None => a \in Boxes(v)
      BY ShotsAreBoxes
    <3>3. QED
      BY <2>1, <3>1, <3>2 DEF Free, Shots
  <2>2. where[v] \in Shots(v) /\ Seen(slot, v) \in Shots(v)
    BY DEF Shots
  <2>3. \A a : Free(a, None)
    BY DEF Free
  <2>4. ASSUME NEW u \in Visitor \ {v}
        PROVE  /\ visit'[v].stay >= 1 => \A b \in Shots(u)' : Free(where'[v], b)
               /\ fresh' /\ (visit'[v].stay >= 2 \/ (visit'[v].stay = 1 /\ analyzer' = "pace")) =>
                      \A b \in Shots(u)' : Free(Seen(slot, v)', b)
               /\ (analyzer' = "pace" /\ visit'[v].stay >= 2) \/ (analyzer' = "detect" /\ visit'[v].stay >= 3) =>
                      Free(held'[v], held'[u])
    <3>1. Seen(slot, v)' = Seen(slot, v)
      BY DEF Seen
    <3>2. QED
      BY <2>1, <2>2, <2>3, <3>1 DEF Attended, Spaced, Free
  <2>5. QED
    BY <2>4 DEF Spaced, Free
<1>4. QED
  BY <1>1, <1>2, <1>3 DEF Attended

\* Or the visitor does.
LEMMA OneselfGoes ==
    ASSUME Typed, Typed', NEW v \in Visitor, Attended(v),
           UNCHANGED <<slot, held, fresh, analyzer, since, tracks, todo, enabled>>,
           visit'[v] = visit[v],
           \A u \in Visitor \ {v} : /\ where'[u] = where[u]
                                    /\ \A b \in Boxes(u) : Iou(where'[v], b) = 0
    PROVE  Attended(v)'
<1>1. Shown(v)' /\ Nearing(v)'
  BY DEF Attended, Shown, Nearing, Seen
<1>2. Timely(v)'
  BY DEF Attended, Rowless, Unwritten, Timely, InHand, Lag, Follows
<1>3. Unmixed(v)'
  <2>1. ASSUME NEW i \in DOMAIN tracks, tracks[i].who # v
        PROVE  Free(where'[v], tracks[i].box)
    <3>1. tracks[i] \in Trk
      BY DEF Typed, Trail
    <3>2. tracks[i].who \in Visitor \ {v} /\ tracks[i].box # None
      BY <2>1, <3>1, NoneAssumption DEF Trk
    <3>3. tracks[i].box \in Boxes(tracks[i].who)
      BY <3>2, ShotsAreBoxes
    <3>4. QED
      BY <3>2, <3>3 DEF Free
  <2>2. Rowless(v)' => Rowless(v)
    BY DEF Rowless, Unwritten
  <2>3. QED
    BY <2>1, <2>2 DEF Attended, Unmixed, Recent, Clear, Free, Seen
<1>4. Spaced(v)'
  <2>1. ASSUME NEW u \in Visitor \ {v}
        PROVE  Shots(u)' = Shots(u) /\ \A b \in Shots(u) : Free(where'[v], b)
    <3>1. \A b \in Shots(u) : b # None => b \in Boxes(u)
      BY ShotsAreBoxes
    <3>2. QED
      BY <2>1, <3>1 DEF Free, Shots, Seen
  <2>2. QED
    BY <2>1 DEF Attended, Spaced, Free, Seen
<1>5. QED
  BY <1>1, <1>2, <1>3, <1>4 DEF Attended

LEMMA UpsetAnew ==
    ASSUME Typed, Typed', NEW v \in Visitor, visit'[v] = Upset(visit[v]), Shown(v)'
    PROVE  Attended(v)'
<1>1. visit'[v].stay = 0 /\ visit'[v].clear = FALSE
  BY DisturbedTo DEF Typed
<1>2. QED
  BY <1>1, BeginsAnew

LEMMA ShownStays ==
    ASSUME NEW v, Shown(v), UNCHANGED <<slot, held, fresh>>
    PROVE  Shown(v)'
  BY DEF Shown, Seen

\* One visitor comes to a place; what that is to another who waits.
LEMMA OthersComeBy ==
    ASSUME Typed, Typed', NEW u \in Visitor, NEW place \in Place, NEW v \in Visitor \ {u},
           v \in InView, Attended(v), where' = [where EXCEPT ![u] = place],
           UNCHANGED <<settings, threads, frames, tracking>>,
           NEW S, Beset(u, place) \subseteq S, visit'[v] = Disturbed(S)[v]
    PROVE  Attended(v)'
<1>1. CASE visit'[v] = Upset(visit[v])
  <2>1. Shown(v)'
    BY ShownStays DEF Attended, frames
  <2>2. QED
    BY <1>1, <2>1, UpsetAnew
<1>2. CASE visit'[v] # Upset(visit[v])
  <2>1. visit'[v] = visit[v] /\ v \notin S
    BY <1>2, DisturbedTo DEF Typed
  <2>2. v \notin Crowd(u, place)
    BY <2>1 DEF Beset
  <2>3. \A b \in Boxes(v) : Iou(b, place) = 0
    BY <2>2, CrowdIs
  <2>4. where'[u] = place /\ \A x \in Visitor \ {u} : where'[x] = where[x]
    BY DEF Typed, Pictures, Frames
  <2>5. QED
    BY <2>1, <2>3, <2>4, OthersGo DEF settings, threads, frames, tracking
<1>3. QED
  BY <1>1, <1>2

LEMMA ArriveAttended ==
    ASSUME Typed, Typed', Punctual, NEW u \in Visitor, NEW place \in Place, Arrive(u, place)
    PROVE  Punctual'
<1>1. /\ Boxes(u) = {}
      /\ where' = [where EXCEPT ![u] = place]
      /\ visit' = [Disturbed(Beset(u, place)) EXCEPT
                      ![u] = [NewVisit EXCEPT !.clear = (Beset(u, place) = {})]]
      /\ UNCHANGED <<settings, threads, frames, tracking>>
  BY DEF Arrive
<1>2. where \in Frames /\ where'[u] = place /\ \A x \in Visitor \ {u} : where'[x] = where[x]
  BY <1>1 DEF Typed, Pictures, Frames
<1>3. Disturbed(Beset(u, place)) \in [Visitor -> Visit]
  BY DisturbedIs DEF Typed
<1>4. ASSUME NEW v \in InView', v # u
      PROVE  Attended(v)'
  <2>1. v \in Visitor \ {u} /\ v \in InView
    BY <1>2, <1>4, InViewIs
  <2>2. visit'[v] = Disturbed(Beset(u, place))[v]
    BY <1>1, <1>3, <2>1
  <2>3. Attended(v)
    BY <2>1 DEF Punctual
  <2>4. QED
    BY <1>1, <2>1, <2>2, <2>3, OthersComeBy
<1>5. Attended(u)'
  <2>1. \A b \in Shots(u) : b = None
    BY <1>1, ShotsAreBoxes
  <2>2. held[u] = None /\ Seen(slot, u) = None
    BY <2>1 DEF Shots
  <2>3. Shown(u)'
    BY <1>1, <2>2 DEF Shown, Seen, frames
  <2>4. ~ Follows(u)'
    <3>1. ASSUME NEW i \in DOMAIN tracks, tracks[i].who = u PROVE FALSE
      <4>1. tracks[i] \in Trk
        BY DEF Typed, Trail
      <4>2. tracks[i].box # None
        BY <4>1, NoneAssumption DEF Trk
      <4>3. QED
        BY <1>1, <3>1, <4>2, ShotsAreBoxes
    <3>2. QED
      BY <1>1, <3>1 DEF Follows, tracking
  <2>5. visit'[u].stay = 0
    <3> DEFINE c == (Beset(u, place) = {})
    <3>1. visit'[u] = [NewVisit EXCEPT !.clear = c] /\ c \in BOOLEAN
      BY <1>1, <1>3
    <3> HIDE DEF c
    <3>2. QED
      BY <3>1, NewVisitIs
  <2>6. QED
    BY <2>3, <2>4, <2>5, BeginsAnew
<1>6. QED
  BY <1>4, <1>5 DEF Punctual

LEMMA MoveAttended ==
    ASSUME Typed, Typed', Punctual, NEW u \in Visitor, NEW place \in Place, Move(u, place)
    PROVE  Punctual'
<1> DEFINE lost == \E b \in Boxes(u) : Iou(place, b) = 0 \/ Iou(place, b) < knobs.iou
           S == Beset(u, place) \cup (IF lost THEN {u} ELSE {})
<1>1. /\ where[u] # None
      /\ where' = [where EXCEPT ![u] = place]
      /\ visit' = Disturbed(S)
      /\ UNCHANGED <<settings, threads, frames, tracking>>
  BY DEF Move
<1>2. where \in Frames /\ where'[u] = place /\ \A x \in Visitor \ {u} : where'[x] = where[x]
  BY <1>1 DEF Typed, Pictures, Frames
<1>3. Beset(u, place) \subseteq S
  OBVIOUS
<1> HIDE DEF S
<1>4. ASSUME NEW v \in InView', v # u
      PROVE  Attended(v)'
  <2>1. v \in Visitor \ {u} /\ v \in InView
    BY <1>2, <1>4, InViewIs
  <2>2. Attended(v) /\ visit'[v] = Disturbed(S)[v]
    BY <1>1, <2>1 DEF Punctual
  <2>3. QED
    BY <1>1, <1>3, <2>1, <2>2, OthersComeBy
<1>5. Attended(u)'
  <2>1. u \in InView /\ Attended(u)
    BY <1>1, InViewIs DEF Punctual
  <2>2. Shown(u)'
    BY <1>1, <2>1, ShownStays DEF Attended, frames
  <2>3. CASE visit'[u] = Upset(visit[u])
    BY <2>2, <2>3, UpsetAnew
  <2>4. CASE visit'[u] # Upset(visit[u])
    <3>1. visit'[u] = visit[u] /\ u \notin S
      BY <1>1, <2>1, <2>4, DisturbedTo DEF Typed
    <3>2. Crowd(u, place) = {}
      BY <1>3, <3>1 DEF Beset
    <3>3. \A x \in Visitor \ {u} : \A b \in Boxes(x) : Iou(place, b) = 0
      BY <3>2, CrowdIs
    <3>4. QED
      BY <1>1, <1>2, <2>1, <3>1, <3>3, OneselfGoes DEF settings, threads, frames, tracking
  <2>5. QED
    BY <2>3, <2>4
<1>6. QED
  BY <1>4, <1>5 DEF Punctual

LEMMA LeaveAttended ==
    ASSUME Typed, Typed', Punctual, NEW u \in Visitor, Leave(u)
    PROVE  Punctual'
<1>1. /\ where' = [where EXCEPT ![u] = None] /\ visit' = [visit EXCEPT ![u] = NewVisit]
      /\ UNCHANGED <<settings, threads, frames, tracking>>
  BY DEF Leave
<1>2. where \in Frames /\ where'[u] = None /\ \A x \in Visitor \ {u} : where'[x] = where[x]
  BY <1>1 DEF Typed, Pictures, Frames
<1>3. ASSUME NEW v \in InView'
      PROVE  Attended(v)'
  <2>1. v \in Visitor \ {u} /\ v \in InView
    BY <1>2, <1>3, InViewIs
  <2>2. Attended(v) /\ visit'[v] = visit[v]
    BY <1>1, <2>1 DEF Punctual, Typed, Story
  <2>3. QED
    BY <1>1, <1>2, <2>1, <2>2, OthersGo DEF settings, threads, frames, tracking
<1>4. QED
  BY <1>3 DEF Punctual

LEMMA PictureTaken ==
    ASSUME Typed, NEW v \in InView, Attended(v), slot' = where, fresh' = TRUE,
           UNCHANGED <<where, held, settings, tracking, visit, analyzer>>
    PROVE  Attended(v)'
<1>1. where # None /\ where[v] # None
  BY InViewIs, NoneAssumption DEF Typed, Pictures, Frames
<1>2. \A u : Seen(slot, u)' = where[u]
  BY <1>1 DEF Seen
<1>3. Shown(v)' /\ Nearing(v)'
  BY <1>1, <1>2 DEF Attended, Shown, Nearing, settings
<1>4. Unmixed(v)'
  BY <1>2 DEF Attended, Unmixed, Rowless, Unwritten, Recent, Clear, Free, tracking
<1>5. Timely(v)'
  BY DEF Attended, Rowless, Unwritten, Timely, InHand, Lag, Follows, tracking
<1>6. Spaced(v)'
  <2>1. ASSUME NEW u \in Visitor \ {v}
        PROVE  \A b \in Shots(u)' : b \in Shots(u)
    BY <1>2 DEF Shots
  <2>2. visit[v].stay >= 2 => visit[v].stay >= 1
    BY InViewIs, Bounds DEF Typed
  <2>3. visit[v].stay = 1 => visit[v].stay >= 1
    OBVIOUS
  <2>4. QED
    BY <1>2, <2>1, <2>2, <2>3 DEF Attended, Spaced, Free
<1>7. QED
  BY <1>3, <1>4, <1>5, <1>6 DEF Attended

LEMMA PictureLookedAt ==
    ASSUME Typed, NEW v \in InView, Attended(v), LookAtFrame
    PROVE  Attended(v)'
<1>1. /\ analyzer = "wait" /\ fresh /\ held' = slot /\ fresh' = FALSE /\ analyzer' = "pace"
      /\ UNCHANGED <<where, enabled, slot, since, tracks, todo, visit>>
  BY DEF LookAtFrame, settings, tracking
<1>2. slot # None /\ v \in Visitor
  BY <1>1, InViewIs DEF Typed, Pictures
<1>3. \A u : held'[u] = Seen(slot, u) /\ Seen(slot, u)' = Seen(slot, u)
  BY <1>1, <1>2 DEF Seen
<1>4. Shown(v)'
  BY <1>1, <1>3 DEF Shown
<1>5. Nearing(v)'
  <2>1. visit[v].stay \in Nat
    BY <1>2, Bounds DEF Typed
  <2>2. (visit[v].stay > 0 => enabled) /\ (Seen(slot, v) = None => visit[v].stay <= 1)
    BY <1>1 DEF Attended, Nearing
  <2>3. QED
    BY <1>1, <1>3, <2>1, <2>2 DEF Nearing
<1>6. Rowless(v)' <=> Rowless(v)
  BY <1>1 DEF Rowless, Unwritten
<1>7. Unmixed(v)'
  BY <1>1, <1>3, <1>6 DEF Attended, Unmixed, Recent, Clear, Free
<1>8. Timely(v)'
  <2>1. ASSUME Rowless(v)
        PROVE  InHand(v)'
    <3>1. since \in Nat /\ visit[v].stay \in Nat /\ Lag(v) \in Nat /\ Lag(v) >= 2
      BY <1>2, Bounds DEF Typed, Trail
    <3>2. CASE held[v] # None
      BY <1>1, <2>1, <3>1, <3>2 DEF Attended, Timely, InHand, Lag
    <3>3. CASE held[v] = None
      <4>1. visit[v].stay <= 2
        BY <3>3 DEF Attended, Nearing
      <4>2. QED
        BY <1>1, <3>1, <4>1 DEF InHand, Lag
    <3>4. QED
      BY <3>2, <3>3
  <2>2. Follows(v)' <=> Follows(v)
    BY <1>1 DEF Follows
  <2>3. QED
    BY <1>1, <1>6, <2>1, <2>2 DEF Attended, Timely, Lag
<1>9. Spaced(v)'
  <2>1. ASSUME NEW u \in Visitor \ {v}
        PROVE  \A b \in Shots(u)' : b \in Shots(u)
    BY <1>1, <1>3 DEF Shots
  <2>2. \A u : Seen(slot, u) \in Shots(u)
    BY DEF Shots
  <2>3. QED
    BY <1>1, <1>3, <2>1, <2>2 DEF Attended, Spaced, Free
<1>10. QED
  BY <1>4, <1>5, <1>7, <1>8, <1>9 DEF Attended

LEMMA ReadingAttended ==
    ASSUME Typed, Typed', Punctual, Reading
    PROVE  Punctual'
<1>1. /\ UNCHANGED <<where, held, settings, tracking, visit, analyzer>>
      /\ (slot' = where /\ fresh' = TRUE) \/ (slot' = slot /\ fresh' = fresh)
  BY DEF Reading, OpenStream, ReadFrame, ReaderEnds, frames
<1>2. ASSUME NEW v \in InView'
      PROVE  Attended(v)'
  <2>1. v \in Visitor /\ v \in InView /\ Attended(v)
    BY <1>1, <1>2, InViewIs DEF Punctual
  <2>2. CASE slot' = where /\ fresh' = TRUE
    BY <1>1, <2>1, <2>2, PictureTaken
  <2>3. CASE slot' = slot /\ fresh' = fresh
    <3>1. Rowless(v)' => Rowless(v)
      BY <1>1 DEF Rowless, Unwritten, tracking
    <3>2. QED
      BY <1>1, <2>1, <2>3, <3>1, CalmKeeps DEF settings, tracking
  <2>4. QED
    BY <1>1, <2>2, <2>3
<1>3. QED
  BY <1>2 DEF Punctual

LEMMA LookAttended ==
    ASSUME Typed, Typed', Punctual, LookAtFrame
    PROVE  Punctual'
<1>1. where' = where
  BY DEF LookAtFrame
<1>2. QED
  BY <1>1, PictureLookedAt, InViewIs DEF Punctual

(***************************************************************************)
(* A unit of time.                                                         *)
(***************************************************************************)
LEMMA StayPasses ==
    ASSUME NEW x \in Visit, NEW h \in Nat
    PROVE  LET y == [x EXCEPT !.stay = UpTo(x.stay, h)] IN
           y.stay \in Nat /\ y.stay <= x.stay + 1 /\ y.rows = x.rows /\ y.clear = x.clear
<1>1. UpTo(x.stay, h) \in Nat /\ UpTo(x.stay, h) <= x.stay + 1
  BY DEF UpTo, Visit
<1> DEFINE n == UpTo(x.stay, h)
<1> HIDE DEF n
<1>2. /\ [x EXCEPT !.stay = n].stay = n /\ [x EXCEPT !.stay = n].rows = x.rows
      /\ [x EXCEPT !.stay = n].clear = x.clear
  BY DEF Visit
<1>3. QED
  BY <1>1, <1>2 DEF n

LEMMA TracksAge ==
    ASSUME Typed, NEW c \in BOOLEAN, TimePasses(c)
    PROVE  /\ DOMAIN tracks' = DOMAIN tracks
           /\ \A i \in DOMAIN tracks : /\ tracks'[i].who = tracks[i].who /\ tracks'[i].box = tracks[i].box
                                       /\ tracks'[i].age \in Nat /\ tracks[i].age \in Nat
                                       /\ tracks'[i].age <= MaxCap => tracks'[i].age = tracks[i].age + 1
<1>1. tracks' = [i \in DOMAIN tracks |-> Aged(tracks[i])]
  BY DEF TimePasses, Aged
<1>2. \A i \in DOMAIN tracks : tracks[i] \in Trk
  BY DEF Typed, Trail
<1>3. MaxCap \in Nat
  BY Bounds
<1>4. ASSUME NEW i \in DOMAIN tracks
      PROVE  /\ Aged(tracks[i]).who = tracks[i].who /\ Aged(tracks[i]).box = tracks[i].box
             /\ Aged(tracks[i]).age \in Nat /\ tracks[i].age \in Nat
             /\ Aged(tracks[i]).age <= MaxCap => Aged(tracks[i]).age = tracks[i].age + 1
  <2>1. tracks[i] \in Trk /\ Aged(tracks[i]) \in Trk
    BY <1>2, TrackAges
  <2>2. tracks[i].age \in 0 .. MaxCap + 1 /\ Aged(tracks[i]).age \in 0 .. MaxCap + 1
    BY <2>1 DEF Trk
  <2>3. Aged(tracks[i]).age = UpTo(tracks[i].age, MaxCap + 1)
    <3> DEFINE r == tracks[i]
               n == UpTo(r.idle, MaxIdle + 1)
               a == UpTo(r.age, MaxCap + 1)
               x == [r EXCEPT !.idle = n]
    <3>1. Aged(r) = [x EXCEPT !.age = a]
      BY DEF Aged
    <3>2. x \in [who : Visitor, box : Place, idle : {n}, age : 0 .. MaxCap + 1]
      <4> HIDE DEF n
      <4>1. QED
        BY <2>1 DEF Trk
    <3> HIDE DEF x, a
    <3>3. [x EXCEPT !.age = a].age = a
      BY <3>2
    <3>4. QED
      BY <3>1, <3>3 DEF a
  <2>4. QED
    BY <1>3, <2>1, <2>2, <2>3, TrackAges DEF UpTo
<1>5. QED
  BY <1>1, <1>4

\* What it does to a visit.
Endures(c, v) ==
    /\ c /\ enabled
    /\ \A u \in Visitor \ {v} : \A b \in Shots(u) : Free(where[v], b)
    /\ visit'[v].rows = visit[v].rows /\ visit'[v].clear = visit[v].clear
    /\ visit'[v].stay <= visit[v].stay + 1

LEMMA TimeFor ==
    ASSUME Typed, NEW c \in BOOLEAN, TimePasses(c), NEW v \in InView
    PROVE  visit'[v] = Upset(visit[v]) \/ Endures(c, v)
<1>1. v \in Visitor /\ visit[v] \in Visit
  BY InViewIs DEF Typed, Story
<1> DEFINE Calm(w) ==
             /\ c /\ enabled
             /\ \A u \in Visitor \ {w} :
                  \A b \in {where[u], Seen(slot, u), held[u]} \ {None} : Iou(where[w], b) = 0
           On(x) == [x EXCEPT !.stay = UpTo(@, Horizon(x))]
<1>2. visit' = [w \in Visitor |-> IF w \notin InView THEN visit[w]
                                  ELSE IF Calm(w) THEN On(visit[w]) ELSE Upset(visit[w])]
  BY DEF TimePasses
<1> HIDE DEF On
<1>3. CASE Calm(v)
  <2> DEFINE h == Horizon(visit[v])
  <2>1. h \in Nat
    <3>1. ForceEvery \in Nat /\ MaxCap \in Nat /\ MinCap \in Nat
      BY PaceAssumption, Limits
    <3>2. QED
      BY <3>1 DEF Horizon
  <2> HIDE DEF h
  <2>2. visit'[v] = [visit[v] EXCEPT !.stay = UpTo(visit[v].stay, h)]
    <3>1. visit'[v] = On(visit[v])
      BY <1>1, <1>2, <1>3
    <3>2. QED
      BY <3>1 DEF On, h
  <2>3. /\ visit'[v].rows = visit[v].rows /\ visit'[v].clear = visit[v].clear
        /\ visit'[v].stay <= visit[v].stay + 1
    BY <1>1, <2>1, <2>2, StayPasses
  <2>4. \A u \in Visitor \ {v} : \A b \in Shots(u) : Free(where[v], b)
    BY <1>3 DEF Shots, Free
  <2>5. QED
    BY <1>3, <2>3, <2>4 DEF Endures
<1>4. CASE ~ Calm(v)
  <2> HIDE DEF Calm
  <2>1. QED
    BY <1>1, <1>2, <1>4
<1>5. QED
  BY <1>3, <1>4

LEMMA PaceFor ==
    ASSUME Typed, Typed', NEW v \in InView, Attended(v), Pace, Endures(TRUE, v)
    PROVE  Attended(v)'
<1>1. /\ analyzer = "pace" /\ analyzer' = "detect" /\ TimePasses(TRUE)
      /\ UNCHANGED <<where, slot, fresh, held, enabled, todo>>
  BY DEF Pace, frames, settings
<1>2. v \in Visitor
  BY InViewIs
<1> DEFINE s == visit[v].stay
           t == visit'[v].stay
<1>3. s \in Nat /\ t \in Nat /\ t <= s + 1
  <2>1. visit[v] \in Visit /\ visit'[v] \in Visit
    BY <1>2 DEF Typed, Story
  <2>2. QED
    BY <2>1 DEF Endures, Visit
<1>4. Shown(v)' /\ Attended(v)
  BY <1>1, ShownStays DEF Attended
<1>5. Nearing(v)'
  <2>1. Seen(slot, v)' = Seen(slot, v)
    BY <1>1 DEF Seen
  <2>2. /\ Seen(slot, v) = None /\ fresh => s = 0
        /\ held[v] = None => s <= 1
    BY <1>1 DEF Attended, Nearing
  <2>3. enabled'
    BY <1>1 DEF Endures
  <2>4. /\ Seen(slot, v)' = None /\ fresh' => t <= 1
        /\ held'[v] = None => t <= 2
    BY <1>1, <1>3, <2>1, <2>2
  <2>5. QED
    BY <1>1, <2>3, <2>4 DEF Nearing
<1>6. Spaced(v)'
  <2>1. \A u : Shots(u)' = Shots(u) /\ Seen(slot, u)' = Seen(slot, u)
    BY <1>1 DEF Shots, Seen
  <2>2. ASSUME NEW u \in Visitor \ {v}
        PROVE  /\ \A b \in Shots(u) : Free(where[v], b)
               /\ fresh /\ t >= 2 => \A b \in Shots(u) : Free(Seen(slot, v), b)
               /\ t >= 3 => Free(held[v], held[u])
    <3>1. t >= 2 => s >= 2 \/ (s = 1 /\ analyzer = "pace")
      BY <1>1, <1>3
    <3>2. t >= 3 => s >= 2
      BY <1>3
    <3>3. QED
      BY <1>1, <1>4, <3>1, <3>2 DEF Endures, Attended, Spaced
  <2>3. QED
    BY <1>1, <2>1, <2>2 DEF Spaced, Free
<1>7. (Rowless(v)' <=> Rowless(v)) /\ (Rowless(v) <=> visit[v].rows = 0)
  <2>1. Unwritten(v) = {} /\ Unwritten(v)' = {}
    BY <1>1, EmptyTodo DEF Unwritten
  <2>2. QED
    BY <2>1 DEF Rowless, Endures
<1>8. /\ DOMAIN tracks' = DOMAIN tracks
      /\ \A i \in DOMAIN tracks : /\ tracks'[i].who = tracks[i].who /\ tracks'[i].box = tracks[i].box
                                  /\ tracks'[i].age \in Nat /\ tracks[i].age \in Nat
                                  /\ tracks'[i].age <= MaxCap => tracks'[i].age = tracks[i].age + 1
  BY <1>1, TracksAge
<1>9. Unmixed(v)'
  <2>1. ASSUME NEW i \in DOMAIN tracks, Recent(tracks[i], v)'
        PROVE  Recent(tracks[i], v)
    <3>1. tracks'[i].age + 1 < t /\ tracks'[i].age <= MaxCap
      BY <2>1 DEF Recent
    <3>2. tracks'[i].age = tracks[i].age + 1 /\ tracks[i].age \in Nat /\ MaxCap \in Nat
      BY <1>8, <3>1, Bounds
    <3>3. QED
      BY <1>3, <3>1, <3>2 DEF Recent
  <2>2. ASSUME NEW i \in DOMAIN tracks, Clear(v, tracks[i])
        PROVE  Clear(v, tracks[i])'
    <3>1. tracks'[i].who = tracks[i].who /\ tracks'[i].box = tracks[i].box
      BY <1>8
    <3>2. QED
      BY <1>1, <2>2, <3>1 DEF Clear, Free, Seen
  <2>3. QED
    BY <1>4, <1>7, <1>8, <2>1, <2>2 DEF Attended, Unmixed
<1>10. Timely(v)'
  <2>1. since' = UpTo(since, ForceEvery) /\ since \in 0 .. ForceEvery /\ ForceEvery \in Nat \ {0}
    BY <1>1, Bounds DEF TimePasses, Typed, Trail
  <2>2. Lag(v)' = Lag(v) /\ Lag(v) \in Nat /\ Lag(v) >= 2
    BY <1>2, Bounds DEF Endures, Lag, Typed
  <2>3. held[v] # None /\ Rowless(v) => t <= since' + Lag(v)
    <3>1. ASSUME held[v] # None, Rowless(v)
          PROVE  t <= since' + Lag(v)
      <4>1. s <= since + Lag(v) /\ (since = ForceEvery => s <= 2)
        BY <1>1, <3>1 DEF Attended, Timely, InHand
      <4>2. CASE since = ForceEvery
        BY <1>3, <2>1, <2>2, <4>1, <4>2 DEF UpTo
      <4>3. CASE since # ForceEvery
        BY <1>3, <2>1, <2>2, <4>1, <4>3 DEF UpTo
      <4>4. QED
        BY <4>2, <4>3
    <3>2. QED
      BY <3>1
  <2>4. held'[v] # None /\ Rowless(v)' => InHand(v)'
    BY <1>1, <1>7, <2>2, <2>3 DEF InHand
  <2>5. visit'[v].rows = 0 => t <= ForceEvery + Lag(v)'
    <3>1. ASSUME visit'[v].rows = 0
          PROVE  t <= ForceEvery + Lag(v)
      <4>1. Rowless(v)
        BY <1>7, <3>1 DEF Endures
      <4>2. CASE held[v] = None
        BY <1>1, <1>3, <2>1, <2>2, <4>2 DEF Attended, Nearing
      <4>3. CASE held[v] # None
        <5>1. since' <= ForceEvery /\ since' \in Nat
          BY <2>1 DEF UpTo
        <5>2. QED
          BY <1>3, <2>1, <2>2, <2>3, <4>1, <4>3, <5>1
      <4>4. QED
        BY <4>2, <4>3
    <3>2. QED
      BY <2>2, <3>1
  <2>6. Follows(v)' <=> Follows(v)
    BY <1>8 DEF Follows
  <2>7. QED
    BY <1>4, <1>7, <2>4, <2>5, <2>6 DEF Timely, Attended, Endures
<1>11. QED
  BY <1>4, <1>5, <1>6, <1>9, <1>10 DEF Attended

LEMMA PaceAttended ==
    ASSUME Typed, Typed', Punctual, Pace
    PROVE  Punctual'
<1>1. TimePasses(TRUE) /\ where' = where /\ UNCHANGED <<slot, held, fresh>>
  BY DEF Pace, frames
<1>2. ASSUME NEW v \in InView'
      PROVE  Attended(v)'
  <2>1. v \in Visitor /\ v \in InView /\ Attended(v)
    BY <1>1, <1>2, InViewIs DEF Punctual
  <2>2. CASE Endures(TRUE, v)
    BY <2>1, <2>2, PaceFor
  <2>3. CASE visit'[v] = Upset(visit[v])
    BY <1>1, <2>1, <2>3, ShownStays, UpsetAnew DEF Attended
  <2>4. QED
    BY <1>1, <2>1, <2>2, <2>3, TimeFor
<1>3. QED
  BY <1>2 DEF Punctual

LEMMA MissingAttended ==
    ASSUME Typed, Typed', Punctual, FramesMissing
    PROVE  Punctual'
<1>1. TimePasses(FALSE) /\ where' = where /\ UNCHANGED <<slot, held, fresh>>
  BY DEF FramesMissing, frames
<1>2. ASSUME NEW v \in InView'
      PROVE  Attended(v)'
  <2>1. v \in Visitor /\ v \in InView /\ Attended(v)
    BY <1>1, <1>2, InViewIs DEF Punctual
  <2>2. visit'[v] = Upset(visit[v])
    BY <1>1, <2>1, TimeFor DEF Endures
  <2>3. QED
    BY <1>1, <2>1, <2>2, ShownStays, UpsetAnew DEF Attended
<1>3. QED
  BY <1>2 DEF Punctual

(***************************************************************************)
(* What the association makes of tracks and detections.                    *)
(***************************************************************************)
From(r, q, D) ==
    \E m \in DOMAIN q :
        /\ r.who = q[m].who /\ r.age = q[m].age
        /\ r.box = q[m].box \/ \E j \in DOMAIN D : r.box = D[j].place /\ Iou(D[j].place, q[m].box) > 0

NewIn(r, new, D) ==
    /\ r.age = 0 /\ \E l \in DOMAIN new : new[l] = r.who
    /\ \E j \in DOMAIN D : r.who = D[j].who /\ r.box = D[j].place

Placing(q, new, d) ==
    \/ \E l \in DOMAIN new : new[l] = d.who
    \/ \E m \in DOMAIN q : Iou(d.place, q[m].box) > 0

\* After n of the detections.
Halfway(s, q, D, n) ==
    /\ Sound(s) /\ s.open \subseteq DOMAIN q /\ \A i \in s.open : s.tracks[i] = q[i]
    /\ \A i \in DOMAIN s.tracks : From(s.tracks[i], q, D) \/ NewIn(s.tracks[i], s.new, D)
    /\ \A j \in 1 .. n : Placing(q, s.new, D[j])

LEMMA OneFurther ==
    ASSUME NEW q \in Seq(Trk), NEW D \in Seq(Detection), NEW k, NEW n \in 1 .. Len(D),
           NEW s, Halfway(s, q, D, n - 1)
    PROVE  Halfway(Claim(s, D[n], k), q, D, n)
<1> DEFINE d == D[n]
           t == Claim(s, d, k)
           best == Best(s.tracks, s.open, d.place, k)
<1>1. d \in Detection /\ n \in DOMAIN D /\ Sound(s)
  BY DEF Halfway
<1>2. \A j \in 1 .. n : j \in 1 .. (n - 1) \/ j = n
  OBVIOUS
<1>3. Sound(t) /\ ((best = {} /\ Begun(s, d, t)) \/ \E m \in best : Continued(s, d, t, m))
  BY <1>1, ClaimIs
<1>4. \A m \in best : m \in s.open /\ Iou(d.place, s.tracks[m].box) > 0
  BY DEF Best
<1>5. d.who = D[n].who /\ d.place = D[n].place
  OBVIOUS
<1>6. ASSUME \A j \in 1 .. (n - 1) : Placing(q, t.new, D[j]), Placing(q, t.new, d)
      PROVE  \A j \in 1 .. n : Placing(q, t.new, D[j])
  BY <1>2, <1>6
<1> HIDE DEF t, d, best
<1>7. CASE Begun(s, d, t)
  <2>1. /\ DOMAIN t.tracks = 1 .. (Len(s.tracks) + 1) /\ t.open = s.open /\ t.new = Append(s.new, d.who)
        /\ \A i \in DOMAIN s.tracks : t.tracks[i] = s.tracks[i]
        /\ t.tracks[Len(s.tracks) + 1] = [who |-> d.who, box |-> d.place, idle |-> 0, age |-> 0]
    BY <1>7 DEF Begun
  <2>2. DOMAIN s.tracks = 1 .. Len(s.tracks) /\ Len(s.tracks) \in Nat /\ s.open \subseteq DOMAIN s.tracks
        /\ s.new \in Seq(Visitor) /\ d.who \in Visitor
    BY <1>1 DEF Sound, Detection
  <2>3. /\ \A l \in DOMAIN s.new : l \in DOMAIN t.new /\ t.new[l] = s.new[l]
        /\ \E l \in DOMAIN t.new : t.new[l] = d.who
    <3>1. /\ DOMAIN s.new = 1 .. Len(s.new) /\ Len(s.new) \in Nat
          /\ DOMAIN t.new = 1 .. (Len(s.new) + 1) /\ t.new[Len(s.new) + 1] = d.who
          /\ \A l \in DOMAIN s.new : t.new[l] = s.new[l]
      BY <2>1, <2>2, AppendIs
    <3>2. Len(s.new) + 1 \in DOMAIN t.new /\ DOMAIN s.new \subseteq DOMAIN t.new
      BY <3>1
    <3>3. QED
      BY <3>1, <3>2
  <2>4. ASSUME NEW i \in DOMAIN t.tracks
        PROVE  From(t.tracks[i], q, D) \/ NewIn(t.tracks[i], t.new, D)
    <3>1. CASE i \in DOMAIN s.tracks
      <4>1. t.tracks[i] = s.tracks[i]
        BY <2>1, <3>1
      <4>2. From(s.tracks[i], q, D) \/ NewIn(s.tracks[i], s.new, D)
        BY <3>1 DEF Halfway
      <4>3. NewIn(s.tracks[i], s.new, D) => NewIn(s.tracks[i], t.new, D)
        BY <2>3 DEF NewIn
      <4>4. QED
        BY <4>1, <4>2, <4>3
    <3>2. CASE i \notin DOMAIN s.tracks
      <4>1. i = Len(s.tracks) + 1
        BY <2>1, <2>2, <3>2
      <4>2. t.tracks[i].who = d.who /\ t.tracks[i].box = d.place /\ t.tracks[i].age = 0
        BY <2>1, <4>1
      <4>3. NewIn(t.tracks[i], t.new, D)
        BY <1>1, <1>5, <2>3, <4>2 DEF NewIn
      <4>4. QED
        BY <4>3
    <3>3. QED
      BY <3>1, <3>2
  <2>5. \A j \in 1 .. (n - 1) : Placing(q, t.new, D[j])
    BY <2>3 DEF Halfway, Placing
  <2>6. Placing(q, t.new, d)
    BY <2>3 DEF Placing
  <2>7. t.open \subseteq DOMAIN q /\ \A i \in t.open : t.tracks[i] = q[i]
    BY <2>1, <2>2 DEF Halfway
  <2>8. Halfway(t, q, D, n)
    BY <1>3, <1>6, <2>4, <2>5, <2>6, <2>7 DEF Halfway
  <2>9. QED
    BY <2>8 DEF t, d
<1>8. ASSUME NEW m \in best, Continued(s, d, t, m)
      PROVE  Halfway(t, q, D, n)
  <2>1. /\ DOMAIN t.tracks = DOMAIN s.tracks /\ t.open = s.open \ {m} /\ t.new = s.new
        /\ \A i \in DOMAIN s.tracks \ {m} : t.tracks[i] = s.tracks[i]
        /\ t.tracks[m].who = s.tracks[m].who /\ t.tracks[m].age = s.tracks[m].age
        /\ t.tracks[m].box = d.place
    BY <1>8 DEF Continued
  <2>2. m \in s.open /\ m \in DOMAIN q /\ s.tracks[m] = q[m] /\ Iou(d.place, q[m].box) > 0
        /\ s.open \subseteq DOMAIN s.tracks
    BY <1>1, <1>4, <1>8 DEF Halfway, Sound
  <2>3. From(t.tracks[m], q, D)
    BY <1>1, <1>5, <2>1, <2>2 DEF From
  <2>4. \A i \in DOMAIN t.tracks : From(t.tracks[i], q, D) \/ NewIn(t.tracks[i], t.new, D)
    <3>1. ASSUME NEW i \in DOMAIN t.tracks, i # m
          PROVE  From(t.tracks[i], q, D) \/ NewIn(t.tracks[i], t.new, D)
      <4>1. t.tracks[i] = s.tracks[i] /\ i \in DOMAIN s.tracks /\ t.new = s.new
        BY <2>1, <3>1
      <4>2. From(s.tracks[i], q, D) \/ NewIn(s.tracks[i], s.new, D)
        BY <4>1 DEF Halfway
      <4>3. QED
        BY <4>1, <4>2
    <3>2. QED
      BY <2>3, <3>1
  <2>5. \A j \in 1 .. (n - 1) : Placing(q, t.new, D[j])
    BY <2>1 DEF Halfway
  <2>6. Placing(q, t.new, d)
    BY <2>2 DEF Placing
  <2>7. t.open \subseteq DOMAIN q /\ \A i \in t.open : t.tracks[i] = q[i]
    BY <2>1, <2>2 DEF Halfway
  <2>8. QED
    BY <1>3, <1>6, <2>4, <2>5, <2>6, <2>7 DEF Halfway
<1>9. QED
  BY <1>3, <1>7, <1>8 DEF t, d

LEMMA AssociateFrom ==
    ASSUME NEW q \in Seq(Trk), NEW D \in Seq(Detection), NEW k
    PROVE  Halfway(Associate(q, D, k), q, D, Len(D))
<1>1. PICK f : IsAfter(f, q, D, k) /\ Associate(q, D, k) = f[Len(D)]
  BY AfterMeans
<1>2. /\ Len(D) \in Nat /\ DOMAIN D = 1 .. Len(D)
      /\ f[0] = [tracks |-> q, open |-> DOMAIN q, new |-> <<>>]
      /\ \A n \in 1 .. Len(D) : f[n] = Claim(f[n - 1], D[n], k)
  BY <1>1, AfterSteps
<1> DEFINE T == {n \in 0 .. Len(D) : Halfway(f[n], q, D, n)}
<1>3. 0 \in T
  <2>1. f[0].tracks = q /\ f[0].open = DOMAIN q /\ f[0].new = <<>> /\ 0 \in 0 .. Len(D)
    BY <1>2
  <2>2. Sound(f[0])
    BY <2>1 DEF Sound
  <2>3. \A i \in DOMAIN q : From(q[i], q, D)
    BY DEF From
  <2>4. 1 .. 0 = {}
    OBVIOUS
  <2>5. Halfway(f[0], q, D, 0)
    BY <2>1, <2>2, <2>3, <2>4 DEF Halfway
  <2>6. QED
    BY <2>1, <2>5
<1>4. ASSUME NEW n \in 1 .. Len(D), n - 1 \in T
      PROVE  n \in T
  <2>1. Halfway(f[n - 1], q, D, n - 1) /\ n \in 0 .. Len(D)
    BY <1>2, <1>4
  <2>2. QED
    BY <1>2, <2>1, OneFurther
<1>5. Len(D) \in T
  <2>1. Len(D) \in 0 .. Len(D)
    BY <1>2
  <2> HIDE DEF T
  <2>2. QED
    BY <1>2, <1>3, <1>4, <2>1, CountsUp
<1>6. QED
  BY <1>1, <1>5

\* A look, for one visitor who waits for a row.
LEMMA LookAttends ==
    ASSUME Typed, NEW v \in InView, Watched(v), Attended(v),
           NEW D \in Seq(Detection), \A i \in DOMAIN D : D[i].place = held[D[i].who],
           NEW looks \in BOOLEAN, since >= ForceEvery => looks,
           FoundIn(D, v, Len(D)) <=> looks /\ enabled /\ held[v] # None,
           analyzer = "detect", Follow(D), since' = IF looks THEN 0 ELSE since,
           UNCHANGED <<where, slot, fresh, held, enabled, visit>>, analyzer' \in {"wait", "emit"}
    PROVE  Attended(v)'
<1> DEFINE q == Kept(tracks, knobs)
           t == Associate(q, D, knobs)
           stay == visit[v].stay
<1>1. tracks' = t.tracks /\ todo' = t.new
  BY DEF Follow
<1>2. /\ q \in Seq(Trk)
      /\ \A m \in DOMAIN q : \E i \in DOMAIN tracks : q[m] = tracks[i] /\ Fits(tracks[i], knobs)
  BY KeptIs DEF Typed, Trail
<1> HIDE DEF q
<1>3. Halfway(t, q, D, Len(D))
  BY <1>2, AssociateFrom
<1> HIDE DEF t
<1>4. /\ \A i \in DOMAIN tracks' : From(tracks'[i], q, D) \/ NewIn(tracks'[i], todo', D)
      /\ \A j \in 1 .. Len(D) : Placing(q, todo', D[j])
  BY <1>1, <1>3 DEF Halfway
<1>5. v \in Visitor /\ stay \in Nat /\ ForceEvery \in Nat \ {0} /\ MaxCap \in Nat \ {0}
      /\ since \in Nat /\ since <= ForceEvery /\ Lag(v) \in Nat /\ Lag(v) >= 2
  BY InViewIs, Bounds DEF Typed, Trail
<1>6. \A m \in DOMAIN q : \E i \in DOMAIN tracks :
        q[m] = tracks[i] /\ tracks[i].age \in Nat /\ tracks[i].age <= MaxCap
        /\ tracks[i].box # None /\ tracks[i].who \in Visitor
  <2>1. ASSUME NEW m \in DOMAIN q, NEW i \in DOMAIN tracks, q[m] = tracks[i], Fits(tracks[i], knobs)
        PROVE  tracks[i].age \in Nat /\ tracks[i].age <= MaxCap
               /\ tracks[i].box # None /\ tracks[i].who \in Visitor
    <3>1. tracks[i] \in Trk /\ knobs \in Knobs
      BY DEF Typed, Trail, Settings
    <3>2. tracks[i].age \in Nat /\ tracks[i].box \in Place /\ tracks[i].who \in Visitor
      BY <3>1, Limits DEF Trk
    <3>3. tracks[i].age <= knobs.cap /\ knobs.cap \in Nat /\ knobs.cap <= MaxCap
      BY <2>1, <3>1, Limits DEF Fits
    <3>4. QED
      BY <1>5, <3>2, <3>3, NoneAssumption
  <2>2. QED
    BY <1>2, <2>1
<1>7. \A j \in DOMAIN D : D[j].who \in Visitor /\ D[j].place = held[D[j].who] /\ D[j].place # None
  <2>1. \A j \in DOMAIN D : D[j] \in Detection
    OBVIOUS
  <2>2. QED
    BY <2>1, NoneAssumption DEF Detection
<1>8. Unwritten(v) = {} /\ Unwritten(v)' = {l \in DOMAIN todo' : todo'[l] = v}
  BY EmptyTodo DEF Unwritten
<1>9. Rowless(v)' => Rowless(v) /\ \A l \in DOMAIN todo' : todo'[l] # v
  BY <1>8 DEF Rowless
<1>10. Shown(v)'
  BY ShownStays DEF Attended
<1>11. Spaced(v)'
  <2>1. \A u : Shots(u)' = Shots(u) /\ Seen(slot, u)' = Seen(slot, u)
    BY DEF Shots, Seen
  <2>2. QED
    BY <2>1 DEF Attended, Spaced, Free
<1>12. Nearing(v)'
  <2>1. Seen(slot, v)' = Seen(slot, v)
    BY DEF Seen
  <2>2. QED
    BY <2>1 DEF Attended, Nearing
<1>13. ASSUME Rowless(v), NEW i \in DOMAIN tracks, Recent(tracks[i], v)
       PROVE  Clear(v, tracks[i])
  BY <1>13 DEF Attended, Unmixed
<1>14. ASSUME stay >= 2, NEW u \in Visitor \ {v}
       PROVE  Free(where[v], held[u]) /\ (fresh => Free(Seen(slot, v), held[u]))
  <2>1. held[u] \in Shots(u)
    BY DEF Shots
  <2>2. QED
    BY <1>5, <1>14, <2>1 DEF Attended, Spaced
<1>15. Unmixed(v)'
  <2>1. ASSUME Rowless(v)', NEW i \in DOMAIN tracks', Recent(tracks[i], v)'
        PROVE  Clear(v, tracks[i])'
    <3> DEFINE r == tracks'[i]
    <3>1. r.age + 1 < stay /\ r.age <= MaxCap
      BY <2>1 DEF Recent
    <3> HIDE DEF r
    <3>2. SUFFICES r.who # v /\ Free(where[v], r.box) /\ (fresh => Free(Seen(slot, v), r.box))
      <4>1. Seen(slot, v)' = Seen(slot, v)
        BY DEF Seen
      <4>2. QED
        BY <3>2, <4>1 DEF Clear, Free, r
    <3>3. ASSUME NEW j \in DOMAIN D, r.box = D[j].place, D[j].who # v, stay >= 2
          PROVE  Free(where[v], r.box) /\ (fresh => Free(Seen(slot, v), r.box))
      BY <1>7, <1>14, <3>3
    <3>4. CASE From(r, q, D)
      <4>1. PICK m \in DOMAIN q :
              /\ r.who = q[m].who /\ r.age = q[m].age
              /\ r.box = q[m].box \/ \E j \in DOMAIN D : r.box = D[j].place /\ Iou(D[j].place, q[m].box) > 0
        BY <3>4 DEF From
      <4>2. PICK o \in DOMAIN tracks :
              q[m] = tracks[o] /\ tracks[o].age \in Nat /\ tracks[o].box # None
        BY <1>6
      <4>3. Recent(tracks[o], v)
        BY <3>1, <4>1, <4>2 DEF Recent
      <4>4. Clear(v, tracks[o])
        BY <1>9, <1>13, <2>1, <4>3
      <4>5. stay >= 2
        BY <1>5, <3>1, <4>1, <4>2
      <4>6. CASE r.box = q[m].box
        BY <4>1, <4>2, <4>4, <4>6 DEF Clear
      <4>7. ASSUME NEW j \in DOMAIN D, r.box = D[j].place, Iou(D[j].place, q[m].box) > 0
            PROVE  D[j].who # v
        <5>1. Free(held[v], tracks[o].box)
          BY <4>4 DEF Clear
        <5>2. QED
          BY <1>7, <4>2, <4>7, <5>1 DEF Free
      <4>8. r.who # v
        BY <4>1, <4>2, <4>4 DEF Clear
      <4>9. QED
        BY <3>3, <4>1, <4>5, <4>6, <4>7, <4>8
    <3>5. CASE NewIn(r, todo', D)
      <4>1. r.age = 0 /\ (\E l \in DOMAIN todo' : todo'[l] = r.who)
            /\ \E j \in DOMAIN D : r.who = D[j].who /\ r.box = D[j].place
        BY <3>5 DEF NewIn
      <4>2. r.who # v
        BY <1>9, <2>1, <4>1
      <4>3. stay >= 2
        BY <1>5, <3>1, <4>1
      <4>4. QED
        BY <3>3, <4>1, <4>2, <4>3
    <3>6. QED
      BY <1>4, <3>4, <3>5 DEF r
  <2>2. QED
    BY <2>1 DEF Unmixed
<1>16. Follows(v)' /\ Rowless(v)' => Follows(v)
  <2>1. ASSUME NEW i \in DOMAIN tracks', tracks'[i].who = v, Rowless(v)'
        PROVE  Follows(v)
    <3>1. ~ NewIn(tracks'[i], todo', D)
      BY <1>9, <2>1 DEF NewIn
    <3>2. From(tracks'[i], q, D)
      BY <1>4, <3>1
    <3>3. PICK m \in DOMAIN q : q[m].who = v
      BY <2>1, <3>2 DEF From
    <3>4. QED
      BY <1>6, <3>3 DEF Follows
  <2>2. QED
    BY <2>1 DEF Follows
<1>17. Timely(v)'
  <2>1. Lag(v)' = Lag(v) /\ visit' = visit /\ held' = held
    BY DEF Lag
  <2>2. ASSUME held[v] # None, Rowless(v)'
        PROVE  InHand(v)'
    <3>1. Rowless(v) /\ InHand(v) /\ stay <= since + Lag(v)
      BY <1>9, <2>2 DEF Attended, Timely, InHand
    <3>2. CASE ~ looks
      <4>1. since' = since /\ since # ForceEvery
        BY <1>5, <3>2
      <4>2. QED
        BY <2>1, <3>1, <4>1 DEF InHand
    <3>3. CASE looks
      <4>1. since' = 0 /\ since' # ForceEvery
        BY <1>5, <3>3
      <4>2. ASSUME stay > 0
            PROVE  stay <= Lag(v)
        <5>1. enabled
          BY <4>2 DEF Attended, Nearing
        <5>2. PICK j \in 1 .. Len(D) : D[j].who = v
          BY <2>2, <3>3, <5>1 DEF FoundIn
        <5>3. j \in DOMAIN D
          OBVIOUS
        <5>4. D[j].place = held[v] /\ Placing(q, todo', D[j])
          BY <1>4, <1>7, <5>2, <5>3
        <5>5. PICK m \in DOMAIN q : Iou(held[v], q[m].box) > 0
          BY <1>9, <2>2, <5>2, <5>4 DEF Placing
        <5>6. PICK o \in DOMAIN tracks : /\ q[m] = tracks[o] /\ tracks[o].age \in Nat /\ tracks[o].age <= MaxCap
                                         /\ tracks[o].box # None /\ tracks[o].who \in Visitor
          BY <1>6
        <5>7. Iou(held[v], tracks[o].box) # 0
          BY <5>5, <5>6
        <5>8. ~ Recent(tracks[o], v)
          <6>1. ~ Free(held[v], tracks[o].box)
            BY <2>2, <5>6, <5>7 DEF Free
          <6>2. QED
            BY <1>13, <3>1, <6>1 DEF Clear
        <5>9. stay <= MaxCap + 1
          BY <1>5, <5>6, <5>8 DEF Recent
        <5>10. ~ visit[v].clear
          <6>1. SUFFICES ASSUME visit[v].clear PROVE FALSE
            OBVIOUS
          <6>2. tracks[o].who \in Visitor \ {v}
            BY <3>1, <5>6, <6>1 DEF Attended, Timely, Follows
          <6>3. tracks[o].box \in Boxes(tracks[o].who)
            BY <5>6, <6>2, ShotsAreBoxes
          <6>4. held[v] \in Boxes(v)
            BY <1>5, <2>2, ShotsAreBoxes DEF Shots
          <6>5. Apart(v)
            BY <6>1 DEF Watched
          <6>6. QED
            BY <5>7, <6>2, <6>3, <6>4, <6>5 DEF Apart
        <5>11. QED
          BY <5>9, <5>10 DEF Lag
      <4>3. stay <= Lag(v)
        BY <1>5, <4>2
      <4>4. QED
        BY <1>5, <2>1, <4>1, <4>3 DEF InHand
    <3>4. QED
      BY <3>2, <3>3
  <2>3. visit[v].rows = 0 => stay <= ForceEvery + Lag(v)
    BY DEF Attended, Timely
  <2>4. visit[v].clear /\ Rowless(v)' => ~ Follows(v)'
    BY <1>9, <1>16 DEF Attended, Timely
  <2>5. QED
    BY <2>1, <2>2, <2>3, <2>4 DEF Timely
<1>18. QED
  BY <1>10, <1>11, <1>12, <1>15, <1>17 DEF Attended

LEMMA AnalyzeAttended ==
    ASSUME Typed, Single, Punctual, AnalyzeFrame
    PROVE  Punctual'
<1>1. PICK looks \in {x \in BOOLEAN : since >= ForceEvery => x} :
        /\ \E detections \in IF looks /\ enabled THEN Detections ELSE {<<>>} : Follow(detections)
        /\ since' = IF looks THEN 0 ELSE since
  BY DEF AnalyzeFrame
<1>2. PICK D \in IF looks /\ enabled THEN Detections ELSE {<<>>} : Follow(D)
  BY <1>1
<1>3. /\ analyzer = "detect" /\ Onward(todo')
      /\ UNCHANGED <<where, slot, fresh, held, enabled, visit>>
  BY DEF AnalyzeFrame, settings, frames
<1>4. analyzer' \in {"wait", "emit"}
  BY <1>3 DEF Onward
<1>5. /\ D \in Seq(Detection)
      /\ \A i \in DOMAIN D : D[i].place = held[D[i].who]
      /\ \A v \in Visitor : FoundIn(D, v, Len(D)) <=> looks /\ enabled /\ held[v] # None
  <2>1. CASE looks /\ enabled
    <3>1. D \in Detections /\ held \in Frames
      BY <1>2, <2>1 DEF Typed, Pictures
    <3>2. QED
      BY <2>1, <3>1, DetectionsAre
  <2>2. CASE ~ (looks /\ enabled)
    <3>1. D = <<>>
      BY <1>2, <2>2
    <3>2. D \in Seq(Detection) /\ Len(D) = 0 /\ DOMAIN D = {}
      BY <3>1
    <3>3. QED
      BY <2>2, <3>2 DEF FoundIn
  <2>3. QED
    BY <2>1, <2>2
<1>6. ASSUME NEW v \in InView'
      PROVE  Attended(v)'
  <2>1. v \in Visitor /\ v \in InView /\ Watched(v) /\ Attended(v)
    BY <1>3, <1>6, InViewIs DEF Single, Punctual
  <2>2. looks \in BOOLEAN /\ (since >= ForceEvery => looks)
    BY <1>1
  <2>3. QED
    BY <1>1, <1>2, <1>3, <1>4, <1>5, <2>1, <2>2, LookAttends
<1>7. QED
  BY <1>6 DEF Punctual

(***************************************************************************)
(* The rows, the failures and the manager.                                 *)
(***************************************************************************)
LEMMA InsertAttended ==
    ASSUME Typed, Punctual, InsertRow
    PROVE  Punctual'
<1> DEFINE h == Head(todo)
<1>1. /\ analyzer = "emit" /\ analyzer' = "publish"
      /\ visit' = [visit EXCEPT ![h].rows = IF h \in InView THEN UpTo(@, 2) ELSE @]
      /\ UNCHANGED <<where, settings, frames, tracking>>
  BY DEF InsertRow
<1>2. h \in Visitor /\ h = todo[1] /\ 1 \in DOMAIN todo
  BY <1>1, TodoShrinks
<1> HIDE DEF h
<1>3. ASSUME NEW v \in InView'
      PROVE  Attended(v)'
  <2>1. v \in Visitor /\ v \in InView /\ Attended(v) /\ visit[v] \in Visit
        /\ visit \in [Visitor -> Visit]
    BY <1>1, <1>3, InViewIs DEF Punctual, Typed, Story
  <2>2. CASE v # h
    <3>1. visit'[v] = visit[v]
      BY <1>1, <2>1, <2>2
    <3>2. Rowless(v)' => Rowless(v)
      BY <1>1, <1>2, <2>2, <3>1 DEF Rowless, Unwritten, tracking
    <3>3. QED
      BY <1>1, <2>1, <3>1, <3>2, CalmKeeps DEF settings, frames, tracking
  <2>3. CASE v = h
    <3> DEFINE r == UpTo(visit[v].rows, 2)
    <3>1. visit'[v] = [visit[v] EXCEPT !.rows = r]
      BY <1>1, <2>1, <2>3
    <3>2. r # 0
      BY <2>1 DEF UpTo, Visit
    <3> HIDE DEF r
    <3>3. /\ [visit[v] EXCEPT !.rows = r].clear = visit[v].clear
          /\ [visit[v] EXCEPT !.rows = r].stay = visit[v].stay
          /\ [visit[v] EXCEPT !.rows = r].rows = r
      BY <2>1 DEF Visit
    <3>4. ~ Rowless(v)' /\ visit'[v].rows # 0
      BY <3>1, <3>2, <3>3 DEF Rowless
    <3>5. visit'[v].stay = visit[v].stay /\ visit'[v].clear = visit[v].clear
      BY <3>1, <3>3
    <3>6. QED
      BY <1>1, <2>1, <3>4, <3>5, CalmKeeps DEF settings, frames, tracking
  <2>4. QED
    BY <2>2, <2>3
<1>4. QED
  BY <1>3 DEF Punctual

LEMMA ShiftAttended ==
    ASSUME Typed, Typed', Punctual, EmitFails \/ Publish
    PROVE  Punctual'
<1>1. /\ analyzer \in {"emit", "publish"} /\ todo' = Tail(todo) /\ Onward(todo')
      /\ UNCHANGED <<where, settings, frames, since, tracks>>
      /\ IF analyzer = "emit" THEN visit' = Disturbed({Head(todo)}) ELSE visit' = visit
  BY DEF EmitFails, Publish
<1>2. analyzer' \in {"wait", "emit"}
  BY <1>1 DEF Onward
<1>3. /\ DOMAIN todo = 1 .. Len(todo) /\ Len(todo) \in Nat \ {0} /\ Head(todo) = todo[1]
      /\ DOMAIN todo' = 1 .. (Len(todo) - 1)
      /\ \A j \in DOMAIN todo' : todo'[j] = todo[j + 1]
  BY <1>1, TodoShrinks
<1>4. ASSUME NEW v \in InView'
      PROVE  Attended(v)'
  <2>1. v \in Visitor /\ v \in InView /\ Attended(v)
    BY <1>1, <1>4, InViewIs DEF Punctual
  <2>2. CASE visit'[v] = Upset(visit[v])
    <3>1. Shown(v)'
      BY <1>1, <2>1, ShownStays DEF Attended, frames
    <3>2. QED
      BY <2>1, <2>2, <3>1, UpsetAnew
  <2>3. CASE visit'[v] # Upset(visit[v])
    <3>1. visit'[v] = visit[v] /\ (analyzer = "emit" => Head(todo) # v)
      <4> DEFINE S == {Head(todo)}
      <4>1. CASE analyzer = "emit"
        <5>1. visit'[v] = Disturbed(S)[v] /\ (Head(todo) = v => v \in S \cap InView)
          BY <1>1, <2>1, <4>1
        <5> HIDE DEF S
        <5>2. QED
          BY <2>1, <2>3, <5>1, DisturbedTo DEF Typed
      <4>2. CASE analyzer # "emit"
        BY <1>1, <4>2
      <4>3. QED
        BY <4>1, <4>2
    <3>2. ASSUME NEW i \in Unwritten(v)
          PROVE  Unwritten(v)' # {}
      <4>1. i \in 1 .. Len(todo) /\ todo[i] = v /\ i # 1
        BY <1>1, <1>3, <3>1 DEF Unwritten
      <4>2. i - 1 \in DOMAIN todo' /\ (i - 1) + 1 = i
        BY <1>3, <4>1
      <4>3. todo'[i - 1] = v
        BY <1>3, <4>1, <4>2
      <4>4. i - 1 \in Unwritten(v)'
        BY <1>2, <4>2, <4>3 DEF Unwritten
      <4>5. QED
        BY <4>4
    <3>3. Rowless(v)' => Rowless(v)
      BY <3>1, <3>2 DEF Rowless
    <3>4. QED
      BY <1>1, <1>2, <2>1, <3>1, <3>3, CalmKeeps DEF settings, frames
  <2>4. QED
    BY <2>2, <2>3
<1>5. QED
  BY <1>4 DEF Punctual

\* Nothing happens to what is seen, or the analyzer ends.
LEMMA IdleAttended ==
    ASSUME Punctual, UNCHANGED <<where, slot, held, fresh, since, tracks, todo, enabled, visit>>,
           analyzer' = analyzer \/ (analyzer \in {"wait", "pace"} /\ analyzer' = "ended")
    PROVE  Punctual'
<1>1. ASSUME NEW v \in InView'
      PROVE  Attended(v)'
  <2>1. v \in Visitor /\ Attended(v)
    BY <1>1, InViewIs DEF Punctual
  <2>2. Rowless(v)' => Rowless(v)
    BY DEF Rowless, Unwritten
  <2>3. QED
    BY <2>1, <2>2, CalmKeeps
<1>2. QED
  BY <1>1 DEF Punctual

\* Everybody waits anew.
LEMMA AllWaitAnew ==
    ASSUME Typed, Typed', where' = where, visit' = Disturbed(InView),
           \A v \in InView : Shown(v)'
    PROVE  Punctual'
<1>1. ASSUME NEW v \in InView'
      PROVE  Attended(v)'
  <2>1. v \in Visitor /\ v \in InView
    BY <1>1, InViewIs
  <2>2. visit'[v] = Upset(visit[v])
    BY <2>1, DisturbedTo DEF Typed
  <2>3. QED
    BY <2>1, <2>2, UpsetAnew
<1>2. QED
  BY <1>1 DEF Punctual

LEMMA FailedLookAttended ==
    ASSUME Typed, Typed', Punctual, DetectionFails \/ MatchFails
    PROVE  Punctual'
<1>1. where' = where /\ visit' = Disturbed(InView) /\ UNCHANGED <<slot, fresh, held>>
  BY DEF DetectionFails, MatchFails, frames
<1>2. \A v \in InView : Shown(v)'
  BY <1>1, ShownStays DEF Punctual, Attended
<1>3. QED
  BY <1>1, <1>2, AllWaitAnew

LEMMA ManagingAttended ==
    ASSUME Typed, Typed', Punctual, Managing
    PROVE  Punctual'
<1>1. CASE \E k \in Knobs : UpdateTracker(k)
  <2>1. PICK k \in Knobs : UpdateTracker(k)
    BY <1>1
  <2> DEFINE S == {v \in InView : \E b, c \in Boxes(v) : Iou(b, c) < k.iou}
  <2>2. visit' = Disturbed(S) /\ UNCHANGED <<where, enabled, threads, frames, tracking>>
    BY <2>1 DEF UpdateTracker
  <2> HIDE DEF S
  <2>3. ASSUME NEW v \in InView'
        PROVE  Attended(v)'
    <3>1. v \in Visitor /\ Attended(v)
      BY <2>2, <2>3, InViewIs DEF Punctual
    <3>2. CASE visit'[v] = Upset(visit[v])
      <4>1. Shown(v)'
        BY <2>2, <3>1, ShownStays DEF Attended, frames
      <4>2. QED
        BY <3>1, <3>2, <4>1, UpsetAnew
    <3>3. CASE visit'[v] = visit[v]
      <4>1. Rowless(v)' => Rowless(v)
        BY <2>2, <3>3 DEF Rowless, Unwritten, tracking, threads
      <4>2. QED
        BY <2>2, <3>1, <3>3, <4>1, CalmKeeps DEF frames, tracking, threads
    <3>4. QED
      BY <2>2, <3>1, <3>2, <3>3, DisturbedTo DEF Typed
  <2>4. QED
    BY <2>3 DEF Punctual
<1>2. CASE UpdateDetectionEnabled
  <2>1. where' = where /\ visit' = Disturbed(InView) /\ UNCHANGED <<slot, fresh, held>>
    BY <1>2 DEF UpdateDetectionEnabled, frames
  <2>2. \A v \in InView : Shown(v)'
    BY <2>1, ShownStays DEF Punctual, Attended
  <2>3. QED
    BY <2>1, <2>2, AllWaitAnew
<1>3. CASE StopWorker
  BY <1>3, IdleAttended DEF StopWorker, settings, frames, tracking
<1>4. CASE StartWorker
  <2>1. /\ where' = where /\ visit' = Disturbed(InView)
        /\ slot' = None /\ held' = Empty
    BY <1>4 DEF StartWorker
  <2>2. \A v \in InView : Shown(v)'
    BY <2>1 DEF Shown, Seen, Empty, InView
  <2>3. QED
    BY <2>1, <2>2, AllWaitAnew
<1>5. QED
  BY <1>1, <1>2, <1>3, <1>4 DEF Managing

LEMMA PunctualStart ==
    ASSUME Init, Typed
    PROVE  Punctual
<1>1. slot = None /\ fresh = FALSE /\ held = Empty /\ tracks = <<>> /\ analyzer = "wait"
      /\ visit = [v \in Visitor |-> [NewVisit EXCEPT !.clear =
             \A u \in Visitor \ {v} : None \notin {where[u], where[v]} => Iou(where[u], where[v]) = 0]]
  BY DEF Init
<1>2. ASSUME NEW v \in InView
      PROVE  Attended(v)
  <2>1. v \in Visitor
    BY InViewIs
  <2> DEFINE c == \A u \in Visitor \ {v} : None \notin {where[u], where[v]} => Iou(where[u], where[v]) = 0
  <2>2. visit[v] = [NewVisit EXCEPT !.clear = c] /\ c \in BOOLEAN
    BY <1>1, <2>1
  <2> HIDE DEF c
  <2>3. visit[v].stay = 0
    BY <2>2, NewVisitIs
  <2>4. held[v] = None /\ Seen(slot, v) = None
    BY <1>1, <2>1 DEF Empty, Seen
  <2>5. Shown(v) /\ Spaced(v) /\ Nearing(v)
    <3>1. Shown(v)
      BY <2>4 DEF Shown
    <3>2. Spaced(v)
      BY <1>1, <2>3 DEF Spaced
    <3>3. Nearing(v)
      BY <1>1, <2>3, <2>4 DEF Nearing
    <3>4. QED
      BY <3>1, <3>2, <3>3
  <2>6. DOMAIN tracks = {}
    BY <1>1
  <2>7. Unmixed(v) /\ ~ Follows(v)
    BY <2>6 DEF Unmixed, Follows
  <2>8. ForceEvery \in Nat /\ Lag(v) \in Nat
    BY <2>1, Bounds DEF Typed
  <2>9. Timely(v)
    BY <2>3, <2>4, <2>7, <2>8 DEF Timely
  <2>10. QED
    BY <2>5, <2>7, <2>9 DEF Attended
<1>3. QED
  BY <1>2 DEF Punctual

LEMMA PunctualStep ==
    ASSUME Typed, Typed', Single, Punctual, [Next]_vars
    PROVE  Punctual'
<1>1. CASE UNCHANGED vars
  BY <1>1, IdleAttended DEF vars, threads, settings, frames, tracking
<1>2. CASE People
  BY <1>2, ArriveAttended, MoveAttended, LeaveAttended DEF People
<1>3. CASE Reading
  BY <1>3, ReadingAttended
<1>4. CASE Analyzing
  <2>1. CASE AnalyzerEnds
    BY <2>1, IdleAttended DEF AnalyzerEnds, settings, frames, tracking
  <2>2. QED
    BY <1>4, <2>1, LookAttended, PaceAttended, AnalyzeAttended, InsertAttended, ShiftAttended DEF Analyzing
<1>5. CASE Faults
  <2>1. CASE StreamFails \/ StreamRecovers
    BY <2>1, IdleAttended DEF StreamFails, StreamRecovers, threads, settings, frames, tracking
  <2>2. QED
    BY <1>5, <2>1, MissingAttended, FailedLookAttended, ShiftAttended DEF Faults
<1>6. CASE Managing
  BY <1>6, ManagingAttended
<1>7. CASE Watching
  BY <1>7, IdleAttended DEF Watching, threads, settings, frames, tracking
<1>8. QED
  BY <1>1, <1>2, <1>3, <1>4, <1>5, <1>6, <1>7 DEF Next

\* Nobody is overlooked, whatever the tracker is set to: a visitor nothing goes wrong for has
\* their row two cycles after a detection is due at the latest, anybody else once the track of
\* somebody else that they stepped into has been given up (tracker.py, reader.py).
THEOREM NobodyOverlooked == Spec => []SeenInTime
<1>1. Init => Typed /\ Single /\ Punctual
  BY TypedStart, SingleStart, PunctualStart
<1>2. Typed /\ Single /\ Punctual /\ [Next]_vars => (Typed /\ Single /\ Punctual)'
  BY TypedStep, SingleStep, PunctualStep
<1>3. Typed /\ Punctual => SeenInTime
  <2>1. ASSUME Typed, Punctual, NEW v \in InView, visit[v].rows = 0
        PROVE  visit[v].stay <= ForceEvery + Lag(v)
    BY <2>1 DEF Punctual, Attended, Timely
  <2>2. ASSUME Typed, Punctual, NEW v \in InView,
               visit[v].stay > (IF visit[v].clear THEN ForceEvery + 2 ELSE MaxCap + ForceEvery + 1)
        PROVE  visit[v].rows >= 1
    <3>1. visit[v] \in Visit /\ ForceEvery \in Nat /\ MaxCap \in Nat
      BY <2>2, InViewIs, Bounds DEF Typed, Story
    <3>2. visit[v].stay \in Nat /\ visit[v].rows \in 0 .. 2
      BY <3>1 DEF Visit
    <3>3. visit[v].rows # 0
      BY <2>1, <2>2, <3>1, <3>2 DEF Lag
    <3>4. QED
      BY <3>2, <3>3
  <2>3. QED
    BY <2>2 DEF SeenInTime
<1>4. QED
  BY <1>1, <1>2, <1>3, PTL DEF Spec

=============================================================================
