----------------------------- MODULE OutboxProofs -----------------------------
(***************************************************************************)
(* Proofs about Outbox, for any number of writing transactions, processes, *)
(* consumers and delivering instances, any jobs and any bounds.            *)
(***************************************************************************)
EXTENDS Outbox, SequenceTheorems, WellFoundedInduction, TLAPS

\* What transaction w sees of the stream of consumer c.
View(w, c) == rows[c] \cup Written(w, c)

\* The stream has no holes, neither as committed nor as any transaction sees it.
\* Of the transactions that have inserted into one stream, none has committed: the
\* next key of the stream is taken, so there is one at most.
Streams ==
  /\ \A c \in Consumers : MaxOf(rows[c]) \in Nat /\ rows[c] = 1..MaxOf(rows[c])
  /\ \A w \in Writers, c \in Consumers :
       /\ MaxOf(View(w, c)) \in Nat /\ View(w, c) = 1..MaxOf(View(w, c))
       /\ rows[c] \cap Written(w, c) = {}
  /\ \A v, w \in Writers, c \in Consumers : Written(v, c) # {} /\ Written(w, c) # {} => v = w

\* A seq computed by a transaction may be taken by now, but is not beyond the end.
Allocated(w) ==
  /\ pc[w] \in {"enter", "lock", "insert"} => job[w].to # <<>>
  /\ pc[w] = "insert" => alloc[w] \in 1..MaxOf(View(w, Target(w))) + 1

\* A consumer has received its stream up to some message, and an instance stands
\* at one of them.
Received ==
  \A c \in Consumers :
    /\ \A s \in got[c], t \in rows[c] : t <= s => t \in got[c]
    /\ \A i \in Instances : pos[i][c] \in got[c] \cup {0}

\* Fences grow; what an instance holds is not beyond the current one.
Fences == OneOwner /\ \A c \in Consumers, i \in Instances : held[i][c] <= fence[c]

IndInv ==
  /\ TypeOK
  /\ Streams
  /\ \A w \in Writers : Allocated(w)
  /\ Received
  /\ Fences

-------------------------------------------------------------------------------
\* A set of numbers that has an element has a least one.
LEMMA LeastElement ==
  ASSUME NEW T \in SUBSET Nat, T # {}
  PROVE  \E x \in T : \A y \in T : x <= y
<1> DEFINE R == {ss \in Nat \X Nat : ss[1] < ss[2]}
<1>1. IsWellFoundedOn(R, Nat)
  BY NatLessThanWellFounded DEF OpToRel
<1> HIDE DEF R
<1>2. T \subseteq Nat
  OBVIOUS
<1>3. \E x \in T : \A y \in T : ~ (<<y, x>> \in R)
  BY <1>1, <1>2, WFMin, Zenon
<1>4. \A x, y \in Nat : <<y, x>> \in R <=> y < x
  BY DEF R
<1>5. PICK x \in T : \A y \in T : ~ (<<y, x>> \in R)
  BY <1>3
<1>6. ASSUME NEW y \in T PROVE x <= y
  <2>1. x \in Nat /\ y \in Nat
    BY <1>2, Zenon
  <2>2. ~ (y < x)
    BY <1>4, <1>5, <2>1, Zenon
  <2>3. QED
    BY <2>1, <2>2
<1>7. QED
  BY <1>6

\* MAX(seq) of a stream without holes.
LEMMA MaxOfInterval ==
  ASSUME NEW n \in Nat
  PROVE  MaxOf(1..n) = n
  BY DEF MaxOf

\* What a set of inserted keys has for one stream.
LEMMA KeysOf ==
  ASSUME NEW M \in SUBSET (Consumers \X Seqs), NEW c, NEW s
  PROVE  s \in {m[2] : m \in {x \in M : x[1] = c}} <=> <<c, s>> \in M
  OBVIOUS

\* A transaction with more than one message to write has some left after the first.
LEMMA TailLeft ==
  ASSUME NEW q \in Seq(Consumers), q # <<>>, Len(q) # 1
  PROVE  Tail(q) # <<>>
<1>1. Len(Tail(q)) # 0
  BY HeadTailProperties, LenProperties, EmptySeq
<1>2. \A t : t = <<>> => Len(t) = 0
  OBVIOUS
<1>3. QED
  BY <1>1, <1>2, Zenon

\* Empty streams, no transaction, no lease.
LEMMA InitInv == Init => IndInv
<1> SUFFICES ASSUME Init PROVE IndInv
  OBVIOUS
<1>1. TypeOK
  <2>1. job \in [Writers -> [kind: {"engine", "revocation", "none"}, to: Seq(Consumers)]]
    <3>1. NoJob \in [kind: {"engine", "revocation", "none"}, to: Seq(Consumers)]
      BY DEF NoJob
    <3>2. QED
      BY <3>1 DEF Init
  <2>2. fence \in [Consumers -> 0..MaxFence] /\ held \in [Instances -> [Consumers -> 0..MaxFence]]
    BY OutboxAssumption DEF Init
  <2>3. QED
    BY <2>1, <2>2 DEF Init, TypeOK, Seqs
<1>2. \A c \in Consumers : /\ rows[c] = {}
                           /\ \A w \in Writers : Written(w, c) = {} /\ View(w, c) = {}
  BY DEF Init, Written, View
<1>3. MaxOf({}) = 0 /\ {} = 1..0
  BY DEF MaxOf
<1>4. Streams
  <2>1. \A S : S = {} => MaxOf(S) \in Nat /\ S = 1..MaxOf(S)
    BY <1>3
  <2>2. QED
    BY <1>2, <2>1 DEF Streams
<1>5. QED
  BY <1>1, <1>4 DEF Init, IndInv, Allocated, Received, Fences, OneOwner

-------------------------------------------------------------------------------
(***************************************************************************)
(* Transactions.  A step of one leaves delivery alone; what it has to show *)
(* is about the streams.                                                   *)
(***************************************************************************)

\* Streams and rows do not change.
LEMMA StreamsKeep ==
  ASSUME IndInv, UNCHANGED <<rows, mine>>
  PROVE  /\ Streams'
         /\ \A w, c : Written(w, c)' = Written(w, c) /\ View(w, c)' = View(w, c)
<1>1. \A w, c : Written(w, c)' = Written(w, c)
  BY DEF Written
<1>2. \A w, c : View(w, c)' = View(w, c)
  BY <1>1 DEF View
<1>3. QED
  BY <1>1, <1>2 DEF IndInv, Streams

\* A transaction that does not move still has a seq within or next to what it
\* sees, also when others have committed meanwhile.
LEMMA AllocatedKeeps ==
  ASSUME IndInv, NEW v \in Writers,
         pc'[v] = pc[v], job'[v] = job[v], alloc'[v] = alloc[v],
         \A c \in Consumers : /\ MaxOf(View(v, c)') \in Nat
                              /\ MaxOf(View(v, c)) <= MaxOf(View(v, c)')
  PROVE  Allocated(v)'
<1>1. Target(v)' = Target(v)
  BY DEF Target
<1>2. pc[v] = "insert" => Target(v) \in Consumers
  BY DEF IndInv, TypeOK, Allocated, Target
<1>3. ASSUME pc[v] = "insert"
      PROVE  alloc[v] \in 1..MaxOf(View(v, Target(v))') + 1
  <2>1. /\ MaxOf(View(v, Target(v))') \in Nat /\ MaxOf(View(v, Target(v))) \in Nat
        /\ MaxOf(View(v, Target(v))) <= MaxOf(View(v, Target(v))')
    BY <1>2, <1>3, <1>1 DEF IndInv, Streams
  <2>2. alloc[v] \in 1..MaxOf(View(v, Target(v))) + 1
    BY <1>3 DEF IndInv, Allocated
  <2>3. QED
    BY <2>1, <2>2
<1>4. QED
  BY <1>1, <1>3 DEF IndInv, Allocated

\* A transaction that does not move while the streams do not either.
LEMMA UnmovedKeeps ==
  ASSUME IndInv, NEW v \in Writers, UNCHANGED <<rows, mine>>,
         pc'[v] = pc[v], job'[v] = job[v], alloc'[v] = alloc[v]
  PROVE  Allocated(v)'
<1>1. ASSUME NEW c \in Consumers
      PROVE  MaxOf(View(v, c)') \in Nat /\ MaxOf(View(v, c)) <= MaxOf(View(v, c)')
  <2>1. View(v, c)' = View(v, c)
    BY StreamsKeep
  <2>2. MaxOf(View(v, c)) \in Nat
    BY DEF IndInv, Streams
  <2>3. QED
    BY <2>1, <2>2
<1>2. QED
  BY <1>1, AllocatedKeeps

\* Delivery reads the committed rows only.
LEMMA DeliveryKeeps ==
  ASSUME IndInv, UNCHANGED <<rows, delivery>>
  PROVE  Received' /\ Fences'
  BY DEF IndInv, Received, Fences, OneOwner, delivery

\* A transaction begins.
LEMMA BeginKeeps ==
  ASSUME IndInv, NEW w \in Writers, NEW j \in Jobs, Begin(w, j)
  PROVE  IndInv'
<1>1. j \in [kind: {"engine", "revocation", "none"}, to: Seq(Consumers)] /\ j.to # <<>>
  BY OutboxAssumption
<1>2. TypeOK'
  BY <1>1 DEF IndInv, TypeOK, Begin, delivery
<1>3. ASSUME NEW v \in Writers PROVE Allocated(v)'
  <2>1. CASE v = w
    BY <1>1, <2>1 DEF IndInv, TypeOK, Begin, Allocated
  <2>2. CASE v # w
    BY <2>2, UnmovedKeeps DEF IndInv, TypeOK, Begin
  <2>3. QED
    BY <2>1, <2>2
<1>4. QED
  BY <1>2, <1>3, StreamsKeep, DeliveryKeeps DEF IndInv, Begin, delivery

\* A transaction gets the lock it keeps.
LEMMA EnterKeeps ==
  ASSUME IndInv, NEW w \in Writers, Enter(w)
  PROVE  IndInv'
<1>1. TypeOK'
  BY DEF IndInv, TypeOK, Enter, delivery
<1>2. ASSUME NEW v \in Writers PROVE Allocated(v)'
  <2>1. CASE v = w
    BY <2>1 DEF IndInv, TypeOK, Enter, Allocated
  <2>2. CASE v # w
    BY <2>2, UnmovedKeeps DEF IndInv, TypeOK, Enter
  <2>3. QED
    BY <2>1, <2>2
<1>3. QED
  BY <1>1, <1>2, StreamsKeep, DeliveryKeeps DEF IndInv, Enter, delivery

\* MAX(seq) + 1 is next to what the transaction sees.
LEMMA WriteLockKeeps ==
  ASSUME IndInv, NEW w \in Writers, WriteLock(w)
  PROVE  IndInv'
<1>1. job[w].to # <<>> /\ Target(w) \in Consumers
  BY DEF IndInv, TypeOK, Allocated, WriteLock, Target
<1>2. /\ MaxOf(View(w, Target(w))) \in Nat
      /\ NextSeq(w) = 1 + MaxOf(View(w, Target(w)))
  BY <1>1 DEF IndInv, Streams, NextSeq, View
<1>3. TypeOK'
  <2>1. NextSeq(w) \in Nat
    BY <1>2
  <2>2. QED
    BY <2>1, Zenon DEF IndInv, TypeOK, WriteLock, delivery
<1>4. ASSUME NEW v \in Writers PROVE Allocated(v)'
  <2>1. CASE v = w
    <3>1. Target(w)' = Target(w) /\ View(w, Target(w))' = View(w, Target(w))
      BY StreamsKeep DEF WriteLock, Target
    <3>2. alloc'[w] = 1 + MaxOf(View(w, Target(w))) /\ job'[w] = job[w]
      BY <1>2 DEF IndInv, TypeOK, WriteLock
    <3>3. QED
      BY <1>1, <1>2, <2>1, <3>1, <3>2 DEF Allocated
  <2>2. CASE v # w
    BY <2>2, UnmovedKeeps DEF IndInv, TypeOK, WriteLock
  <2>3. QED
    BY <2>1, <2>2
<1>5. QED
  BY <1>3, <1>4, StreamsKeep, DeliveryKeeps DEF IndInv, WriteLock, delivery

\* One transaction's rows change: the streams are whole if they are whole for it
\* and it is alone in those it has written to.
LEMMA StreamsChange ==
  ASSUME IndInv, NEW w \in Writers, UNCHANGED rows,
         \A v \in Writers \ {w} : mine'[v] = mine[v],
         \A c \in Consumers :
           /\ MaxOf(View(w, c)') \in Nat /\ View(w, c)' = 1..MaxOf(View(w, c)')
           /\ rows[c] \cap Written(w, c)' = {}
           /\ Written(w, c)' # {} => \A v \in Writers \ {w} : Written(v, c) = {}
  PROVE  /\ Streams'
         /\ \A v \in Writers \ {w}, c \in Consumers : View(v, c)' = View(v, c)
<1>1. \A v \in Writers \ {w}, c \in Consumers : Written(v, c)' = Written(v, c)
  BY DEF Written
<1>2. \A v \in Writers \ {w}, c \in Consumers : View(v, c)' = View(v, c)
  BY <1>1 DEF View
<1>3. \A c \in Consumers : MaxOf(rows'[c]) \in Nat /\ rows'[c] = 1..MaxOf(rows'[c])
  BY DEF IndInv, Streams
<1>4. ASSUME NEW v \in Writers, NEW c \in Consumers
      PROVE  /\ MaxOf(View(v, c)') \in Nat /\ View(v, c)' = 1..MaxOf(View(v, c)')
             /\ rows'[c] \cap Written(v, c)' = {}
  <2>1. CASE v = w
    BY <2>1
  <2>2. CASE v # w
    BY <1>1, <1>2, <2>2 DEF IndInv, Streams
  <2>3. QED
    BY <2>1, <2>2
<1>5. ASSUME NEW u \in Writers, NEW v \in Writers, NEW c \in Consumers,
             Written(u, c)' # {}, Written(v, c)' # {}
      PROVE  u = v
  <2>1. CASE u # w /\ v # w
    BY <1>1, <1>5, <2>1 DEF IndInv, Streams
  <2>2. CASE u = w \/ v = w
    BY <1>1, <1>5, <2>2
  <2>3. QED
    BY <2>1, <2>2
<1>6. QED
  BY <1>2, <1>3, <1>4, <1>5 DEF Streams

\* A transaction that fails or rolls back takes its rows with it.
LEMMA FinishKeeps ==
  ASSUME IndInv, NEW w \in Writers, Finish(w), UNCHANGED <<rows, delivery>>, seqMu' = Unlock(w)
  PROVE  IndInv'
<1>1. TypeOK'
  <2>1. NoJob \in [kind: {"engine", "revocation", "none"}, to: Seq(Consumers)]
    BY DEF NoJob
  <2>2. seqMu' \in [Processes -> Writers \cup {None}]
    BY Zenon DEF IndInv, TypeOK, Unlock
  <2>3. QED
    BY <2>1, <2>2 DEF IndInv, TypeOK, Finish, delivery
<1>2. mine'[w] = {} /\ \A v \in Writers \ {w} : mine'[v] = mine[v]
  BY DEF IndInv, TypeOK, Finish
<1>3. \A c \in Consumers : Written(w, c)' = {} /\ View(w, c)' = rows[c]
  BY <1>2 DEF Written, View
<1>4. \A c \in Consumers : MaxOf(rows[c]) \in Nat /\ rows[c] = 1..MaxOf(rows[c])
  BY DEF IndInv, Streams
<1>5. Streams' /\ \A v \in Writers \ {w}, c \in Consumers : View(v, c)' = View(v, c)
  BY <1>2, <1>3, <1>4, StreamsChange
<1>6. ASSUME NEW v \in Writers PROVE Allocated(v)'
  <2>1. CASE v = w
    BY <2>1 DEF IndInv, TypeOK, Finish, Allocated
  <2>2. CASE v # w
    <3>1. \A c \in Consumers : /\ MaxOf(View(v, c)') \in Nat
                               /\ MaxOf(View(v, c)) <= MaxOf(View(v, c)')
      BY <1>5, <2>2 DEF IndInv, Streams
    <3>2. QED
      BY <2>2, <3>1, AllocatedKeeps DEF IndInv, TypeOK, Finish
  <2>3. QED
    BY <2>1, <2>2
<1>7. QED
  BY <1>1, <1>5, <1>6, DeliveryKeeps DEF IndInv

\* The insert: only one transaction gets the next key of a stream.
LEMMA WriteInsertKeeps ==
  ASSUME IndInv, NEW w \in Writers, WriteInsert(w)
  PROVE  IndInv'
<1>0. PICK c0, a : c0 = Target(w) /\ a = alloc[w]
  OBVIOUS
<1>1. pc[w] = "insert" /\ KeyFree(w) /\ seqMu' = Unlock(w) /\ UNCHANGED <<rows, delivery>>
  BY DEF WriteInsert
<1>2. CASE a \in rows[c0]
  BY <1>0, <1>1, <1>2, FinishKeeps DEF WriteInsert
<1>3. CASE a \notin rows[c0]
  <2>1. /\ mine' = [mine EXCEPT ![w] = @ \cup {<<c0, a>>}]
        /\ job' = [job EXCEPT ![w].to = Tail(@)]
        /\ pc' = [pc EXCEPT ![w] = IF Len(job[w].to) = 1 THEN "commit" ELSE "lock"]
        /\ alloc' = alloc
    BY <1>0, <1>3 DEF WriteInsert
  <2>2. job[w].to # <<>> /\ job[w].to \in Seq(Consumers) /\ c0 \in Consumers
    BY <1>0, <1>1 DEF IndInv, TypeOK, Allocated, Target
  <2>3. /\ MaxOf(rows[c0]) \in Nat /\ rows[c0] = 1..MaxOf(rows[c0])
        /\ MaxOf(View(w, c0)) \in Nat /\ View(w, c0) = 1..MaxOf(View(w, c0))
        /\ a \in 1..MaxOf(View(w, c0)) + 1
    BY <1>0, <1>1, <2>2 DEF IndInv, Streams, Allocated
  <2>4. /\ mine'[w] = mine[w] \cup {<<c0, a>>}
        /\ \A v \in Writers \ {w} : mine'[v] = mine[v]
    BY <2>1 DEF IndInv, TypeOK
  <2>5. TypeOK'
    <3>1. seqMu' \in [Processes -> Writers \cup {None}]
      BY <1>1, Zenon DEF IndInv, TypeOK, Unlock
    <3>2. Tail(job[w].to) \in Seq(Consumers)
      BY <2>2
    <3>3. job' \in [Writers -> [kind: {"engine", "revocation", "none"}, to: Seq(Consumers)]]
      BY <2>1, <3>2, Zenon DEF IndInv, TypeOK
    <3>4. mine' \in [Writers -> SUBSET (Consumers \X Seqs)]
      BY <2>1, <2>2, <2>3 DEF IndInv, TypeOK, Seqs
    <3>5. QED
      BY <1>1, <2>1, <3>1, <3>3, <3>4 DEF IndInv, TypeOK, delivery
  <2>6. /\ Written(w, c0)' = Written(w, c0) \cup {a}
        /\ \A c \in Consumers \ {c0} : Written(w, c)' = Written(w, c)
    <3>1. mine[w] \in SUBSET (Consumers \X Seqs) /\ mine'[w] \in SUBSET (Consumers \X Seqs)
      BY <2>5 DEF IndInv, TypeOK
    <3>2. \A c, s : /\ s \in Written(w, c) <=> <<c, s>> \in mine[w]
                    /\ s \in Written(w, c)' <=> <<c, s>> \in mine'[w]
      BY <3>1, KeysOf, Zenon DEF Written
    <3>3. \A c, s : <<c, s>> \in mine'[w] <=> <<c, s>> \in mine[w] \/ (c = c0 /\ s = a)
      BY <2>4
    <3>4. ASSUME NEW c
          PROVE  Written(w, c)' = IF c = c0 THEN Written(w, c) \cup {a} ELSE Written(w, c)
      <4>1. \A s : s \in Written(w, c)' <=> s \in Written(w, c) \/ (c = c0 /\ s = a)
        BY <3>2, <3>3, Zenon
      <4>2. QED
        BY <4>1
    <3>5. QED
      BY <3>4
  <2>7. /\ View(w, c0)' = View(w, c0) \cup {a}
        /\ \A c \in Consumers \ {c0} : View(w, c)' = View(w, c)
    BY <1>1, <2>6 DEF View
  <2>8. MaxOf(View(w, c0)') \in Nat /\ View(w, c0)' = 1..MaxOf(View(w, c0)')
    <3>1. PICK n \in Nat : View(w, c0)' = 1..n
      <4>1. CASE a = MaxOf(View(w, c0)) + 1
        <5>1. View(w, c0)' = 1..MaxOf(View(w, c0)) + 1
          BY <2>3, <2>7, <4>1
        <5>2. QED
          BY <2>3, <5>1
      <4>2. CASE a # MaxOf(View(w, c0)) + 1
        <5>1. a \in View(w, c0)
          BY <2>3, <4>2
        <5>2. View(w, c0)' = View(w, c0)
          BY <2>7, <5>1
        <5>3. QED
          BY <2>3, <5>2
      <4>3. QED
        BY <4>1, <4>2
    <3>2. QED
      BY <3>1, MaxOfInterval
  <2>9. ASSUME NEW v \in Writers \ {w} PROVE Written(v, c0) = {}
    <3>1. SUFFICES ASSUME Written(v, c0) # {} PROVE FALSE
      OBVIOUS
    <3>2. Written(w, c0) = {} /\ View(w, c0) = rows[c0]
      BY <2>2, <2>9, <3>1 DEF IndInv, Streams, View
    <3>3. a = MaxOf(rows[c0]) + 1
      BY <1>3, <2>3, <3>2
    <3>4. /\ MaxOf(View(v, c0)) \in Nat /\ View(v, c0) = 1..MaxOf(View(v, c0))
          /\ rows[c0] \cap Written(v, c0) = {}
      BY <2>2, <2>9 DEF IndInv, Streams
    <3>5. PICK s \in Written(v, c0) : s \notin rows[c0] /\ s \in View(v, c0)
      BY <3>1, <3>4 DEF View
    <3>6. s > MaxOf(rows[c0]) /\ s <= MaxOf(View(v, c0))
      BY <2>3, <3>4, <3>5
    <3>7. a \in View(v, c0) /\ a \notin rows[c0]
      <4>1. s \in Nat
        BY <3>4, <3>5
      <4>2. a \in 1..MaxOf(View(v, c0)) /\ a \notin 1..MaxOf(rows[c0])
        BY <2>3, <3>3, <3>4, <3>6, <4>1
      <4>3. QED
        BY <2>3, <3>4, <4>2
    <3>8. <<c0, a>> \in mine[v]
      <4>1. mine[v] \in SUBSET (Consumers \X Seqs) /\ a \in Written(v, c0)
        BY <2>9, <3>7 DEF IndInv, TypeOK, View
      <4>2. QED
        BY <4>1, KeysOf DEF Written
    <3>9. QED
      BY <1>0, <1>1, <2>9, <3>8, Zenon DEF KeyFree
  <2>10. \A c \in Consumers :
           /\ MaxOf(View(w, c)') \in Nat /\ View(w, c)' = 1..MaxOf(View(w, c)')
           /\ rows[c] \cap Written(w, c)' = {}
           /\ Written(w, c)' # {} => \A v \in Writers \ {w} : Written(v, c) = {}
    <3> SUFFICES ASSUME NEW c \in Consumers
                 PROVE  /\ MaxOf(View(w, c)') \in Nat /\ View(w, c)' = 1..MaxOf(View(w, c)')
                        /\ rows[c] \cap Written(w, c)' = {}
                        /\ Written(w, c)' # {} => \A v \in Writers \ {w} : Written(v, c) = {}
      OBVIOUS
    <3>1. CASE c = c0
      <4>1. rows[c0] \cap Written(w, c0)' = {}
        BY <1>3, <2>2, <2>6 DEF IndInv, Streams
      <4>2. QED
        BY <2>8, <2>9, <3>1, <4>1
    <3>2. CASE c # c0
      BY <2>6, <2>7, <3>2 DEF IndInv, Streams
    <3>3. QED
      BY <3>1, <3>2
  <2>11. Streams' /\ \A v \in Writers \ {w}, c \in Consumers : View(v, c)' = View(v, c)
    BY <1>1, <2>4, <2>10, StreamsChange
  <2>12. ASSUME NEW v \in Writers PROVE Allocated(v)'
    <3>1. CASE v = w
      <4>1. Len(job[w].to) # 1 => Tail(job[w].to) # <<>>
        BY <2>2, TailLeft
      <4>2. job'[w].to = Tail(job[w].to) /\ pc'[w] = IF Len(job[w].to) = 1 THEN "commit" ELSE "lock"
        BY <2>1 DEF IndInv, TypeOK
      <4>3. QED
        BY <3>1, <4>1, <4>2 DEF Allocated
    <3>2. CASE v # w
      <4>1. \A c \in Consumers : /\ MaxOf(View(v, c)') \in Nat
                                 /\ MaxOf(View(v, c)) <= MaxOf(View(v, c)')
        BY <2>11, <3>2 DEF IndInv, Streams
      <4>2. QED
        BY <2>1, <3>2, <4>1, AllocatedKeeps DEF IndInv, TypeOK
    <3>3. QED
      BY <3>1, <3>2
  <2>13. QED
    BY <1>1, <2>5, <2>11, <2>12, DeliveryKeeps DEF IndInv
<1>4. QED
  BY <1>2, <1>3

\* A commit extends the streams of one transaction at their ends; every other
\* transaction has inserted nothing into those.
LEMMA CommitTxKeeps ==
  ASSUME IndInv, NEW w \in Writers, CommitTx(w)
  PROVE  IndInv' /\ AppendsAtEnd
<1>1. \A c \in Consumers : rows'[c] = View(w, c)
  BY DEF CommitTx, View
<1>2. ASSUME NEW c \in Consumers
      PROVE  /\ MaxOf(rows[c]) \in Nat /\ rows[c] = 1..MaxOf(rows[c])
             /\ MaxOf(rows'[c]) \in Nat /\ rows'[c] = 1..MaxOf(rows'[c])
             /\ MaxOf(rows[c]) <= MaxOf(rows'[c])
  <2>1. /\ MaxOf(rows[c]) \in Nat /\ rows[c] = 1..MaxOf(rows[c])
        /\ MaxOf(rows'[c]) \in Nat /\ rows'[c] = 1..MaxOf(rows'[c])
        /\ rows[c] \subseteq rows'[c]
    BY <1>1, Zenon DEF IndInv, Streams, View
  <2>2. MaxOf(rows[c]) # 0 => MaxOf(rows[c]) \in rows'[c]
    BY <2>1
  <2>3. QED
    BY <2>1, <2>2
<1>3. AppendsAtEnd
  BY <1>2 DEF AppendsAtEnd
<1>4. mine'[w] = {} /\ \A v \in Writers \ {w} : mine'[v] = mine[v]
  BY DEF IndInv, TypeOK, CommitTx, Finish
<1>5. /\ \A c \in Consumers : Written(w, c)' = {}
      /\ \A v \in Writers \ {w}, c \in Consumers : Written(v, c)' = Written(v, c)
  BY <1>4 DEF Written
<1>6. ASSUME NEW v \in Writers, NEW c \in Consumers
      PROVE  /\ rows'[c] \cap Written(v, c)' = {}
             /\ View(v, c)' = View(v, c) \/ View(v, c)' = rows'[c]
             /\ rows[c] \subseteq View(v, c)
  <2>1. CASE v = w
    BY <1>5, <2>1 DEF View
  <2>2. CASE v # w /\ Written(v, c) = {}
    BY <1>5, <2>2 DEF View
  <2>3. CASE v # w /\ Written(v, c) # {}
    <3>1. Written(w, c) = {}
      BY <2>3 DEF IndInv, Streams
    <3>2. rows'[c] = rows[c] /\ View(v, c)' = View(v, c)
      BY <1>1, <1>5, <2>3, <3>1 DEF View
    <3>3. QED
      BY <1>5, <2>3, <3>2, Zenon DEF IndInv, Streams, View
  <2>4. QED
    BY <2>1, <2>2, <2>3
<1>7. Streams'
  <2>1. \A v \in Writers, c \in Consumers :
          MaxOf(View(v, c)') \in Nat /\ View(v, c)' = 1..MaxOf(View(v, c)')
    BY <1>2, <1>6 DEF IndInv, Streams
  <2>2. \A u, v \in Writers, c \in Consumers : Written(u, c)' # {} /\ Written(v, c)' # {} => u = v
    BY <1>5 DEF IndInv, Streams
  <2>3. QED
    BY <1>2, <1>6, <2>1, <2>2 DEF Streams
<1>8. TypeOK'
  <2>1. NoJob \in [kind: {"engine", "revocation", "none"}, to: Seq(Consumers)]
    BY DEF NoJob
  <2>2. rows' \in [Consumers -> SUBSET Seqs] /\ \A c \in Consumers : rows[c] \subseteq rows'[c]
    <3>1. DOMAIN rows' = Consumers /\ rows' = [c \in Consumers |-> rows'[c]]
      BY Zenon DEF CommitTx
    <3>2. \A c \in Consumers : rows'[c] \subseteq Seqs /\ rows[c] \subseteq rows'[c]
      BY <1>2 DEF Seqs
    <3>3. QED
      BY <3>1, <3>2
  <2>3. QED
    BY <2>1, <2>2 DEF IndInv, TypeOK, CommitTx, Finish, delivery
<1>9. ASSUME NEW v \in Writers PROVE Allocated(v)'
  <2>1. CASE v = w
    BY <2>1, Zenon DEF IndInv, TypeOK, CommitTx, Finish, Allocated
  <2>2. CASE v # w
    <3>1. ASSUME NEW c \in Consumers
          PROVE  MaxOf(View(v, c)') \in Nat /\ MaxOf(View(v, c)) <= MaxOf(View(v, c)')
      <4>1. MaxOf(View(v, c)) \in Nat
        BY DEF IndInv, Streams
      <4>2. CASE View(v, c)' = View(v, c)
        BY <4>1, <4>2
      <4>3. CASE View(v, c)' # View(v, c)
        <5>1. Written(v, c) = {} /\ View(v, c) = rows[c]
          <6>1. SUFFICES ASSUME Written(v, c) # {} PROVE View(v, c)' = View(v, c)
            BY <4>3 DEF View
          <6>2. Written(w, c) = {}
            BY <2>2, <6>1 DEF IndInv, Streams
          <6>3. QED
            BY <1>1, <1>5, <2>2, <6>2 DEF View
        <5>2. View(v, c)' = rows'[c]
          BY <1>6, <4>3
        <5>3. QED
          BY <1>2, <5>1, <5>2
      <4>4. QED
        BY <4>2, <4>3
    <3>2. QED
      BY <2>2, <3>1, AllocatedKeeps DEF IndInv, TypeOK, CommitTx, Finish
  <2>3. QED
    BY <2>1, <2>2
<1>10. Received'
  <2>1. UNCHANGED <<got, pos>>
    BY DEF CommitTx, delivery
  <2>2. ASSUME NEW c \in Consumers, NEW s \in got[c], NEW t \in rows'[c], t <= s
        PROVE  t \in got[c]
    <3>1. s \in rows[c]
      BY DEF IndInv, TypeOK
    <3>2. t \in rows[c]
      BY <1>2, <2>2, <3>1
    <3>3. QED
      BY <2>2, <3>2 DEF IndInv, Received
  <2>3. QED
    BY <2>1, <2>2 DEF IndInv, Received
<1>11. Fences'
  BY DEF IndInv, Fences, OneOwner, CommitTx, delivery
<1>12. QED
  BY <1>3, <1>7, <1>8, <1>9, <1>10, <1>11 DEF IndInv

-------------------------------------------------------------------------------
(***************************************************************************)
(* Delivery.  It leaves the transactions and the streams alone.            *)
(***************************************************************************)

\* What the transactions have does not change.
LEMMA WritersKeep ==
  ASSUME IndInv, UNCHANGED <<rows, writers>>
  PROVE  Streams' /\ \A w \in Writers : Allocated(w)'
<1>1. UNCHANGED <<rows, mine, pc, job, alloc>>
  BY DEF writers
<1>2. QED
  BY <1>1, StreamsKeep, UnmovedKeeps

\* A takeover: the new fence is above every fence an instance has, and delivery
\* starts again at the cursor.
LEMMA AcquireLeaseKeeps ==
  ASSUME IndInv, NEW i \in Instances, NEW c \in Consumers, AcquireLease(i, c)
  PROVE  IndInv'
<1>1. fence[c] + 1 \in 0..MaxFence
  BY OutboxAssumption DEF IndInv, TypeOK, AcquireLease
<1>2. TypeOK'
  BY <1>1, Zenon DEF IndInv, TypeOK, AcquireLease, writers
<1>3. Received'
  <2>1. cursor[c] \in got[c] \cup {0}
    BY DEF IndInv, TypeOK
  <2>2. QED
    BY <2>1 DEF IndInv, TypeOK, Received, AcquireLease
<1>4. Fences'
  <2>1. \A d \in Consumers, j \in Instances :
          /\ fence'[d] = IF d = c THEN fence[c] + 1 ELSE fence[d]
          /\ held'[j][d] = IF j = i /\ d = c THEN fence[c] + 1 ELSE held[j][d]
          /\ held[j][d] \in Nat /\ fence[d] \in Nat /\ held[j][d] <= fence[d]
    BY OutboxAssumption DEF IndInv, TypeOK, Fences, AcquireLease
  <2>2. OneOwner'
    BY <2>1 DEF IndInv, Fences, OneOwner
  <2>3. \A d \in Consumers, j \in Instances : held'[j][d] <= fence'[d]
    BY <2>1
  <2>4. QED
    BY <2>2, <2>3 DEF Fences
<1>5. QED
  BY <1>2, <1>3, <1>4, WritersKeep DEF IndInv, AcquireLease

\* Renewing, ageing and releasing a lease give no instance a fence.
LEMMA LeaseKeeps ==
  ASSUME IndInv, NEW c \in Consumers,
         LeaseAges(c) \/ \E i \in Instances : RenewLease(i, c) \/ ReleaseLease(i, c)
  PROVE  IndInv'
<1>1. /\ UNCHANGED <<rows, writers, fence, cursor, acked, pos, got>>
      /\ term' \in [Consumers -> {"FRESH", "OLD", "NONE"}]
  BY Zenon DEF IndInv, TypeOK, LeaseAges, RenewLease, ReleaseLease
<1>2. /\ held' \in [Instances -> [Consumers -> 0..MaxFence]]
      /\ \A d \in Consumers, j \in Instances : held'[j][d] \in {held[j][d], 0}
  <2>1. CASE UNCHANGED held
    BY <2>1 DEF IndInv, TypeOK
  <2>2. ASSUME NEW i \in Instances, held' = [held EXCEPT ![i][c] = 0]
        PROVE  /\ held' \in [Instances -> [Consumers -> 0..MaxFence]]
               /\ \A d \in Consumers, j \in Instances : held'[j][d] \in {held[j][d], 0}
    BY <2>2, OutboxAssumption DEF IndInv, TypeOK
  <2>3. QED
    BY <2>1, <2>2 DEF LeaseAges, RenewLease, ReleaseLease
<1>3. TypeOK'
  BY <1>1, <1>2 DEF IndInv, TypeOK, writers
<1>4. Fences'
  <2>1. \A d \in Consumers, j \in Instances :
          /\ held'[j][d] = held[j][d] \/ held'[j][d] = 0
          /\ held[j][d] \in 0..MaxFence /\ fence[d] \in 0..MaxFence /\ held[j][d] <= fence[d]
    BY <1>2 DEF IndInv, TypeOK, Fences
  <2>2. OneOwner'
    BY <1>1, <2>1, ZenonT(40) DEF IndInv, Fences, OneOwner
  <2>3. QED
    BY <1>1, <2>1, <2>2 DEF Fences
<1>5. Received'
  BY <1>1 DEF IndInv, Received
<1>6. QED
  BY <1>1, <1>3, <1>4, <1>5, WritersKeep DEF IndInv

\* The next message in order: whatever precedes it was received before, because
\* it is acknowledged or at most where the instance stands.
LEMMA DeliverKeeps ==
  ASSUME IndInv, NEW i \in Instances, NEW c \in Consumers, Deliver(i, c)
  PROVE  /\ IndInv'
         /\ \E s \in rows[c] : /\ got' = [got EXCEPT ![c] = @ \cup {s}]
                               /\ \A t \in rows[c] : t <= s /\ t # s => t \in got[c]
<1> DEFINE P == Pending(c, pos[i][c])
<1>1. P \subseteq rows[c] /\ P \subseteq Nat /\ P # {}
  BY DEF Pending, Deliver, IndInv, TypeOK, Seqs
<1>2. PICK s \in P : /\ \A y \in P : s <= y
                     /\ got' = [got EXCEPT ![c] = @ \cup {s}]
                     /\ pos' = [pos EXCEPT ![i][c] = s]
  <2> HIDE DEF P
  <2>1. \E x \in P : \A y \in P : x <= y
    BY <1>1, LeastElement
  <2>2. QED
    BY <2>1, Zenon DEF Deliver, P
<1>3. UNCHANGED <<rows, writers, fence, term, cursor, acked, held>>
  BY DEF Deliver
<1>4. s \in rows[c] /\ s \in Seqs
  BY <1>1, Zenon DEF IndInv, TypeOK
<1>5. TypeOK'
  BY <1>2, <1>3, <1>4 DEF IndInv, TypeOK, writers, Seqs
<1>6. ASSUME NEW t \in rows[c], t <= s, t # s PROVE t \in got[c]
  <2>1. t \in Nat /\ s \in Nat /\ pos[i][c] \in Nat
    BY <1>4 DEF IndInv, TypeOK, Seqs
  <2>2. t \notin P
    BY <1>2, <1>6, <2>1
  <2>3. t <= pos[i][c] \/ t \in acked[c]
    BY <2>1, <2>2 DEF Pending
  <2>4. CASE t \in acked[c]
    BY <2>4 DEF IndInv, TypeOK
  <2>5. CASE t <= pos[i][c]
    <3>1. t # 0 /\ pos[i][c] \in got[c] \cup {0}
      BY DEF IndInv, TypeOK, Received, Seqs
    <3>2. pos[i][c] \in got[c]
      BY <2>1, <2>5, <3>1
    <3>3. QED
      BY <2>5, <3>2 DEF IndInv, Received
  <2>6. QED
    BY <2>3, <2>4, <2>5
<1> HIDE DEF P
<1>7. Received'
  <2>1. \A d \in Consumers : got'[d] = IF d = c THEN got[c] \cup {s} ELSE got[d]
    BY <1>2 DEF IndInv, TypeOK
  <2>2. \A j \in Instances, d \in Consumers : pos'[j][d] = IF j = i /\ d = c THEN s ELSE pos[j][d]
    BY <1>2 DEF IndInv, TypeOK
  <2>3. ASSUME NEW d \in Consumers, NEW u \in got'[d], NEW t \in rows[d], t <= u
        PROVE  t \in got'[d]
    BY <1>6, <2>1, <2>3 DEF IndInv, Received
  <2>4. \A j \in Instances, d \in Consumers : pos'[j][d] \in got'[d] \cup {0}
    BY <2>1, <2>2 DEF IndInv, Received
  <2>5. QED
    BY <1>3, <2>3, <2>4 DEF Received
<1>8. Fences'
  BY <1>3 DEF IndInv, Fences, OneOwner
<1>9. IndInv'
  BY <1>3, <1>5, <1>7, <1>8, WritersKeep DEF IndInv
<1>10. QED
  BY <1>2, <1>4, <1>6, <1>9, Zenon

\* GREATEST moves the cursor to a message that was received.
LEMMA AckMessageKeeps ==
  ASSUME IndInv, NEW i \in Instances, NEW c \in Consumers, NEW s, AckMessage(i, c, s)
  PROVE  IndInv'
<1>1. UNCHANGED <<rows, writers, fence, term, held, pos, got>>
  BY DEF AckMessage
<1>2. TypeOK'
  BY DEF IndInv, TypeOK, AckMessage, writers, Seqs
<1>3. Received' /\ Fences'
  BY <1>1 DEF IndInv, Received, Fences, OneOwner
<1>4. QED
  BY <1>1, <1>2, <1>3, WritersKeep DEF IndInv

-------------------------------------------------------------------------------
\* The invariant holds over every interleaving of writing transactions, commits,
\* rollbacks, takeovers of leases, deliveries and acknowledgements (outbox.go).
THEOREM Invariance == Spec => []IndInv
<1>1. ASSUME IndInv, [Next]_vars
      PROVE  IndInv'
  <2>1. CASE UNCHANGED vars
    <3>1. TypeOK'
      BY <1>1, <2>1 DEF vars, writers, delivery, IndInv, TypeOK
    <3>2. QED
      BY <1>1, <2>1, <3>1, WritersKeep, DeliveryKeeps, Zenon DEF vars, IndInv
  <2>2. CASE \E w \in Writers : (\E j \in Jobs : Begin(w, j)) \/ Enter(w) \/ WriteTx(w) \/ CommitTx(w)
    BY <1>1, <2>2, BeginKeeps, EnterKeeps, WriteLockKeeps, WriteInsertKeeps, CommitTxKeeps DEF WriteTx
  <2>3. CASE \E w \in Writers : Rollback(w)
    BY <1>1, <2>3, FinishKeeps DEF Rollback
  <2>4. CASE \E c \in Consumers : LeaseAges(c) \/ \E i \in Instances : RenewLease(i, c) \/ ReleaseLease(i, c)
    BY <1>1, <2>4, LeaseKeeps
  <2>5. CASE \E i \in Instances, c \in Consumers : AcquireLease(i, c) \/ Deliver(i, c)
    BY <1>1, <2>5, AcquireLeaseKeeps, DeliverKeeps
  <2>6. CASE \E i \in Instances, c \in Consumers : \E s \in got[c] : AckMessage(i, c, s)
    BY <1>1, <2>6, AckMessageKeeps
  <2>7. Attached \subseteq Consumers
    BY OutboxAssumption
  <2>8. QED
    BY <1>1, <2>1, <2>2, <2>3, <2>4, <2>5, <2>6, <2>7, Zenon DEF Next
<1>2. QED
  BY <1>1, InitInv, PTL DEF Spec

\* Type correctness of streams, transactions, leases and cursors.
THEOREM TypeCorrect == Spec => []TypeOK
<1>1. IndInv => TypeOK
  BY DEF IndInv
<1>2. QED
  BY <1>1, Invariance, PTL

\* However GREATEST in AckMessage moves the cursor and whoever takes the lease
\* over, the consumer has received everything at or below it.
THEOREM CursorSafety == Spec => []NoMessageSkipped
<1>1. ASSUME IndInv PROVE NoMessageSkipped
  <2> SUFFICES ASSUME NEW c \in Consumers, NEW s \in rows[c], s <= cursor[c]
               PROVE  s \in got[c]
    BY DEF NoMessageSkipped
  <2>1. s \in Nat /\ s # 0 /\ cursor[c] \in got[c] \cup {0}
    BY <1>1 DEF IndInv, TypeOK, Seqs
  <2>2. QED
    BY <1>1, <2>1 DEF IndInv, Received
<1>2. QED
  BY <1>1, Invariance, PTL

\* AcquireLease leaves one instance with the current fence of a consumer.
THEOREM LeaseSafety == Spec => []OneOwner
<1>1. IndInv => OneOwner
  BY DEF IndInv, Fences
<1>2. QED
  BY <1>1, Invariance, PTL

\* No step of a writer commits a message below one that is in the stream, or
\* leaves a hole: the concurrent MAX(seq) + 1 of WriteTx only appends.
THEOREM AppendOnly == Spec => StreamAppendOnly
<1>1. ASSUME IndInv, [Next]_vars
      PROVE  [AppendsAtEnd]_vars
  <2>1. CASE UNCHANGED rows
    <3>1. \A c \in Consumers : MaxOf(rows[c]) \in Nat /\ rows'[c] = rows[c]
      BY <1>1, <2>1 DEF IndInv, Streams
    <3>2. \A n \in Nat : n + 1..n = {}
      OBVIOUS
    <3>3. QED
      BY <3>1, <3>2 DEF AppendsAtEnd
  <2>2. CASE \E w \in Writers : CommitTx(w)
    BY <1>1, <2>2, CommitTxKeeps
  <2>3. QED
    BY <1>1, <2>1, <2>2 DEF Next, vars, WriteTx, Begin, Enter, WriteLock, WriteInsert, Rollback,
       AcquireLease, RenewLease, ReleaseLease, LeaseAges, Deliver, AckMessage
<1>2. QED
  BY <1>1, Invariance, PTL DEF Spec, StreamAppendOnly

-------------------------------------------------------------------------------
(***************************************************************************)
(* The outbox implements OrderedDelivery.                                  *)
(***************************************************************************)

\* Streams without holes are what OrderedDelivery calls unbroken.
LEMMA StreamsUnbroken ==
  ASSUME NEW n \in Nat
  PROVE  Delivery!Unbroken(1..n)
BY DEF Delivery!Unbroken

\* A commit appends to the streams the transaction has written to.
LEMMA CommitSends ==
  ASSUME IndInv, NEW w \in Writers, CommitTx(w)
  PROVE  Delivery!Send
<1>1. UNCHANGED <<got, cursor, held, fence>>
  BY DEF CommitTx, delivery
<1>2. \A c \in Consumers : rows[c] \subseteq rows'[c]
  BY Zenon DEF CommitTx
<1>3. \A c \in Consumers : MaxOf(rows'[c]) \in Nat /\ rows'[c] = 1..MaxOf(rows'[c])
  BY CommitTxKeeps DEF IndInv, Streams
<1>4. \A c \in Consumers : Delivery!Unbroken(rows'[c])
  BY <1>3, StreamsUnbroken
<1>5. \A c : Owners(c)' = Owners(c)
  BY <1>1 DEF Owners
<1>6. QED
  BY <1>1, <1>2, <1>4, <1>5 DEF Delivery!Send

\* What Deliver sends was received before, or is the next message of the stream.
LEMMA DeliverReceives ==
  ASSUME IndInv, NEW i \in Instances, NEW c \in Consumers, Deliver(i, c)
  PROVE  [Delivery!Receive(c)]_(Delivery!vars)
<1>1. PICK s \in rows[c] : /\ got' = [got EXCEPT ![c] = @ \cup {s}]
                           /\ \A t \in rows[c] : t <= s /\ t # s => t \in got[c]
  BY DeliverKeeps
<1>2. UNCHANGED <<rows, cursor, held, fence>>
  BY DEF Deliver
<1>3. [d \in Consumers |-> Owners(d)]' = [d \in Consumers |-> Owners(d)]
  BY <1>2 DEF Owners
<1>4. CASE s \in got[c]
  <2>1. got' = got
    BY <1>1, <1>4, Zenon DEF IndInv, TypeOK
  <2>2. QED
    BY <1>2, <1>3, <2>1 DEF Delivery!vars
<1>5. CASE s \notin got[c]
  <2>1. 1..s - 1 \subseteq got[c]
    <3>1. PICK n \in Nat : rows[c] = 1..n
      BY DEF IndInv, Streams
    <3>2. s \in 1..n
      BY <3>1
    <3>3. \A t \in 1..s - 1 : t \in 1..n /\ t <= s /\ t # s
      BY <3>2
    <3>4. QED
      BY <1>1, <3>1, <3>3
  <2>2. QED
    BY <1>1, <1>2, <1>3, <1>5, <2>1, Zenon DEF Delivery!Receive
<1>6. QED
  BY <1>4, <1>5

\* An accepted fence is the owner's, since nobody else has it.
LEMMA FenceOwns ==
  ASSUME IndInv, NEW i \in Instances, NEW c \in Consumers, held[i][c] = fence[c], held[i][c] # 0
  PROVE  Owners(c) = {i}
BY DEF IndInv, Fences, OneOwner, Owners

\* AckMessage moves the cursor for the owner, or leaves it where it is.
LEMMA AckMoves ==
  ASSUME IndInv, NEW i \in Instances, NEW c \in Consumers, NEW s, AckMessage(i, c, s)
  PROVE  [Delivery!Acknowledge(i, c)]_(Delivery!vars)
<1>1. /\ UNCHANGED <<rows, got, held, fence>> /\ s \in got[c]
      /\ cursor' = [cursor EXCEPT ![c] = IF s > cursor[c] THEN s ELSE cursor[c]]
  BY DEF AckMessage, IndInv, TypeOK
<1>2. [d \in Consumers |-> Owners(d)]' = [d \in Consumers |-> Owners(d)]
  BY <1>1 DEF Owners
<1>3. CASE s > cursor[c]
  <2>1. cursor' = [cursor EXCEPT ![c] = s]
    BY <1>1, <1>3, Zenon
  <2>2. Owners(c) = {i}
    BY FenceOwns DEF AckMessage
  <2>3. QED
    BY <1>1, <1>2, <1>3, <2>1, <2>2, Zenon DEF Delivery!Acknowledge
<1>4. CASE ~ (s > cursor[c])
  <2>1. cursor' = cursor
    BY <1>1, <1>4, Zenon DEF IndInv, TypeOK
  <2>2. QED
    BY <1>1, <1>2, <2>1 DEF Delivery!vars
<1>5. QED
  BY <1>3, <1>4

\* AcquireLease makes the instance the owner, ReleaseLease leaves none, and the other
\* steps on a lease leave the owner alone.
LEMMA LeaseOwns ==
  ASSUME IndInv, NEW c \in Consumers,
         \/ LeaseAges(c)
         \/ \E i \in Instances : AcquireLease(i, c) \/ RenewLease(i, c) \/ ReleaseLease(i, c)
  PROVE  [Delivery!Disown(c) \/ \E i \in Instances : Delivery!Own(i, c)]_(Delivery!vars)
<1> DEFINE owner == [d \in Consumers |-> Owners(d)]
<1>1. UNCHANGED <<rows, got, cursor>>
  BY DEF LeaseAges, AcquireLease, RenewLease, ReleaseLease
<1>2. \A d \in Consumers, j \in Instances : held[j][d] \in Nat /\ fence[d] \in Nat /\ held[j][d] <= fence[d]
  BY OutboxAssumption DEF IndInv, TypeOK, Fences
<1>3. ASSUME UNCHANGED <<fence, held>>
      PROVE  UNCHANGED Delivery!vars
  <2>1. owner' = owner
    BY <1>3 DEF Owners
  <2>2. QED
    BY <1>1, <2>1 DEF Delivery!vars
<1>4. ASSUME NEW i \in Instances, AcquireLease(i, c)
      PROVE  Delivery!Own(i, c)
  <2>1. \A d \in Consumers, j \in Instances :
          /\ fence'[d] = IF d = c THEN fence[c] + 1 ELSE fence[d]
          /\ held'[j][d] = IF j = i /\ d = c THEN fence[c] + 1 ELSE held[j][d]
    BY <1>4, Zenon DEF IndInv, TypeOK, AcquireLease
  <2>2. Owners(c)' = {i}
    <3>1. fence[c] + 1 # 0 /\ \A j \in Instances : held[j][c] # fence[c] + 1
      BY <1>2
    <3>2. QED
      BY <2>1, <3>1 DEF Owners
  <2>3. \A d \in Consumers \ {c} : Owners(d)' = Owners(d)
    BY <2>1 DEF Owners
  <2>4. owner' = [owner EXCEPT ![c] = {i}]
    BY <2>2, <2>3, Zenon
  <2>5. QED
    BY <1>1, <2>4 DEF Delivery!Own
<1>5. ASSUME NEW i \in Instances, ReleaseLease(i, c)
      PROVE  Delivery!Disown(c)
  <2>1. /\ fence' = fence
        /\ \A d \in Consumers, j \in Instances :
             held'[j][d] = IF j = i /\ d = c THEN 0 ELSE held[j][d]
    BY <1>5 DEF IndInv, TypeOK, ReleaseLease
  <2>2. Owners(c)' = {}
    <3>1. Owners(c) = {i}
      BY <1>5, FenceOwns DEF ReleaseLease
    <3>2. QED
      BY <2>1, <3>1 DEF Owners
  <2>3. \A d \in Consumers \ {c} : Owners(d)' = Owners(d)
    BY <2>1 DEF Owners
  <2>4. owner' = [owner EXCEPT ![c] = {}]
    BY <2>2, <2>3, Zenon
  <2>5. QED
    BY <1>1, <2>4 DEF Delivery!Disown
<1>6. QED
  BY <1>3, <1>4, <1>5 DEF LeaseAges, RenewLease

\* The outbox implements ordered delivery: with any writers, rollbacks, takeovers,
\* instances that go on with a stale fence and repeated deliveries, consumers see
\* numbered messages in order and one owner at a time (outbox.go:25-260).
THEOREM Refinement == Spec => ImplementsDelivery
<1>1. Init => Delivery!Init
  <2>1. Init => \A c \in Consumers : Owners(c) = {}
    BY DEF Init, Owners
  <2>2. QED
    BY <2>1 DEF Init, Delivery!Init
<1>2. ASSUME IndInv, [Next]_vars
      PROVE  [Delivery!Next]_(Delivery!vars)
  <2>1. CASE UNCHANGED <<rows, fence, cursor, held, got>>
    <3>1. [d \in Consumers |-> Owners(d)]' = [d \in Consumers |-> Owners(d)]
      BY <2>1 DEF Owners
    <3>2. QED
      BY <2>1, <3>1 DEF Delivery!vars
  <2>2. CASE \E w \in Writers : CommitTx(w)
    BY <1>2, <2>2, CommitSends, Zenon DEF Delivery!Next
  <2>3. CASE \E i \in Instances, c \in Consumers : Deliver(i, c)
    BY <1>2, <2>3, DeliverReceives, Zenon DEF Delivery!Next
  <2>4. CASE \E i \in Instances, c \in Consumers : \E s \in got[c] : AckMessage(i, c, s)
    BY <1>2, <2>4, AckMoves, Zenon DEF Delivery!Next
  <2>5. CASE \E c \in Consumers :
               \/ LeaseAges(c)
               \/ \E i \in Instances : AcquireLease(i, c) \/ RenewLease(i, c) \/ ReleaseLease(i, c)
    BY <1>2, <2>5, LeaseOwns, Zenon DEF Delivery!Next
  <2>6. CASE \E w \in Writers :
               (\E j \in Jobs : Begin(w, j)) \/ Enter(w) \/ WriteTx(w) \/ Rollback(w)
    BY <2>1, <2>6 DEF WriteTx, Begin, Enter, WriteLock, WriteInsert, Rollback, delivery
  <2>7. Attached \subseteq Consumers
    BY OutboxAssumption
  <2>8. QED
    BY <1>2, <2>1, <2>2, <2>3, <2>4, <2>5, <2>6, <2>7, Zenon DEF Next, vars, delivery
<1>3. QED
  BY <1>1, <1>2, Invariance, PTL DEF Spec, ImplementsDelivery, Delivery!Spec
===============================================================================
