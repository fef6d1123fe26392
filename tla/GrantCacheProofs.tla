--------------------------- MODULE GrantCacheProofs ---------------------------
(***************************************************************************)
(* Proofs about GrantCache, for every set of grants, keys and purge        *)
(* filters, with and without the Approval Service.                         *)
(***************************************************************************)
EXTENDS GrantCache, TLAPS

\* The record of a grant's consumption is on the medium.
OnMedium(g) == \E i \in 1..synced : log[i] = g

\* Where Consume is says what it has done: it runs in a daemon that is up, has
\* marked the grant at the service if there is one, then in memory, then on disk,
\* and has not handed it out.
CallHasMarked ==
  op # Idle =>
    /\ up
    /\ remote => op.g \in spent /\ released[op.g] = 0
    /\ op.step # "local" =>
         /\ op.g \in consumed
         /\ Remembered(op.g) => released[op.g] = 0
    /\ op.step \in {"open", "write", "sync"} => Scope[op.g] # "SESSION"
    /\ op.step \in {"write", "sync"} => logExists
    /\ op.step = "sync" => log # <<>> /\ log[Len(log)] = op.g
    /\ op.step = "release" /\ Scope[op.g] # "SESSION" => OnMedium(op.g)

\* A grant that was handed out is marked wherever a later Consume looks.
ReleasedIsMarked ==
  \A g \in Grants : released[g] > 0 =>
    /\ remote => g \in spent
    /\ up /\ Scope[g] # "SESSION" => g \in consumed
    /\ Scope[g] # "SESSION" => OnMedium(g)
    /\ Remembered(g) => released[g] = 1

IndInv ==
  /\ TypeOK
  /\ ~ logExists => log = <<>>
  /\ CallHasMarked
  /\ ReleasedIsMarked

-------------------------------------------------------------------------------
\* A call that is under way has a step and a grant.
LEMMA Calling ==
  ASSUME TypeOK, op.step # "idle"
  PROVE  /\ op # Idle
         /\ op.g \in Grants
         /\ op.step \in {"local", "open", "write", "sync", "release"}
         /\ \A s \in {"local", "open", "write", "sync", "release"} :
              /\ [op EXCEPT !.step = s] = [step |-> s, g |-> op.g]
              /\ [step |-> s, g |-> op.g] # Idle
  BY DEF TypeOK, Idle

\* Nothing is consumed when the daemon starts for the first time.
LEMMA InitInv == Init => IndInv
<1> SUFFICES ASSUME Init PROVE IndInv
  OBVIOUS
<1>1. TypeOK
  <2>1. log \in Seq(Grants \cup {Torn}) /\ synced \in 0..Len(log)
    BY DEF Init
  <2>2. /\ entry \in [Keys -> Grants \cup {NoGrant}] /\ used \in [Keys -> BOOLEAN]
        /\ released \in [Grants -> 0..2]
    BY DEF Init
  <2>3. QED
    BY <2>1, <2>2, Zenon DEF Init, TypeOK
<1>2. CallHasMarked /\ (~ logExists => log = <<>>)
  BY DEF Init, CallHasMarked
<1>3. ReleasedIsMarked
  BY DEF Init, ReleasedIsMarked
<1>4. QED
  BY <1>1, <1>2, <1>3 DEF IndInv

\* Adding a record behind the synced ones keeps what is on the medium.
LEMMA AppendKeepsMedium ==
  ASSUME TypeOK, NEW x \in Grants \cup {Torn}, log' = Append(log, x), synced' = synced
  PROVE  /\ log' \in Seq(Grants \cup {Torn}) /\ synced' \in 0..Len(log')
         /\ log' # <<>> /\ log'[Len(log')] = x
         /\ \A g : OnMedium(g) => OnMedium(g)'
  BY DEF OnMedium, TypeOK

\* A step that touches neither the log nor anything Consume has marked.
LEMMA NothingMarked ==
  ASSUME IndInv, TypeOK', UNCHANGED <<up, consumed, logExists, log, synced, op, spent, released, remote>>
  PROVE  IndInv'
<1>1. \A g : OnMedium(g)' = OnMedium(g)
  BY DEF OnMedium
<1>2. \A g : Remembered(g)' = Remembered(g)
  BY DEF Remembered
<1>3. CallHasMarked' /\ ReleasedIsMarked'
  BY <1>1, <1>2 DEF IndInv, CallHasMarked, ReleasedIsMarked
<1>4. QED
  BY <1>3 DEF IndInv

\* The write and the redelivery of a grant touch what Check reads, no mark.
LEMMA StoreKeeps ==
  ASSUME IndInv, NEW g \in Grants, StoreVerified(g)
  PROVE  IndInv'
<1>1. TypeOK'
  BY GrantsAssumption, Zenon DEF IndInv, TypeOK, StoreVerified, CacheEntry, PersistGrant, world
<1>2. QED
  BY <1>1, NothingMarked DEF StoreVerified, world

\* The call of the service marks the grant there first; one the service has
\* marked before, and so every one that was handed out, goes no further.
LEMMA ConsumeRemoteKeeps ==
  ASSUME IndInv, NEW g \in Grants, ConsumeRemote(g)
  PROVE  IndInv'
<1>1. TypeOK'
  BY DEF IndInv, TypeOK, ConsumeRemote, memory, disk
<1>2. \A x : OnMedium(x)' = OnMedium(x) /\ Remembered(x)' = Remembered(x)
  BY DEF OnMedium, Remembered, ConsumeRemote, disk
<1>3. ReleasedIsMarked'
  BY <1>2 DEF IndInv, ReleasedIsMarked, ConsumeRemote, memory
<1>4. CallHasMarked'
  BY <1>2 DEF IndInv, TypeOK, CallHasMarked, ReleasedIsMarked, ConsumeRemote, memory, disk, Idle
<1>5. QED
  BY <1>1, <1>3, <1>4 DEF IndInv, ConsumeRemote, disk

\* The mark in memory: what it refuses includes everything handed out before.
LEMMA ConsumeLocalKeeps ==
  ASSUME IndInv, ConsumeLocal
  PROVE  IndInv'
<1> DEFINE g == op.g
<1>0. /\ op # Idle /\ g \in Grants /\ Key[g] \in Keys
      /\ UNCHANGED <<up, entry, disk, world, remote>>
  BY Calling, GrantsAssumption DEF IndInv, ConsumeLocal
<1>1. \A x : OnMedium(x)' = OnMedium(x) /\ Remembered(x)' = Remembered(x)
  BY <1>0 DEF OnMedium, Remembered, disk
<1>2. CASE op' = Idle /\ UNCHANGED <<used, consumed>>
  BY <1>0, <1>1, <1>2 DEF IndInv, TypeOK, CallHasMarked, ReleasedIsMarked, disk, world
<1>3. CASE /\ g \notin consumed
           /\ used' = [used EXCEPT ![Key[g]] = TRUE]
           /\ consumed' = consumed \cup {g}
           /\ op' = [step |-> IF Scope[g] = "SESSION" THEN "release" ELSE "open", g |-> g]
  <2>1. TypeOK'
    BY <1>0, <1>3 DEF IndInv, TypeOK, disk, world
  <2>2. ReleasedIsMarked'
    BY <1>0, <1>1, <1>3 DEF IndInv, ReleasedIsMarked, world
  <2>3. Remembered(g) => released[g] = 0
    BY <1>0, <1>3 DEF IndInv, TypeOK, CallHasMarked, ReleasedIsMarked, Remembered
  <2>4. CallHasMarked'
    BY <1>0, <1>1, <1>3, <2>3 DEF IndInv, CallHasMarked, disk, world
  <2>5. QED
    BY <1>0, <2>1, <2>2, <2>4 DEF IndInv, disk
<1>4. QED
  BY <1>2, <1>3, Calling DEF IndInv, ConsumeLocal, Step

\* The log is there before the first record goes into it.
LEMMA PersistOpenKeeps ==
  ASSUME IndInv, PersistOpen
  PROVE  IndInv'
<1>1. /\ op # Idle /\ op.g \in Grants /\ op' = [step |-> "write", g |-> op.g]
      /\ logExists' = TRUE
      /\ UNCHANGED <<memory, grantFile, flushed, log, synced, world, remote>>
  BY Calling DEF IndInv, PersistOpen, Step
<1>2. \A x : OnMedium(x)' = OnMedium(x) /\ Remembered(x)' = Remembered(x)
  BY <1>1 DEF OnMedium, Remembered
<1>3. TypeOK'
  BY <1>1 DEF IndInv, TypeOK, memory, world
<1>4. CallHasMarked' /\ ReleasedIsMarked'
  BY <1>1, <1>2 DEF IndInv, CallHasMarked, ReleasedIsMarked, PersistOpen, memory, world
<1>5. QED
  BY <1>1, <1>3, <1>4 DEF IndInv

\* The record goes behind the others.
LEMMA PersistWriteKeeps ==
  ASSUME IndInv, PersistWrite
  PROVE  IndInv' /\ \A g : OnMedium(g) => OnMedium(g)'
<1>1. /\ op # Idle /\ op.g \in Grants /\ op' = [step |-> "sync", g |-> op.g]
      /\ log' = Append(log, op.g)
      /\ UNCHANGED <<memory, grantFile, flushed, logExists, synced, world, remote>>
  BY Calling DEF IndInv, PersistWrite, Step
<1>2. /\ log' \in Seq(Grants \cup {Torn}) /\ synced' \in 0..Len(log')
      /\ log' # <<>> /\ log'[Len(log')] = op.g
      /\ \A x : OnMedium(x) => OnMedium(x)'
  BY <1>1, AppendKeepsMedium DEF IndInv
<1>3. \A x : Remembered(x)' = Remembered(x)
  BY <1>1 DEF Remembered
<1>4. TypeOK'
  BY <1>1, <1>2 DEF IndInv, TypeOK, memory, world
<1>5. CallHasMarked' /\ ReleasedIsMarked'
  BY <1>1, <1>2, <1>3 DEF IndInv, CallHasMarked, ReleasedIsMarked, PersistWrite, memory, world
<1>6. logExists'
  BY <1>1 DEF IndInv, CallHasMarked, PersistWrite
<1>7. QED
  BY <1>2, <1>4, <1>5, <1>6, Zenon DEF IndInv

\* Sync brings the record of the call, the last one, to the medium.
LEMMA PersistSyncKeeps ==
  ASSUME IndInv, PersistSync
  PROVE  IndInv' /\ \A g : OnMedium(g) => OnMedium(g)'
<1>1. /\ op # Idle /\ op.g \in Grants /\ op' = [step |-> "release", g |-> op.g]
      /\ synced' = Len(log)
      /\ UNCHANGED <<memory, grantFile, flushed, logExists, log, world, remote>>
  BY Calling DEF IndInv, PersistSync, Step
<1>2. /\ Len(log) \in Nat /\ synced \in 0..Len(log)
      /\ log # <<>> /\ log[Len(log)] = op.g
  BY <1>1 DEF IndInv, TypeOK, CallHasMarked, PersistSync
<1>3. OnMedium(op.g)' /\ \A x : OnMedium(x) => OnMedium(x)'
  BY <1>1, <1>2 DEF OnMedium, IndInv, TypeOK
<1>4. \A x : Remembered(x)' = Remembered(x)
  BY <1>1 DEF Remembered
<1>5. TypeOK'
  BY <1>1, <1>2 DEF IndInv, TypeOK, memory, world
<1>6. CallHasMarked' /\ ReleasedIsMarked'
  BY <1>1, <1>3, <1>4 DEF IndInv, CallHasMarked, ReleasedIsMarked, PersistSync, memory, world
<1>7. ~ logExists' => log' = <<>>
  BY <1>1 DEF IndInv
<1>8. QED
  BY <1>3, <1>5, <1>6, <1>7, Zenon DEF IndInv

\* A failing write leaves the call unfinished: the grant stays marked in memory
\* and at the service and is not handed out.
LEMMA PersistFailsKeeps ==
  ASSUME IndInv, PersistFails
  PROVE  IndInv' /\ \A g : OnMedium(g) => OnMedium(g)'
<1>1. /\ op' = Idle
      /\ UNCHANGED <<memory, grantFile, flushed, logExists, synced, world, remote>>
      /\ \/ op.step = "write" /\ log' = Append(log, Torn)
         \/ UNCHANGED log
  BY DEF PersistFails
<1>2. /\ log' \in Seq(Grants \cup {Torn}) /\ synced' \in 0..Len(log')
      /\ \A x : OnMedium(x) => OnMedium(x)'
  <2>1. CASE UNCHANGED log
    BY <1>1, <2>1 DEF IndInv, TypeOK, OnMedium
  <2>2. CASE log' = Append(log, Torn)
    BY <1>1, <2>2, AppendKeepsMedium DEF IndInv
  <2>3. QED
    BY <1>1, <2>1, <2>2
<1>3. \A x : Remembered(x)' = Remembered(x)
  BY <1>1 DEF Remembered
<1>4. TypeOK'
  BY <1>1, <1>2 DEF IndInv, TypeOK, memory, world
<1>5. CallHasMarked' /\ ReleasedIsMarked'
  BY <1>1, <1>2, <1>3 DEF IndInv, CallHasMarked, ReleasedIsMarked, memory, world
<1>6. ~ logExists' => log' = <<>>
  BY <1>1, Calling DEF IndInv, CallHasMarked
<1>7. QED
  BY <1>2, <1>4, <1>5, <1>6, Zenon DEF IndInv

\* Handing out: for the first time, and with every mark in place.
LEMMA ReleaseKeeps ==
  ASSUME IndInv, Release
  PROVE  IndInv'
<1>1. /\ op # Idle /\ op.g \in Grants /\ op' = Idle
      /\ released' = [released EXCEPT ![op.g] = IF @ = 2 THEN 2 ELSE @ + 1]
      /\ UNCHANGED <<memory, disk, spent, stale, expired, remote>>
  BY Calling DEF IndInv, Release
<1>2. \A x : OnMedium(x)' = OnMedium(x) /\ Remembered(x)' = Remembered(x)
  BY <1>1 DEF OnMedium, Remembered, disk
<1>3. TypeOK'
  BY <1>1 DEF IndInv, TypeOK, memory, disk
<1>4. /\ remote => op.g \in spent
      /\ op.g \in consumed
      /\ Scope[op.g] # "SESSION" => OnMedium(op.g)
      /\ Remembered(op.g) => released[op.g] = 0
  BY <1>1 DEF IndInv, CallHasMarked, Release
<1>5. ReleasedIsMarked'
  BY <1>1, <1>2, <1>4 DEF IndInv, TypeOK, ReleasedIsMarked, memory
<1>6. QED
  BY <1>1, <1>3, <1>5 DEF IndInv, CallHasMarked, disk

\* A purge forgets entries, not the JTIs that were consumed.
LEMMA PurgeKeeps ==
  ASSUME IndInv, NEW F \in Filters, Purge(F)
  PROVE  IndInv'
<1>1. TypeOK'
  BY Zenon DEF IndInv, TypeOK, Purge, disk, world
<1>2. QED
  BY <1>1, NothingMarked DEF Purge, disk, world

\* When the daemon or its host stops, every synced record is still there.
LEMMA StopKeeps ==
  ASSUME IndInv, LoseMemory, UNCHANGED logExists, grantFile' \in {grantFile, Torn},
         flushed' \in BOOLEAN, ~ logExists => log' = <<>>,
         log' \in Seq(Grants \cup {Torn}), synced' \in 0..Len(log'),
         \A g : OnMedium(g) => OnMedium(g)'
  PROVE  IndInv'
<1>1. TypeOK'
  BY Zenon DEF IndInv, TypeOK, LoseMemory, world
<1>2. CallHasMarked'
  BY DEF CallHasMarked, LoseMemory
<1>3. \A g : Remembered(g)' = Remembered(g)
  BY DEF Remembered, LoseMemory
<1>4. ReleasedIsMarked'
  BY <1>3 DEF IndInv, ReleasedIsMarked, LoseMemory, world
<1>5. QED
  BY <1>1, <1>2, <1>4 DEF IndInv

\* The process stops in a call: at worst a torn record is behind the synced ones.
LEMMA ProcessStopsKeeps ==
  ASSUME IndInv, ProcessStops
  PROVE  IndInv' /\ \A g : OnMedium(g) => OnMedium(g)'
<1>1. grantFile' = grantFile /\ flushed' \in BOOLEAN /\ synced' = synced
  BY DEF ProcessStops, IndInv, TypeOK
<1>2. /\ log' \in Seq(Grants \cup {Torn}) /\ synced' \in 0..Len(log')
      /\ \A g : OnMedium(g) => OnMedium(g)'
  <2>1. CASE UNCHANGED log
    BY <1>1, <2>1 DEF IndInv, TypeOK, OnMedium
  <2>2. CASE log' = Append(log, Torn)
    BY <1>1, <2>2, AppendKeepsMedium DEF IndInv
  <2>3. QED
    BY <2>1, <2>2 DEF ProcessStops
<1>3. ~ logExists => log' = <<>>
  BY Calling DEF ProcessStops, IndInv, CallHasMarked
<1>4. QED
  BY <1>1, <1>2, <1>3, StopKeeps DEF ProcessStops

\* The host stops: what was not synced is there, lost or torn.
LEMMA HostStopsKeeps ==
  ASSUME IndInv, HostStops
  PROVE  IndInv' /\ \A g : OnMedium(g) => OnMedium(g)'
<1>1. grantFile' \in {grantFile, Torn} /\ flushed' \in BOOLEAN /\ synced' = Len(log')
  BY DEF HostStops
<1> DEFINE kept == SubSeq(log, 1, synced)
<1>2. /\ log \in Seq(Grants \cup {Torn}) /\ synced \in 0..Len(log)
      /\ kept \in Seq(Grants \cup {Torn}) /\ Len(kept) = synced
      /\ \A i \in 1..synced : kept[i] = log[i]
  BY DEF IndInv, TypeOK
<1>3. /\ log' \in Seq(Grants \cup {Torn}) /\ synced <= Len(log')
      /\ \A i \in 1..synced : log'[i] = log[i]
  <2> HIDE DEF kept
  <2>1. log' \in {log, kept, Append(kept, Torn)}
    BY Zenon DEF HostStops, kept
  <2>2. CASE log' = log
    BY <1>2, <2>2
  <2>3. CASE log' = kept
    BY <1>2, <2>3
  <2>4. CASE log' = Append(kept, Torn)
    BY <1>2, <2>4
  <2>5. QED
    BY <2>1, <2>2, <2>3, <2>4
<1>4. synced' \in 0..Len(log') /\ \A g : OnMedium(g) => OnMedium(g)'
  BY <1>1, <1>2, <1>3 DEF OnMedium
<1>5. ~ logExists => log' = <<>>
  BY <1>2 DEF HostStops, IndInv
<1>6. QED
  BY <1>1, <1>3, <1>4, <1>5, StopKeeps DEF HostStops

\* A daemon that starts reads back every record that is on the medium.
LEMMA NewCacheKeeps ==
  ASSUME IndInv, NewCache
  PROVE  IndInv'
<1>1. /\ log \in Seq(Grants \cup {Torn}) /\ synced \in 0..Len(log)
      /\ \A i \in 1..Len(log) : log[i] \in Grants \cup {Torn}
  BY DEF IndInv, TypeOK
<1>2. Logged \subseteq Grants /\ \A g \in Grants : OnMedium(g) => g \in Logged
  BY <1>1, GrantsAssumption DEF Logged, OnMedium
<1>3. \A x : OnMedium(x)' = OnMedium(x) /\ Remembered(x)' = Remembered(x)
  BY DEF OnMedium, Remembered, NewCache, disk
<1>4. op = Idle /\ op' = Idle
  BY DEF IndInv, CallHasMarked, NewCache
<1>5. TypeOK'
  <2>1. entry' \in [Keys -> Grants \cup {NoGrant}]
    BY DEF NewCache, RestoredGrant
  <2>2. QED
    BY <1>2, <2>1 DEF IndInv, TypeOK, NewCache, disk, world
<1>6. ReleasedIsMarked'
  BY <1>2, <1>3 DEF IndInv, ReleasedIsMarked, NewCache, world
<1>7. QED
  BY <1>4, <1>5, <1>6 DEF IndInv, CallHasMarked, NewCache, disk

\* The page cache, the clock and the policy version touch no mark.
LEMMA WorldKeeps ==
  ASSUME IndInv,
         Flush \/ (\E g \in Grants : Expire(g)) \/ (\E F \in Filters : PolicyAdvances(F))
  PROVE  IndInv'
<1>1. TypeOK'
  BY GrantsAssumption, Zenon DEF IndInv, TypeOK, Flush, Expire, PolicyAdvances, memory, disk, world
<1>2. QED
  BY <1>1, NothingMarked DEF Flush, Expire, PolicyAdvances, memory, disk, world

-------------------------------------------------------------------------------
\* The invariant holds over every sequence of deliveries, calls, failed writes,
\* purges, crashes and restarts of the grant cache.
THEOREM Invariance == Spec => []IndInv
<1>1. ASSUME IndInv, [Next]_vars
      PROVE  IndInv'
  <2>1. CASE UNCHANGED vars
    <3>1. TypeOK'
      BY <1>1, <2>1 DEF vars, memory, disk, world, IndInv, TypeOK
    <3>2. QED
      BY <1>1, <2>1, <3>1, NothingMarked DEF vars, memory, disk, world
  <2>2. CASE \/ \E g \in Grants : StoreVerified(g) \/ ConsumeRemote(g)
             \/ \E F \in Filters : Purge(F)
    BY <1>1, <2>2, StoreKeeps, ConsumeRemoteKeeps, PurgeKeeps
  <2>3. CASE \/ ConsumeLocal \/ PersistOpen \/ PersistWrite \/ PersistSync
             \/ PersistFails \/ Release
    BY <1>1, <2>3, ConsumeLocalKeeps, PersistOpenKeeps, PersistWriteKeeps, PersistSyncKeeps,
       PersistFailsKeeps, ReleaseKeeps
  <2>4. CASE ProcessStops \/ HostStops \/ NewCache
    BY <1>1, <2>4, ProcessStopsKeeps, HostStopsKeeps, NewCacheKeeps
  <2>5. CASE Flush \/ (\E g \in Grants : Expire(g)) \/ (\E F \in Filters : PolicyAdvances(F))
    BY <1>1, <2>5, WorldKeeps
  <2>6. QED
    BY <1>1, <2>1, <2>2, <2>3, <2>4, <2>5 DEF Next
<1>2. QED
  BY <1>1, InitInv, PTL DEF Spec

\* Type correctness of the cache, its two files and the call in progress.
THEOREM TypeCorrect == Spec => []TypeOK
<1>1. IndInv => TypeOK
  BY DEF IndInv
<1>2. QED
  BY <1>1, Invariance, PTL

\* Consume (cache.go:219) hands a grant out at most once and Check offers none
\* again whose consumption is on disk, for any number of grants and keys.
THEOREM SingleUseSafety == Spec => []SingleUse
<1>1. ASSUME IndInv PROVE SingleUse
  <2>1. \A g \in Grants : Remembered(g) => released[g] <= 1
    BY <1>1 DEF IndInv, TypeOK, ReleasedIsMarked
  <2>2. ASSUME NEW k \in Keys, CheckOK(k), Scope[entry[k]] # "SESSION"
        PROVE  released[entry[k]] = 0
    BY <1>1, <2>2 DEF IndInv, TypeOK, ReleasedIsMarked, CheckOK
  <2>3. QED
    BY <2>1, <2>2 DEF SingleUse
<1>2. QED
  BY <1>1, Invariance, PTL

\* Consume releases traffic only once its record is on the medium, so that no
\* crash, however the unsynced bytes end up, can lose it (persistConsumed).
THEOREM PersistenceSafety == Spec => []PersistedBeforeRelease
<1>1. IndInv => PersistedBeforeRelease
  BY DEF IndInv, ReleasedIsMarked, PersistedBeforeRelease, OnMedium
<1>2. QED
  BY <1>1, Invariance, PTL

-------------------------------------------------------------------------------
\* No step of daemon, service or host strikes a consumption off the record.
LEMMA RecordsStay ==
  ASSUME IndInv, [Next]_vars
  PROVE  \A g \in Grants : /\ Remembered(g)' = Remembered(g)
                           /\ OnRecord(g) => OnRecord(g)'
<1>1. \A g : OnMedium(g) => OnMedium(g)'
  <2>1. CASE UNCHANGED <<log, synced>>
    BY <2>1 DEF OnMedium
  <2>2. CASE PersistWrite \/ PersistSync \/ PersistFails \/ ProcessStops \/ HostStops
    BY <2>2, PersistWriteKeeps, PersistSyncKeeps, PersistFailsKeeps, ProcessStopsKeeps,
       HostStopsKeeps, Zenon
  <2>3. QED
    BY <2>1, <2>2, Zenon
       DEF Next, vars, disk, StoreVerified, ConsumeRemote, ConsumeLocal, PersistOpen, Release,
           Purge, Flush, NewCache, Expire, PolicyAdvances
<1>2. UNCHANGED remote /\ spent \subseteq spent'
  BY Zenon DEF Next, vars, world, StoreVerified, ConsumeRemote, ConsumeLocal, PersistOpen, PersistWrite,
         PersistSync, PersistFails, Release, Purge, ProcessStops, HostStops, LoseMemory, Flush,
         NewCache, Expire, PolicyAdvances
<1>3. QED
  BY <1>1, <1>2 DEF OnRecord, OnMedium, Remembered

\* Release uses a grant that is on record, for the first time.
LEMMA ReleaseUses ==
  ASSUME IndInv, Release, NEW g \in Grants, g = op.g, Remembered(g)
  PROVE  SingleUses!Use(g)
<1>1. /\ released \in [Grants -> 0..2]
      /\ released' = [released EXCEPT ![g] = IF @ = 2 THEN 2 ELSE @ + 1]
      /\ UNCHANGED <<log, synced, spent, remote>>
  BY Calling DEF IndInv, TypeOK, Release, disk
<1>2. OnRecord(g) /\ released[g] = 0
  BY <1>1, Calling DEF IndInv, CallHasMarked, Release, OnRecord, OnMedium
<1>3. \A x \in Grants : OnRecord(x)' = OnRecord(x) /\ Remembered(x)' = Remembered(x)
  BY <1>1 DEF OnRecord, Remembered
<1>4. released' = [released EXCEPT ![g] = 1]
  BY <1>1, <1>2
<1>5. [x \in Grants |-> IF Remembered(x) THEN released[x] ELSE 0]'
        = [[x \in Grants |-> IF Remembered(x) THEN released[x] ELSE 0] EXCEPT ![g] = 1]
  BY <1>1, <1>3, <1>4, Zenon
<1>6. {x \in Grants : OnRecord(x)}' = {x \in Grants : OnRecord(x)}
  BY <1>3
<1>7. QED
  BY <1>1, <1>2, <1>5, <1>6 DEF SingleUses!Use

\* The grant cache implements single use: Release is Use, every other step records
\* consumptions or changes nothing the specification speaks of (Consume, cache.go:219;
\* persistConsumed; NewCache).
THEOREM Refinement == Spec => ImplementsSingleUse
<1> DEFINE uses == [g \in Grants |-> IF Remembered(g) THEN released[g] ELSE 0]
           recorded == {g \in Grants : OnRecord(g)}
<1>1. Init => SingleUses!Init
  <2> SUFFICES ASSUME Init PROVE SingleUses!Init
    OBVIOUS
  <2>1. uses = [g \in Grants |-> 0]
    BY DEF Init
  <2>2. \A g \in Grants : ~ OnRecord(g)
    BY DEF Init, OnRecord, Remembered
  <2>3. QED
    BY <2>1, <2>2 DEF SingleUses!Init
<1>2. ASSUME IndInv, [Next]_vars PROVE [SingleUses!Next]_(SingleUses!vars)
  <2>1. CASE Release /\ Remembered(op.g)
    <3>1. PICK g \in Grants : g = op.g
      BY <1>2, <2>1, Calling DEF IndInv, Release
    <3>2. SingleUses!Use(g)
      BY <1>2, <2>1, <3>1, ReleaseUses
    <3>3. QED
      BY <3>2, Zenon DEF SingleUses!Next
  <2>2. CASE \A g \in Grants : Remembered(g) => released'[g] = released[g]
    <3>1. uses' = uses
      BY <1>2, <2>2, RecordsStay
    <3>2. recorded \subseteq recorded' /\ recorded' \subseteq Grants
      BY <1>2, RecordsStay
    <3>3. QED
      BY <3>1, <3>2, Zenon DEF SingleUses!Next, SingleUses!Record
  <2>3. CASE Release /\ ~ Remembered(op.g)
    <3>1. \A g \in Grants : g # op.g => released'[g] = released[g]
      BY <1>2, <2>3 DEF Release, IndInv, TypeOK
    <3>2. QED
      BY <2>2, <2>3, <3>1, Zenon
  <2>4. CASE UNCHANGED released
    BY <2>2, <2>4
  <2>5. QED
    BY <1>2, <2>1, <2>3, <2>4, Zenon
       DEF Next, vars, world, StoreVerified, ConsumeRemote, ConsumeLocal, PersistOpen,
           PersistWrite, PersistSync, PersistFails, Purge, ProcessStops, HostStops, LoseMemory,
           Flush, NewCache, Expire, PolicyAdvances
<1>3. QED
  BY <1>1, <1>2, Invariance, PTL DEF Spec, ImplementsSingleUse, SingleUses!Spec
===============================================================================
