------------------------------ MODULE GrantCache ------------------------------
(***************************************************************************)
(* The daemon's grant cache (daemon/internal/grants/cache.go): the map in  *)
(* memory, the two files it keeps, single-use consumption, and crashes     *)
(* between any two writes.                                                 *)
(*                                                                         *)
(* Consume holds the cache mutex from its first to its last line, so only  *)
(* a crash, the Approval Service and the clock can come between its steps. *)
(* A grant stands for its JTI.  What Key() and Payload.Scope return for it *)
(* are the constants Key and Scope; a PurgeFilter is the set it matches.   *)
(***************************************************************************)
EXTENDS Naturals, Sequences, FiniteSets

CONSTANTS
  Grants,     \* the JTIs
  Keys,       \* cache keys
  Key,        \* CacheEntry.Key() of each grant
  Scope,      \* its scope
  Filters,    \* the sets of grants a purge or a policy change matches
  NoGrant,    \* no entry, no file
  Torn        \* bytes that do not decrypt

Scopes == {"REQUEST", "CONNECTION", "DURATION", "SESSION"}

ASSUME GrantsAssumption ==
  /\ Key \in [Grants -> Keys]
  /\ Scope \in [Grants -> Scopes]
  /\ Filters \subseteq SUBSET Grants
  /\ NoGrant \notin Grants /\ Torn \notin Grants /\ NoGrant # Torn

VARIABLES
  up,         \* the daemon runs
  entry,      \* Cache.entries: the grant under each key
  used,       \* CacheEntry.Consumed of that entry
  consumed,   \* Cache.consumedJTIs
  grantFile,  \* the one grant in the grants file
  flushed,    \* that file is on the medium, not only in the page cache
  logExists,  \* the .consumed file exists
  log,        \* the records in it, each sealed on its own
  synced,     \* how many of them are on the medium
  op,         \* the Consume call that holds the mutex: its next step and its JTI
  spent,      \* JTIs the Approval Service has marked consumed
  stale,      \* grants VerifyAccessGrantToken refuses: old policy version or epoch
  expired,    \* grants whose ExpiresAt has passed
  released,   \* how often Consume returned the grant: never, once, or more (0, 1, 2)
  remote      \* TRUE iff SetRemoteConsume was called when the daemon was set up

memory == <<up, entry, used, consumed>>
disk   == <<grantFile, flushed, logExists, log, synced>>
world  == <<spent, stale, expired, released>>
vars   == <<memory, disk, op, world, remote>>

Idle == [step |-> "idle", g |-> NoGrant]

TypeOK ==
  /\ up \in BOOLEAN
  /\ entry \in [Keys -> Grants \cup {NoGrant}]
  /\ used \in [Keys -> BOOLEAN]
  /\ consumed \subseteq Grants
  /\ grantFile \in Grants \cup {NoGrant, Torn}
  /\ flushed \in BOOLEAN
  /\ logExists \in BOOLEAN
  /\ log \in Seq(Grants \cup {Torn})
  /\ synced \in 0..Len(log)
  /\ op \in [step: {"local", "open", "write", "sync", "release"}, g: Grants] \cup {Idle}
  /\ spent \subseteq Grants
  /\ stale \subseteq Grants
  /\ expired \subseteq Grants
  /\ released \in [Grants -> 0..2]
  /\ remote \in BOOLEAN

Init ==
  /\ up = TRUE
  /\ entry = [k \in Keys |-> NoGrant]
  /\ used = [k \in Keys |-> FALSE]
  /\ consumed = {}
  /\ grantFile = NoGrant /\ flushed = TRUE
  /\ logExists = FALSE /\ log = <<>> /\ synced = 0
  /\ op = Idle
  /\ spent = {} /\ stale = {} /\ expired = {}
  /\ released = [g \in Grants |-> 0]
  /\ remote \in BOOLEAN

Logged == {log[i] : i \in 1..Len(log)} \ {Torn}

-------------------------------------------------------------------------------
(***************************************************************************)
(* StoreVerified, on the first delivery of an AGT and on every redelivery. *)
(* persistGrant overwrites the one grants file (write and rename, without  *)
(* fsync); when it fails the entry stays in memory.  SESSION grants stay   *)
(* off the disk.                                                           *)
(***************************************************************************)
CacheEntry(g) ==
  /\ entry' = [entry EXCEPT ![Key[g]] = g]
  /\ used' = [used EXCEPT ![Key[g]] = FALSE]

PersistGrant(g) == grantFile' = g /\ flushed' = FALSE

StoreVerified(g) ==
  /\ up /\ op = Idle
  /\ g \notin expired \cup stale
  /\ CacheEntry(g)
  /\ \/ /\ Scope[g] # "SESSION"
        /\ PersistGrant(g)
     \/ UNCHANGED <<grantFile, flushed>>
  /\ UNCHANGED <<up, consumed, logExists, log, synced, op, world, remote>>

(***************************************************************************)
(* Check: a usable entry is there.  It changes nothing.                    *)
(***************************************************************************)
CheckOK(k) ==
  /\ up
  /\ entry[k] \in Grants \ (expired \cup consumed)
  /\ ~ used[k]

(***************************************************************************)
(* Consume(key, jti).  remoteConsume comes first, whatever the entry says; *)
(* its answer may be lost after the service has marked the grant.          *)
(***************************************************************************)
Step(s) == op' = [op EXCEPT !.step = s]

\* Mutant: only an error of remoteConsume stops the call, not "already consumed".
ConsumeRemoteUnchecked(g) ==
  /\ up /\ op = Idle
  /\ entry[Key[g]] # NoGrant
  /\ spent' = spent \cup {g}
  /\ op' = [step |-> "local", g |-> g]
  /\ UNCHANGED <<memory, disk, stale, expired, released, remote>>

ConsumeRemote(g) ==
  /\ up /\ op = Idle
  /\ entry[Key[g]] # NoGrant
  /\ \/ /\ remote => g \notin spent
        /\ spent' = IF remote THEN spent \cup {g} ELSE spent
        /\ op' = [step |-> "local", g |-> g]
     \/ /\ remote
        /\ spent' \in {spent, spent \cup {g}}
        /\ UNCHANGED op
  /\ UNCHANGED <<memory, disk, stale, expired, released, remote>>

ConsumeLocal ==
  /\ op.step = "local"
  /\ LET g == op.g
         k == Key[g]
     IN IF g \in consumed \/ used[k] \/ entry[k] # g \/ g \in expired
        THEN op' = Idle /\ UNCHANGED <<used, consumed>>
        ELSE /\ used' = [used EXCEPT ![k] = TRUE]
             /\ consumed' = consumed \cup {g}
             /\ Step(IF Scope[g] = "SESSION" THEN "release" ELSE "open")
  /\ UNCHANGED <<up, entry, disk, world, remote>>

(***************************************************************************)
(* persistConsumed: open or create the log, append one sealed record,      *)
(* Sync.  Any of the three may fail; a short write leaves torn bytes.      *)
(***************************************************************************)
PersistOpen ==
  /\ op.step = "open"
  /\ logExists' = TRUE
  /\ Step("write")
  /\ UNCHANGED <<memory, grantFile, flushed, log, synced, world, remote>>

\* Mutant: no Sync before traffic is released.
PersistWriteNoSync ==
  /\ op.step = "write"
  /\ log' = Append(log, op.g)
  /\ Step("release")
  /\ UNCHANGED <<memory, grantFile, flushed, logExists, synced, world, remote>>

PersistWrite ==
  /\ op.step = "write"
  /\ log' = Append(log, op.g)
  /\ Step("sync")
  /\ UNCHANGED <<memory, grantFile, flushed, logExists, synced, world, remote>>

PersistSync ==
  /\ op.step = "sync"
  /\ synced' = Len(log)
  /\ Step("release")
  /\ UNCHANGED <<memory, grantFile, flushed, logExists, log, world, remote>>

PersistFails ==
  /\ op.step \in {"open", "write", "sync"}
  /\ \/ op.step = "write" /\ log' = Append(log, Torn)
     \/ UNCHANGED log
  /\ op' = Idle
  /\ UNCHANGED <<memory, grantFile, flushed, logExists, synced, world, remote>>

\* Consume returns the entry: the caller lets the traffic through.
Release ==
  /\ op.step = "release"
  /\ released' = [released EXCEPT ![op.g] = IF @ = 2 THEN 2 ELSE @ + 1]
  /\ op' = Idle
  /\ UNCHANGED <<memory, disk, spent, stale, expired, remote>>

(***************************************************************************)
(* Purge: from memory only.                                                *)
(***************************************************************************)
Purge(F) ==
  /\ up /\ op = Idle
  /\ entry' = [k \in Keys |-> IF entry[k] \in F THEN NoGrant ELSE entry[k]]
  /\ used' = [k \in Keys |-> IF entry[k] \in F THEN FALSE ELSE used[k]]
  /\ UNCHANGED <<up, consumed, disk, op, world, remote>>

(***************************************************************************)
(* The process stops, or the whole host does.  What was not synced may     *)
(* then be there, be lost or be torn.                                      *)
(***************************************************************************)
LoseMemory ==
  /\ up
  /\ up' = FALSE
  /\ entry' = [k \in Keys |-> NoGrant]
  /\ used' = [k \in Keys |-> FALSE]
  /\ consumed' = {}
  /\ op' = Idle
  /\ UNCHANGED <<world, remote>>

ProcessStops ==
  /\ LoseMemory
  /\ \/ op.step = "write" /\ log' = Append(log, Torn)
     \/ UNCHANGED log
  /\ UNCHANGED <<grantFile, flushed, logExists, synced>>

HostStops ==
  /\ LoseMemory
  /\ \/ UNCHANGED log
     \/ /\ synced < Len(log)
        /\ log' \in {SubSeq(log, 1, synced), Append(SubSeq(log, 1, synced), Torn)}
  /\ synced' = Len(log')
  /\ grantFile' \in (IF flushed THEN {grantFile} ELSE {grantFile, Torn})
  /\ flushed' = TRUE
  /\ UNCHANGED logExists

\* The operating system writes the page cache back.
Flush ==
  /\ ~ flushed
  /\ flushed' = TRUE
  /\ UNCHANGED <<memory, grantFile, logExists, log, synced, op, world, remote>>

(***************************************************************************)
(* NewCache.  loadConsumed opens the whole log as one sealed message, so   *)
(* it succeeds for a missing log or for exactly one intact record; on any  *)
(* error the daemon exits.  loadGrants restores the one grant of the file. *)
(***************************************************************************)
LogLoads == \/ ~ logExists
            \/ Len(log) = 1 /\ log[1] # Torn

FilesLoad == LogLoads /\ grantFile # Torn

RestoredGrant(k) ==
  IF grantFile \in Grants \ expired /\ Key[grantFile] = k THEN grantFile ELSE NoGrant

\* Mutant: loadConsumed goes on when the log does not open and takes its bytes for JTIs.
NewCacheUnopened ==
  /\ ~ up
  /\ grantFile # Torn
  /\ up' = TRUE
  /\ consumed' = {log[i] : i \in 1..Len(log)}
  /\ entry' = [k \in Keys |-> RestoredGrant(k)]
  /\ UNCHANGED <<used, disk, op, world, remote>>

NewCache ==
  /\ ~ up
  /\ FilesLoad
  /\ up' = TRUE
  /\ consumed' = Logged
  /\ entry' = [k \in Keys |-> RestoredGrant(k)]
  /\ UNCHANGED <<used, disk, op, world, remote>>

\* ExpiresAt passes; policy version or authz epoch moves on.
Expire(g) ==
  /\ g \notin expired
  /\ expired' = expired \cup {g}
  /\ UNCHANGED <<memory, disk, op, spent, stale, released, remote>>

PolicyAdvances(F) ==
  /\ ~ F \subseteq stale
  /\ stale' = stale \cup F
  /\ UNCHANGED <<memory, disk, op, spent, expired, released, remote>>

Next ==
  \/ \E g \in Grants : StoreVerified(g)
  \/ \E g \in Grants : ConsumeRemote(g)
  \/ ConsumeLocal \/ PersistOpen \/ PersistWrite \/ PersistSync \/ PersistFails \/ Release
  \/ \E F \in Filters : Purge(F)
  \/ ProcessStops \/ HostStops \/ Flush \/ NewCache
  \/ \E g \in Grants : Expire(g)
  \/ \E F \in Filters : PolicyAdvances(F)

Spec == Init /\ [][Next]_vars

-------------------------------------------------------------------------------
\* Single-use consumption must hold for these: a SESSION grant is not kept on
\* disk, so only the Approval Service can remember its consumption.
Remembered(g) == remote \/ Scope[g] # "SESSION"

\* A grant is good for one use, over any sequence of redeliveries, purges, failed
\* writes, lost answers, crashes and restarts: Consume hands it out at most once
\* (DR-GRANT-6), and Check offers none again whose consumption is on disk
\* (cache.go:208 "check persisted consumed JTIs for replay after restart").
SingleUse ==
  /\ \A g \in Grants : Remembered(g) => released[g] <= 1
  /\ \A k \in Keys : CheckOK(k) /\ Scope[entry[k]] # "SESSION" => released[entry[k]] = 0

\* Traffic is released only when the record of the consumption is on the medium,
\* so no later crash can lose it (cache.go:219 "persists consumption BEFORE releasing traffic").
PersistedBeforeRelease ==
  \A g \in Grants :
    released[g] > 0 /\ Scope[g] # "SESSION" => \E i \in 1..synced : log[i] = g

\* The consumption of g is on record wherever one is kept: in the part of the log
\* that is on the medium, and at the Approval Service if there is one.
OnRecord(g) ==
  /\ Remembered(g)
  /\ Scope[g] # "SESSION" => \E i \in 1..synced : log[i] = g
  /\ remote => g \in spent

SingleUses ==
  INSTANCE SingleUseGrants
    WITH recorded <- {g \in Grants : OnRecord(g)},
         uses <- [g \in Grants |-> IF Remembered(g) THEN released[g] ELSE 0]

\* The specification of single use under that mapping: traffic is released once, with
\* the record of the consumption where neither a failed write, nor a crash of process
\* or host, nor a restart takes it back (cache.go:219 "persists consumption BEFORE
\* releasing traffic").
ImplementsSingleUse == SingleUses!Spec

(***************************************************************************)
(* What the documents say and the code does not do.                        *)
(***************************************************************************)

\* cache.go:114 "Load persisted consumed JTIs" and cache.go:433 "Each record is
\* 24 bytes": a daemon that stops between calls, with every record of its log
\* written whole and synced, starts again however many grants it consumed.
RestartAfterStop ==
  [][ProcessStops /\ op = Idle /\ synced = Len(log) /\ Cardinality(Logged) = Len(log)
       /\ (logExists => log # <<>>) => FilesLoad']_vars
===============================================================================
