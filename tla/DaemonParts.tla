----------------------------- MODULE DaemonParts -----------------------------
(* Six parts of the daemon that share no state: the device logins of the      *)
(* terminal, the pool usage of native streams, the memory of model listings,  *)
(* the keep-alive scheduler, the captured-IO log, and starts and stops. The   *)
(* first state picks the part that runs, so the states of the composition are *)
(* the sum of the parts and not their product.                                *)
EXTENDS LoginConsole

CONSTANTS
    PoolAccounts, Streams, Requested, WindowLengths, Delays, Threshold, MaxLag, PoolTime,
    Ids, Size, Lifetime, MaxEntries, CacheBytes, MaxSequence,
    PingAccounts, ProviderOf, Clock, Schedule, PingTime, MaxRestarts, Catalogs, Configured,
    Bodies, MaxBody, FileBytes, MaxFiles, MaxRecords,
    Processes, Releases, Inodes

VARIABLES
    part,
    now, row, reading, overdue, todo, failed, waiting, told,
    entries, sequence, retainedBytes, answer,
    minute, ticking, tick, at, run, providers, bearers, account, completed, restarts, pings,
    files, file, size, written, next, torn, halted,
    db, view, release, stage, path, seen, socket, owner, port, crossed

loginVars == allVars
poolVars  == <<now, row, reading, overdue, todo, failed, waiting, told>>
cacheVars == <<entries, sequence, retainedBytes, answer>>
pingVars  == <<minute, ticking, tick, at, run, providers, bearers, account, completed,
               restarts, pings>>
logVars   == <<files, file, size, written, next, torn, halted>>
startVars == <<db, view, release, stage, path, seen, socket, owner, port, crossed>>
partVars  == <<part, loginVars, poolVars, cacheVars, pingVars, logVars, startVars>>

Pool == INSTANCE PoolUsage WITH
    Accounts <- PoolAccounts, Readers <- Streams, Lengths <- WindowLengths,
    MaxTime <- PoolTime
Cache == INSTANCE EphemeralModelCache WITH MaxBytes <- CacheBytes
Ping == INSTANCE Keepalive WITH Accounts <- PingAccounts, MaxTime <- PingTime
Log == INSTANCE IOLog WITH MaxBytes <- FileBytes
Daemons == INSTANCE DaemonStart

ASSUME PoolConstants == Pool!PoolAssumption
ASSUME CacheConstants == Cache!EphemeralAssumption
ASSUME PingConstants == Ping!KeepaliveAssumption
ASSUME LogConstants == Log!LogAssumption
ASSUME StartConstants == Daemons!StartAssumption

PartsInit ==
    /\ part \in {"login", "pool", "cache", "ping", "log", "start"}
    /\ ConsoleInit /\ Pool!Init /\ Cache!Init /\ Ping!Init /\ Log!Init
    /\ Daemons!Init /\ (part # "start" => db.applied = {})

PartsNext ==
    \/ /\ part = "login" /\ ConsoleNext
       /\ UNCHANGED <<part, poolVars, cacheVars, pingVars, logVars, startVars>>
    \/ /\ part = "pool" /\ Pool!Next
       /\ UNCHANGED <<part, loginVars, cacheVars, pingVars, logVars, startVars>>
    \/ /\ part = "cache" /\ Cache!Next
       /\ UNCHANGED <<part, loginVars, poolVars, pingVars, logVars, startVars>>
    \/ /\ part = "ping" /\ Ping!Next
       /\ UNCHANGED <<part, loginVars, poolVars, cacheVars, logVars, startVars>>
    \/ /\ part = "log" /\ Log!Next
       /\ UNCHANGED <<part, loginVars, poolVars, cacheVars, pingVars, startVars>>
    \/ /\ part = "start" /\ Daemons!Next
       /\ UNCHANGED <<part, loginVars, poolVars, cacheVars, pingVars, logVars>>

PartsSpec == PartsInit /\ [][PartsNext]_partVars

\* PoolUsage: a pool header says only what the upstream said of every account of the
\* route within the last minute and before any of their windows was reset.
HeaderTellsTruth == part = "pool" => Pool!HeaderTellsTruth

\* EphemeralModelCache: the slots are a cache (RecencyCache) in which the least recently
\* used listing goes first, nothing past its time is answered and nothing is lost without
\* need, also across the renumbering at the end of the range.
ImplementsRecencyCache ==
    /\ Cache!Recency!Init
    /\ [][part = "cache" => Cache!Recency!Next]_cacheVars

\* Keepalive: one process pings an account with success at most once for a date and slot,
\* however late a run is and also if the clock is put back.
OncePerSlot == part = "ping" => Ping!OncePerSlot

\* IOLog: the files are the newest written records, whole, in order and within bounds,
\* whichever file operations failed.
LogIsBoundedTail == part = "log" => Log!LogIsBoundedTail

\* DaemonStart: the schema is that of the recorded versions, and no process runs over an
\* older one than its own.
SchemaAsVersioned == part = "start" => Daemons!SchemaAsVersioned

\* DaemonStart: while no start crosses another start or stop, a daemon that accepts
\* management calls is alone and reached at the path.
ReachedAtPath == part = "start" => Daemons!ReachedAtPath
=============================================================================
