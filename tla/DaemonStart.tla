----------------------------- MODULE DaemonStart -----------------------------
(* Starts and stops of `ilonasin serve` over one home: a process migrates the *)
(* database in one transaction, takes over the path of the management socket, *)
(* and listens on the public port. Each step of PrepareUnixListener is one    *)
(* system call, so two processes interleave between them. Releases of the     *)
(* program differ in how many of the migrations they know.                    *)
EXTENDS Naturals, FiniteSets, Sequences

CONSTANTS
    Processes,      \* processes that may run at the same time
    Releases,       \* the newest migration each release of the program knows
    Inodes,         \* inode numbers of socket files, given out again when free
    None

\* What is assumed of the constants.
StartAssumption ==
    /\ Releases \subseteq 1..16
    /\ Cardinality(Inodes) > Cardinality(Processes)     \* so that one is always free
    /\ None \notin Processes /\ None \notin Inodes

-----------------------------------------------------------------------------
(* Migrations. A schema is a set of <<table, column>>; columns that no        *)
(* migration touches are the table's "id".                                    *)

Create(t, cs)          == [do |-> "create", table |-> t, columns |-> cs]
AddIfMissing(t, cs)    == [do |-> "add", table |-> t, columns |-> cs]
DropTable(t)           == [do |-> "drop", table |-> t]
RenameTable(t, u)      == [do |-> "rename table", table |-> t, to |-> u]
RenameColumn(t, c, d)  == [do |-> "rename column", table |-> t, from |-> c, to |-> d]

Columns(t, cs) == {<<t, c>> : c \in cs \cup {"id"}}
TableOf(s, t)  == {x \in s : x[1] = t}

\* What a step makes of a schema, or Failed.
Failed == {<<"", "">>}
Ran(s, step) ==
    LET t   == step.table
        old == TableOf(s, t)
    IN  CASE s = Failed -> Failed
          [] s # Failed /\ step.do = "create" ->
               IF old = {} THEN s \cup Columns(t, step.columns) ELSE s
          [] s # Failed /\ step.do = "add" ->
               IF old = {} THEN Failed ELSE s \cup Columns(t, step.columns)
          [] s # Failed /\ step.do = "drop" -> s \ old
          [] s # Failed /\ step.do = "rename table" ->
               IF old = {} \/ TableOf(s, step.to) # {} THEN Failed
               ELSE (s \ old) \cup {<<step.to, x[2]>> : x \in old}
          [] s # Failed /\ step.do = "rename column" ->
               IF <<t, step.from>> \in s /\ <<t, step.to>> \notin s
               THEN (s \ {<<t, step.from>>}) \cup {<<t, step.to>>}
               ELSE IF <<t, step.from>> \notin s /\ <<t, step.to>> \in s THEN s ELSE Failed

\* The base schema as it stands now; an old database may lack the column that
\* migration 6 adds.
Migration1 == <<
    Create("provider_credentials", {}), Create("oauth_tokens", {"failure_description"}),
    Create("model_cache", {}), Create("request_metadata", {}),
    Create("fallback_events", {"allowed_by_policy"}) >>

Policies == "credential_fallback_policies"
Usage    == "subscription_usage_snapshots"

Migrations == <<
    Migration1,
    << AddIfMissing("provider_credentials", {"secret_prefix", "secret_last4"}) >>,
    << AddIfMissing("provider_credentials", {"fallback_group"}), Create(Policies, {}) >>,
    << Create("policies_new", {"credential_kind"}), DropTable(Policies),
       RenameTable("policies_new", Policies) >>,
    << Create("quota_events", {}) >>,
    << AddIfMissing("oauth_tokens", {"failure_description"}) >>,
    << AddIfMissing("request_metadata", {"safe_metadata"}) >>,
    << Create(Usage, {}) >>,
    << AddIfMissing("model_cache", {"tiers", "modalities"}) >>,
    << DropTable(Policies) >>,
    << Create("fallback_events_new", {}), DropTable("fallback_events"),
       RenameTable("fallback_events_new", "fallback_events") >>,
    << RenameColumn("provider_credentials", "fallback_group", "pool_group") >>,
    << AddIfMissing(Usage, {"banked_resets"}) >>,
    << AddIfMissing("model_cache", {"context_window", "reasoning_levels"}) >>,
    << AddIfMissing("oauth_tokens", {"failure_count", "retry_after"}) >>,
    << Create("idx_quota_events_active_latest", {}) >> >>

\* A migration runs its steps in their order.
Applied(s, v) ==
    LET ran[i \in 0..Len(Migrations[v])] ==
            IF i = 0 THEN s ELSE Ran(ran[i - 1], Migrations[v][i])
    IN  ran[Len(Migrations[v])]

\* The loop over the migrations: those that are in done are passed over.
Passed(s, done, v)  == IF v \in done THEN s ELSE Applied(s, v)
Schemas(s, done)    ==
    LET after[v \in 0..16] == IF v = 0 THEN s ELSE Passed(after[v - 1], done, v)
    IN  after
Migrated(s, done, r) == Schemas(s, done)[r]

\* The schema of an installation that is always of release k.
SchemaOf == [k \in 0..16 |-> Migrated({}, {}, k)]

-----------------------------------------------------------------------------
VARIABLES
    db,         \* the committed database: versions applied and schema
    view,       \* what a migrating process has read of it, or None
    release,    \* the release each process runs
    stage,      \* how far it has come
    path,       \* the inode at the socket's path, or None
    seen,       \* the inode a starting process found there
    socket,     \* the inode of the socket it has open
    owner,      \* SocketOwner.info: the inode it believes is its own
    port,       \* the process that listens on the public address, or None
    crossed     \* two processes were starting or stopping at the same time, or a start
                \* was interrupted

sockets == <<path, seen, socket, owner, port>>
vars    == <<db, view, release, stage, sockets, crossed>>

Goto(p, s) == stage' = [stage EXCEPT ![p] = s]
Forget(p)  == seen' = [seen EXCEPT ![p] = None]
At(p, s)   == stage[p] = s

Up        == {"listening", "up", "serving", "closing"}      \* accept connections
Listening(i) == \E p \in Processes : stage[p] \in Up /\ socket[p] = i
Touching  == {"opened", "found", "refused", "same", "clear", "bound", "listening", "up",
              "closing", "draining"}
\* p begins to start or to stop while another is at it.
Crosses(p) == crossed' = (crossed \/ \E q \in Processes \ {p} : stage[q] \in Touching)

-----------------------------------------------------------------------------
(* sqlite.Open *)

\* A transaction reads its snapshot at the first statement, which in an empty
\* database already writes and so waits for another writer.
Begin(p, r) ==
    /\ At(p, "down")
    /\ db.applied = {} => \A q \in Processes : view[q] = None
    /\ Goto(p, "migrating")
    /\ release' = [release EXCEPT ![p] = r]
    /\ view' = [view EXCEPT ![p] = db]
    /\ UNCHANGED <<db, sockets, crossed>>

\* Mutant: a write over a snapshot that another process has outdated goes through.
ConflictsNever(p) == FALSE
\* The first write fails if another process has committed since the snapshot.
Conflicts(p) == view[p] # db

\* rejectNewerMigrationVersion, the missing migrations in order, and the commit.
Migrate(p) ==
    LET r    == release[p]
        v    == view[p]
        next == Migrated(v.schema, v.applied, r)
    IN  /\ At(p, "migrating")
        /\ view' = [view EXCEPT ![p] = None]
        /\ \/ /\ (v.applied \ 1..r # {}) \/ next = Failed
                   \/ (1..r \ v.applied # {} /\ Conflicts(p))
              /\ Goto(p, "down")
              /\ UNCHANGED <<db, crossed>>
           \/ /\ v.applied \ 1..r = {} /\ next # Failed
              /\ 1..r \subseteq v.applied \/ ~Conflicts(p)
              /\ db' = IF 1..r \subseteq v.applied THEN db
                       ELSE [applied |-> 1..r, schema |-> next]
              /\ Goto(p, "opened")
              /\ Crosses(p)
        /\ UNCHANGED <<release, sockets>>

-----------------------------------------------------------------------------
(* PrepareUnixListener *)

Look(p) ==
    /\ At(p, "opened")
    /\ seen' = [seen EXCEPT ![p] = path]
    /\ Goto(p, IF path = None THEN "clear" ELSE "found")
    /\ UNCHANGED <<db, view, release, path, socket, owner, port, crossed>>

\* Mutant: nobody asks whether the socket answers.
AnswersNever(i) == FALSE
Answers(i) == Listening(i)

\* socketAccepts: a connection that succeeds means a daemon is running.
Probe(p) ==
    /\ At(p, "found")
    /\ \/ path # None /\ Answers(path) /\ Goto(p, "down") /\ Forget(p)
       \/ ~(path # None /\ Answers(path)) /\ Goto(p, "refused") /\ UNCHANGED seen
    /\ UNCHANGED <<db, view, release, path, socket, owner, port, crossed>>

\* The dialer is given the context that SIGTERM and SIGINT end: once this process is
\* asked to stop, no socket accepts its connection.
ProbeInterrupted(p) ==
    /\ At(p, "found")
    /\ Goto(p, "refused")
    /\ crossed' = TRUE
    /\ UNCHANGED <<db, view, release, sockets>>

Compare(p) ==
    /\ At(p, "refused")
    /\ Goto(p, IF path = seen[p] THEN "same" ELSE "down")
    /\ Forget(p)
    /\ UNCHANGED <<db, view, release, path, socket, owner, port, crossed>>

RemoveStale(p) ==
    /\ At(p, "same")
    /\ path' = None
    /\ Goto(p, IF path = None THEN "down" ELSE "clear")
    /\ UNCHANGED <<db, view, release, seen, socket, owner, port, crossed>>

\* The kernel keeps the inode of an open socket even when its file is gone.
Free(i) == i # path /\ \A q \in Processes : socket[q] # i

Bind(p) ==
    /\ At(p, "clear")
    /\ \/ /\ path = None
          /\ \E i \in Inodes :
               /\ Free(i)
               /\ path' = i
               /\ socket' = [socket EXCEPT ![p] = i]
          /\ Goto(p, "bound")
       \/ path # None /\ Goto(p, "down") /\ UNCHANGED <<path, socket>>
    /\ UNCHANGED <<db, view, release, seen, owner, port, crossed>>

Listen(p) ==
    /\ At(p, "bound")
    /\ Goto(p, "listening")
    /\ UNCHANGED <<db, view, release, sockets, crossed>>

\* Closing a listener removes whatever is at its path.
CloseSocket(p) == path' = None /\ socket' = [socket EXCEPT ![p] = None]

\* Chmod and Lstat by path: what is there now is taken for the own socket.
Own(p) ==
    /\ At(p, "listening")
    /\ \/ /\ path # None
          /\ owner' = [owner EXCEPT ![p] = path]
          /\ Goto(p, "up")
          /\ UNCHANGED <<path, socket>>
       \/ /\ path = None
          /\ CloseSocket(p)
          /\ Goto(p, "down")
          /\ UNCHANGED owner
    /\ UNCHANGED <<db, view, release, seen, port, crossed>>

-----------------------------------------------------------------------------
(* Serve *)

\* ListenAndServe fails if the address is taken, which ends the process in order.
OpenPort(p) ==
    /\ At(p, "up")
    /\ port' = IF port = None THEN p ELSE port
    /\ Goto(p, IF port = None THEN "serving" ELSE "closing")
    /\ UNCHANGED <<db, view, release, path, seen, socket, owner, crossed>>

Signal(p) ==
    /\ At(p, "serving")
    /\ Goto(p, "closing")
    /\ Crosses(p)
    /\ UNCHANGED <<db, view, release, sockets>>

\* Shutdown closes the listeners first and then waits for its connections.
Shutdown(p) ==
    /\ At(p, "closing")
    /\ CloseSocket(p)
    /\ port' = IF port = p THEN None ELSE port
    /\ Goto(p, "draining")
    /\ UNCHANGED <<db, view, release, seen, owner, crossed>>

CleanupSocket(p) ==
    /\ At(p, "draining")
    /\ path' = IF path = owner[p] THEN None ELSE path
    /\ owner' = [owner EXCEPT ![p] = None]
    /\ release' = [release EXCEPT ![p] = None]
    /\ Goto(p, "down")
    /\ UNCHANGED <<db, view, seen, socket, port, crossed>>

\* Killed, or failing where nothing is undone: the transaction rolls back, the kernel
\* closes what was open, and the file of the socket stays.
Crash(p) ==
    /\ ~At(p, "down")
    /\ Goto(p, "down")
    /\ view' = [view EXCEPT ![p] = None]
    /\ socket' = [socket EXCEPT ![p] = None]
    /\ owner' = [owner EXCEPT ![p] = None]
    /\ port' = IF port = p THEN None ELSE port
    /\ Forget(p)
    /\ release' = [release EXCEPT ![p] = None]
    /\ UNCHANGED <<db, path, crossed>>

-----------------------------------------------------------------------------
Empty == [applied |-> {}, schema |-> {}]
\* A database of the release of migration 5, before the base schema had its column.
Old == [applied |-> 1..5,
        schema |-> SchemaOf[5] \ {<<"oauth_tokens", "failure_description">>}]

Init ==
    /\ db \in {Empty, Old}
    /\ view = [p \in Processes |-> None]
    /\ release = [p \in Processes |-> None]
    /\ stage = [p \in Processes |-> "down"]
    /\ path = None /\ port = None /\ crossed = FALSE
    /\ seen = [p \in Processes |-> None]
    /\ socket = [p \in Processes |-> None]
    /\ owner = [p \in Processes |-> None]

Start(p) == Look(p) \/ Probe(p) \/ ProbeInterrupted(p) \/ Compare(p) \/ RemoveStale(p)
                \/ Bind(p) \/ Listen(p) \/ Own(p)
Serve(p) == OpenPort(p) \/ Signal(p) \/ Shutdown(p) \/ CleanupSocket(p) \/ Crash(p)

Next == \E p \in Processes :
          (\E r \in Releases : Begin(p, r)) \/ Migrate(p) \/ Start(p) \/ Serve(p)

Spec == Init /\ [][Next]_vars

-----------------------------------------------------------------------------
\* However releases of different age and processes that crash half-way take turns, the
\* database holds exactly the schema of the versions it records, and no process is past its
\* start over a schema older than its own release.
SchemaAsVersioned ==
    /\ \E k \in 0..16 :
         /\ db.applied = 1..k
         /\ db.schema = SchemaOf[k] \/ db = Old
    /\ \A p \in Processes :
         stage[p] \notin {"down", "migrating"} => 1..release[p] \subseteq db.applied

\* While starts and stops do not cross and none is interrupted, whatever crashes lie
\* between them, every daemon that accepts management calls is the one reached at the
\* path, and it is alone.
ReachedAtPath ==
    ~crossed => \A p \in Processes : stage[p] \in Up =>
        /\ path = socket[p]
        /\ \A q \in Processes : stage[q] \in Up => q = p

\* docs/plans/078-daemon-management-local-tokens.md:150: "a second daemon refuses to
\* unlink or replace a live socket". No start removes the file of a socket that a
\* running daemon accepts connections on.
LiveSocketKept ==
    [][\A p \in Processes : RemoveStale(p) => path = None \/ ~Listening(path)]_vars
=============================================================================
