---------------------------- MODULE ServerSettings ----------------------------
(***************************************************************************)
(* The settings of a running process: the config table and its cache       *)
(* (nzbdav-core config.rs), the requests that change the server list and   *)
(* the other settings and back the database up (nzbdav-app server_api.rs,  *)
(* settings_api.rs), the pools they rebuild, the semaphore that is sized   *)
(* from them, and the start of the process (main.rs).                      *)
(*                                                                         *)
(* A handler has no await, but handlers run on several threads: a request  *)
(* is one step up to where another may get in.  VACUUM INTO refuses a file *)
(* that exists; that is SQLite's, external.                                *)
(***************************************************************************)
EXTENDS Naturals, FiniteSets, Sequences, SequencesExt, Lists

CONSTANTS
    Requester,   \* clients with a request each
    ServerEntry,       \* server entries clients send: id, priority, enabled, connections
    Setting,     \* values of the other settings that clients send, a sequence of keys each
    Defaults,    \* their defaults
    MaxServers,  \* bound on the list
    MaxFaults    \* bound on failed writes and crashes

ASSUME SettingsAssumption ==
    /\ \A e \in ServerEntry :
         e \in [id : {e.id}, priority : Nat, enabled : BOOLEAN, connections : Nat]
    /\ MaxServers \in Nat /\ MaxFaults \in Nat

VARIABLES
    stored,    \* config_items: the server list and the other settings
    cached,    \* ConfigManager::cache
    pools,     \* UsenetArticleProvider::pools
    sized,     \* permits of the semaphore, 0 before its first use
    started,   \* main is past init_pools_from_config
    request,   \* per client, its request
    tempFile,  \* nzbdav_backup.db: a snapshot, or none
    disturbed, \* the last save of the list failed, or crossed another's rebuild
    faults     \* failed writes and crashes so far

settingsVars == <<stored, cached, pools, sized, started, request, tempFile, disturbed, faults>>

NoFile == [present |-> FALSE]
NoRequest == [step |-> "idle"]

-----------------------------------------------------------------------------
\* save_and_rebuild and init_pools_from_config sort the enabled servers by
\* priority, stably.
PoolsOf(servers) ==
    LET K == {k \in DOMAIN servers : servers[k].enabled}
    IN  Arranged(servers, K, Stably(K, [k \in K |-> servers[k].priority]))

ConnectionsOf(list) == FoldLeft(LAMBDA sum, e : sum + e.connections, 0, list)

\* retain: all but those of an id; two servers may have the same.
WithoutId(list, id) == Selected(list, {k \in DOMAIN list : list[k].id # id})

\* find: the first of an id is overwritten and keeps its id.
Updated(list, id, e) ==
    LET k == CHOOSE n \in DOMAIN list : list[n].id = id /\ \A j \in 1..(n - 1) : list[j].id # id
    IN  [list EXCEPT ![k] = [e EXCEPT !.id = id]]

EntryIds(list) == {list[k].id : k \in DOMAIN list}

Under(step) == {c \in Requester : request[c].step = step}

-----------------------------------------------------------------------------
(* POST, PUT and DELETE of a server.                                        *)

\* load_servers and the change; an id that is not there is refused.
LoadAndChange(c, list) ==
    /\ started /\ request[c] = NoRequest
    /\ request' = [request EXCEPT ![c] = [step |-> "save", servers |-> list]]
    /\ UNCHANGED <<stored, cached, pools, sized, started, tempFile, disturbed, faults>>

\* Clients leave the id of a new server to add_server, which makes one up.
AddServer(c, e) ==
    /\ e.id \notin EntryIds(cached.servers)
    /\ Len(cached.servers) < MaxServers
    /\ LoadAndChange(c, Append(cached.servers, e))

DeleteServer(c, id) ==
    /\ id \in EntryIds(cached.servers)
    /\ LoadAndChange(c, WithoutId(cached.servers, id))

UpdateServer(c, id, e) ==
    /\ id \in EntryIds(cached.servers)
    /\ LoadAndChange(c, Updated(cached.servers, id, e))

\* Mutant of SaveServers: the table is left for the next start to miss.
SaveServersInCache(c) ==
    /\ request[c].step = "save"
    /\ cached' = [cached EXCEPT !.servers = request[c].servers]
    /\ disturbed' = (Under("replace") # {})
    /\ request' = [request EXCEPT ![c].step = "replace"]
    /\ UNCHANGED <<stored, pools, sized, started, tempFile, faults>>

\* ConfigManager::set under the lock of the connection: table, then cache.
SaveServers(c) ==
    /\ request[c].step = "save"
    /\ stored' = [stored EXCEPT !.servers = request[c].servers]
    /\ cached' = [cached EXCEPT !.servers = request[c].servers]
    /\ disturbed' = (Under("replace") # {})
    /\ request' = [request EXCEPT ![c].step = "replace"]
    /\ UNCHANGED <<pools, sized, started, tempFile, faults>>

\* The write fails: logged, and the pools are rebuilt all the same.
SaveServersFails(c) ==
    /\ request[c].step = "save" /\ faults < MaxFaults
    /\ faults' = faults + 1
    /\ disturbed' = TRUE
    /\ request' = [request EXCEPT ![c].step = "replace"]
    /\ UNCHANGED <<stored, cached, pools, sized, started, tempFile>>

\* replace_pools.
ReplacePools(c) ==
    /\ request[c].step = "replace"
    /\ pools' = PoolsOf(request[c].servers)
    /\ request' = [request EXCEPT ![c] = NoRequest]
    /\ UNCHANGED <<stored, cached, sized, started, tempFile, disturbed, faults>>

-----------------------------------------------------------------------------
(* PUT /api/settings: one key after the other under one lock, up to the     *)
(* first that fails.                                                        *)

UpdateSettings(c, values, written) ==
    LET now == [k \in DOMAIN stored.other |-> IF k <= written THEN values[k] ELSE stored.other[k]]
        failed == IF written < Len(values) THEN 1 ELSE 0
    IN  /\ started /\ request[c] = NoRequest
        /\ faults + failed <= MaxFaults
        /\ faults' = faults + failed
        /\ stored' = [stored EXCEPT !.other = now]
        /\ cached' = [cached EXCEPT !.other = now]
        /\ UNCHANGED <<pools, sized, started, request, tempFile, disturbed>>

-----------------------------------------------------------------------------
(* GET /api/backup.                                                         *)

\* The copy, under the lock of the connection.
CopyDatabase(c) ==
    /\ started /\ request[c] = NoRequest
    /\ request' = [request EXCEPT ![c] = [step |-> "vacuum", copy |-> stored]]
    /\ UNCHANGED <<stored, cached, pools, sized, started, tempFile, disturbed, faults>>

\* Mutant of VacuumInto: a file left behind is no obstacle.
VacuumOver(c) ==
    /\ request[c].step = "vacuum"
    /\ tempFile' = request[c].copy
    /\ request' = [request EXCEPT ![c].step = "read"]
    /\ UNCHANGED <<stored, cached, pools, sized, started, disturbed, faults>>

VacuumInto(c) ==
    /\ request[c].step = "vacuum"
    /\ IF tempFile = NoFile
       THEN /\ tempFile' = request[c].copy
            /\ request' = [request EXCEPT ![c].step = "read"]
       ELSE request' = [request EXCEPT ![c] = NoRequest] /\ UNCHANGED tempFile
    /\ UNCHANGED <<stored, cached, pools, sized, started, disturbed, faults>>

ReadBackup(c) ==
    /\ request[c].step = "read"
    /\ request' = [request EXCEPT ![c] =
           [step |-> "remove", copy |-> request[c].copy, data |-> tempFile]]
    /\ UNCHANGED <<stored, cached, pools, sized, started, tempFile, disturbed, faults>>

\* A read that fails leaves the file.
ReadBackupFails(c) ==
    /\ request[c].step = "read" /\ faults < MaxFaults
    /\ faults' = faults + 1
    /\ request' = [request EXCEPT ![c] = NoRequest]
    /\ UNCHANGED <<stored, cached, pools, sized, started, tempFile, disturbed>>

RemoveBackup(c) ==
    /\ request[c].step = "remove"
    /\ tempFile' = NoFile
    /\ request' = [request EXCEPT ![c] = NoRequest]
    /\ UNCHANGED <<stored, cached, pools, sized, started, disturbed, faults>>

-----------------------------------------------------------------------------
(* The process.                                                             *)

\* priority_semaphore: the first fetch of any task sizes it, also one of the
\* queue or the health check that main started before the pools.
FirstFetch ==
    /\ sized = 0
    /\ sized' = IF ConnectionsOf(pools) = 0 THEN 1 ELSE ConnectionsOf(pools)
    /\ UNCHANGED <<stored, cached, pools, started, request, tempFile, disturbed, faults>>

\* The process dies; the next one loads the table and starts its tasks.
Restart ==
    /\ faults < MaxFaults
    /\ faults' = faults + 1
    /\ cached' = stored
    /\ pools' = <<>>
    /\ sized' = 0
    /\ started' = FALSE
    /\ request' = [c \in Requester |-> NoRequest]
    /\ disturbed' = FALSE
    /\ UNCHANGED <<stored, tempFile>>

\* init_pools_from_config; an empty list leaves the provider without pools.
InitPools ==
    /\ ~started
    /\ started' = TRUE
    /\ pools' = IF cached.servers = <<>> THEN pools ELSE PoolsOf(cached.servers)
    /\ UNCHANGED <<stored, cached, sized, request, tempFile, disturbed, faults>>

SettingsInit ==
    /\ stored = [servers |-> <<>>, other |-> Defaults]
    /\ cached = stored
    /\ pools = <<>>
    /\ sized = 0
    /\ started = FALSE
    /\ request = [c \in Requester |-> NoRequest]
    /\ tempFile = NoFile
    /\ disturbed = FALSE
    /\ faults = 0

SettingsNext ==
    \/ \E c \in Requester :
        \/ \E e \in ServerEntry :
            \/ AddServer(c, e)
            \/ DeleteServer(c, e.id)
            \/ UpdateServer(c, e.id, e)
        \/ SaveServers(c) \/ SaveServersFails(c) \/ ReplacePools(c)
        \/ \E values \in Setting, written \in 0..Len(Defaults) : UpdateSettings(c, values, written)
        \/ CopyDatabase(c) \/ VacuumInto(c) \/ ReadBackup(c) \/ ReadBackupFails(c) \/ RemoveBackup(c)
    \/ FirstFetch \/ Restart \/ InitPools

SettingsSpec == SettingsInit /\ [][SettingsNext]_settingsVars

-----------------------------------------------------------------------------
(* Correctness.                                                             *)

(* Once no rebuild is pending the pools are the enabled servers of the list  *)
(* that the table holds, best priority first: after a restart, and after     *)
(* changes that were loaded together and undo each other.  A save that       *)
(* failed, or came between the save and the rebuild of another, leaves them  *)
(* apart, until the next one that does neither.  The cache is the table      *)
(* whatever happens.                                                         *)
PoolsFollowList ==
    /\ started => stored = cached
    /\ started /\ ~disturbed /\ Under("replace") = {} =>
        /\ \A k \in DOMAIN pools : pools[k].enabled
        /\ \A j, k \in DOMAIN pools : j < k => pools[j].priority <= pools[k].priority
        /\ \A e \in ServerEntry :
             Cardinality({k \in DOMAIN pools : pools[k] = e}) =
                IF e.enabled THEN Cardinality({k \in DOMAIN stored.servers : stored.servers[k] = e})
                             ELSE 0

(* A backup is the database as it was under the lock of its own request,    *)
(* although all requests write and read one file.                           *)
BackupIsOwn ==
    \A c \in Under("remove") : request[c].data = request[c].copy

(* "Shared priority semaphore sized to the current connection capacity."    *)
SizedToPools ==
    started /\ sized # 0 /\ Under("save") \union Under("replace") = {} =>
        sized = IF ConnectionsOf(pools) = 0 THEN 1 ELSE ConnectionsOf(pools)
=============================================================================
