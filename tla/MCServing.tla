------------------------------ MODULE MCServing ------------------------------
(***************************************************************************)
(* What the server serves and how it is set up, side by side: file bodies, *)
(* the WebDAV tree, the patch store, the server list and settings, and the *)
(* health check.  They share no state; each behaviour is one of theirs.    *)
(***************************************************************************)
EXTENDS MCFileStreams, MCDavTree, MCPatchStore, MCServerSettings, HealthCheck

CONSTANTS c1, c2

VARIABLE part    \* whose behaviour this is

Symmetry == Permutations({c1, c2})

InBodies == part = "bodies" /\ UNCHANGED <<part, davVars, vars, settingsVars, healthVars>>
InTree == part = "tree" /\ UNCHANGED <<part, bodyVars, vars, settingsVars, healthVars>>
InPatches == part = "patches" /\ UNCHANGED <<part, bodyVars, davVars, settingsVars, healthVars>>
InSettings == part = "settings" /\ UNCHANGED <<part, bodyVars, davVars, vars, healthVars>>
InHealth == part = "health" /\ UNCHANGED <<part, bodyVars, davVars, vars, settingsVars>>

\* The other parts wait in one of their initial states.
ServingInit ==
    /\ part \in {"bodies", "tree", "patches", "settings", "health"}
    /\ BodyInit /\ DavInit /\ Init /\ SettingsInit /\ HealthInit
    /\ part # "bodies" => source = "plain" /\ header = <<>> /\ unreadable = {}
    /\ part # "patches" => \A other \in Budgets : budget <= other

\* The next-state relation of each part, action by action.
ServingNext ==
    \/ InBodies /\ ServeFull
    \/ InBodies /\ ServeRange
    \/ InBodies /\ RefuseRange
    \/ InBodies /\ FailToAlign
    \/ \E room \in Room : InBodies /\ Poll(room)
    \/ InBodies /\ FailBody
    \/ \E c \in Client :
        \/ \E u \in Upload : InTree /\ Receive(c, u)
        \/ InTree /\ Look(c)
        \/ InTree /\ Clear(c)
        \/ InTree /\ MkcolWrite(c)
        \/ InTree /\ PutWrite(c)
        \/ InTree /\ MoveWrite(c)
        \/ InTree /\ CopyWrite(c)
        \/ InTree /\ Delete(c)
    \/ \E r \in MountedRelease :
        \/ InTree /\ AddToQueue(r)
        \/ InTree /\ MountDirectory(r)
        \/ InTree /\ Mount(r)
        \/ InTree /\ HistoryDeleted(r)
    \/ \E o \in Op : InPatches /\ CallStep(o)
    \/ \E r \in Release : InPatches /\ Drop(r)
    \/ \E r \in Release : InPatches /\ Locate(r)
    \/ InPatches /\ Crash
    \/ InPatches /\ Open
    \/ \E c \in Requester :
        \/ \E e \in ServerEntry :
            \/ InSettings /\ AddServer(c, e)
            \/ InSettings /\ DeleteServer(c, e.id)
            \/ InSettings /\ UpdateServer(c, e.id, e)
        \/ InSettings /\ SaveServers(c)
        \/ InSettings /\ SaveServersFails(c)
        \/ InSettings /\ ReplacePools(c)
        \/ \E values \in Setting, written \in 0..Len(Defaults) :
              InSettings /\ UpdateSettings(c, values, written)
        \/ InSettings /\ CopyDatabase(c)
        \/ InSettings /\ VacuumInto(c)
        \/ InSettings /\ ReadBackup(c)
        \/ InSettings /\ ReadBackupFails(c)
        \/ InSettings /\ RemoveBackup(c)
    \/ InSettings /\ FirstFetch
    \/ InSettings /\ Restart
    \/ InSettings /\ InitPools
    \/ InHealth /\ StartCycle
    \/ InHealth /\ StartCycleUnread
    \/ InHealth /\ CheckItem
    \/ \E i \in LibraryItem :
        \/ InHealth /\ Mounts(i)
        \/ InHealth /\ Unmounts(i)
        \/ InHealth /\ \E o \in Outcomes(i) : Record(i, o)
        \/ InHealth /\ \E o \in Outcomes(i) : RecordUndated(i, o)

ServingVars == <<part, bodyVars, davVars, vars, settingsVars, healthVars>>

ServingSpec == ServingInit /\ [][ServingNext]_ServingVars
=============================================================================
