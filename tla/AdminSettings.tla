---------------------------- MODULE AdminSettings ----------------------------
(***************************************************************************)
(* The admin service: apps/admin-service.  The system settings and a       *)
(* feature flag are read through Redis; the settings are dropped from it   *)
(* when one is written, the flag is written there too.  An API key and a   *)
(* webhook live in Postgres only.  What a row says is abstracted to how    *)
(* often it has been written.                                              *)
(***************************************************************************)
EXTENDS Calls, Sequences

CONSTANTS
    FlagKeys,
    MaxWrites, \* bound: the writes of the settings, and of the flag
    MaxEvents  \* bound: no webhook call starts after that many announcements

AdminAssumption == MayFail \in BOOLEAN /\ MaxWrites \in Nat /\ MaxEvents \in Nat /\ None \notin FlagKeys

VARIABLES
    settings,       \* system_settings
    cachedSettings, \* Redis admin:system_settings, or None
    flag,           \* the row of feature_flags, or None; bound: one at a time
    versions,       \* how many versions of the flag there have been
    cachedFlag,     \* Redis feature_flag:<key>, the version or None
    key,            \* the row of api_keys
    webhook,        \* the row of webhooks
    announced       \* vis.admin.*: the topic and what was written

vars == <<task, settings, cachedSettings, flag, versions, cachedFlag, key, webhook, announced>>

Topics == {"SETTING", "FLAG", "KEY", "WEBHOOK"}

\* seen: the version read or written; id and key: of the flag read, or given
Task == [at : {"readSettings", "fillSettings", "dropSettings", "createFlag", "updateFlag",
               "deleteFlag", "readFlag", "fillFlag", "putFlag", "dropFlag", "tell", "revoke",
               "remove", "dispatch"},
         topic : Topics, seen : Nat, id : Nat, key : FlagKeys \cup {None}]

Row == [id : Nat, key : FlagKeys, version : Nat]

TypeOK ==
    /\ task \in [Workers -> Task \cup {None}]
    /\ settings \in Nat /\ versions \in Nat
    /\ cachedSettings \in Nat \cup {None}
    /\ flag \in Row \cup {None}
    /\ cachedFlag \in [FlagKeys -> Nat \cup {None}]
    /\ key \in {"ABSENT", "VALID", "REVOKED"}
    /\ webhook \in {"ABSENT", "ACTIVE", "DELETED"}
    /\ announced \in Seq(Topics \X Nat)

Init ==
    /\ CallsInit
    /\ settings = 0 /\ cachedSettings = None
    /\ flag = None /\ versions = 0 /\ cachedFlag = [k \in FlagKeys |-> None]
    /\ key = "ABSENT" /\ webhook = "ABSENT"
    /\ announced = <<>>

Settings == <<settings, cachedSettings>>
Flag == <<flag, versions, cachedFlag>>
Integration == <<key, webhook>>

NewTask(at, topic, seen) ==
    [at |-> at, topic |-> topic, seen |-> seen, id |-> 0, key |-> None]
FlagTask(at, seen, id, k) ==
    [at |-> at, topic |-> "FLAG", seen |-> seen, id |-> id, key |-> k]
Start(w, t) == Begin(w, t) /\ UNCHANGED <<Settings, Flag, Integration, announced>>

Tell(w) ==
    /\ Running(w, "tell")
    /\ announced' = Append(announced, <<task[w].topic, task[w].seen>>)
    /\ Finish(w)
    /\ UNCHANGED <<Settings, Flag, Integration>>

-----------------------------------------------------------------------------
\* admin.service.ts

\* getSettings: Redis has no entry; the rows are read after that answer.
StartSettings(w) ==
    /\ cachedSettings = None
    /\ Start(w, NewTask("readSettings", "SETTING", 0))

ReadSettings(w) ==
    /\ Running(w, "readSettings")
    /\ task' = [task EXCEPT ![w] = NewTask("fillSettings", "SETTING", settings)]
    /\ UNCHANGED <<Settings, Flag, Integration, announced>>

FillSettings(w) ==
    /\ Running(w, "fillSettings")
    /\ cachedSettings' = task[w].seen
    /\ Finish(w)
    /\ UNCHANGED <<settings, Flag, Integration, announced>>

UpsertSetting(w) ==
    /\ settings < MaxWrites
    /\ Begin(w, NewTask("dropSettings", "SETTING", settings + 1))
    /\ settings' = settings + 1
    /\ UNCHANGED <<cachedSettings, Flag, Integration, announced>>

\* Mutant: the entry stays
Dropped_Not == cachedSettings
Dropped == None

DropSettings(w) ==
    /\ Running(w, "dropSettings")
    /\ cachedSettings' = Dropped
    /\ Continue(w, "tell")
    /\ UNCHANGED <<settings, Flag, Integration, announced>>

-----------------------------------------------------------------------------
\* feature-flag.service.ts

FlagExists == flag # None

\* isFeatureEnabled: Redis has no entry; the row is read after that answer.
StartEnabled(w, k) ==
    /\ cachedFlag[k] = None
    /\ Start(w, FlagTask("readFlag", 0, 0, k))

ReadFlag(w) ==
    /\ Running(w, "readFlag")
    /\ IF FlagExists /\ flag.key = task[w].key
       THEN task' = [task EXCEPT ![w] = FlagTask("fillFlag", flag.version, flag.id, flag.key)]
       ELSE Finish(w)
    /\ UNCHANGED <<Settings, Flag, Integration, announced>>

PutFlag(w) ==
    /\ Running(w, "fillFlag") \/ Running(w, "putFlag")
    /\ cachedFlag' = [cachedFlag EXCEPT ![task[w].key] = task[w].seen]
    /\ IF task[w].at = "putFlag" THEN Continue(w, "tell") ELSE Finish(w)
    /\ UNCHANGED <<Settings, flag, versions, Integration, announced>>

StartCreate(w, k) ==
    /\ ~FlagExists
    /\ versions < MaxWrites
    /\ Start(w, FlagTask("createFlag", 0, 0, k))

\* k: dto.key, None when it is not given
StartUpdate(w, k) ==
    /\ FlagExists
    /\ versions < MaxWrites
    /\ Start(w, FlagTask("updateFlag", 0, flag.id, k))

StartDelete(w) == FlagExists /\ Start(w, FlagTask("deleteFlag", 0, flag.id, flag.key))

\* What is written is put into Redis next, under the key it has now.
Write(w, row) ==
    /\ flag' = row
    /\ versions' = versions + 1
    /\ task' = [task EXCEPT ![w] = FlagTask("putFlag", row.version, row.id, row.key)]

Refused(w) == Finish(w) /\ UNCHANGED <<flag, versions>>

\* The key is unique: of two creates, one rejects.
CreateFlag(w) ==
    /\ Running(w, "createFlag")
    /\ IF FlagExists
       THEN Refused(w)
       ELSE Write(w, [id |-> versions + 1, key |-> task[w].key, version |-> versions + 1])
    /\ UNCHANGED <<Settings, cachedFlag, Integration, announced>>

\* The update, and the delete, of a row that is gone reject.
Found(w) == FlagExists /\ flag.id = task[w].id

UpdateFlag(w) ==
    /\ Running(w, "updateFlag")
    /\ IF Found(w)
       THEN Write(w, [flag EXCEPT !.version = versions + 1,
                                  !.key = IF task[w].key = None THEN @ ELSE task[w].key])
       ELSE Refused(w)
    /\ UNCHANGED <<Settings, cachedFlag, Integration, announced>>

DeleteFlag(w) ==
    /\ Running(w, "deleteFlag")
    /\ IF Found(w)
       THEN Continue(w, "dropFlag") /\ flag' = None /\ UNCHANGED versions
       ELSE Refused(w)
    /\ UNCHANGED <<Settings, cachedFlag, Integration, announced>>

DropFlag(w) ==
    /\ Running(w, "dropFlag")
    /\ cachedFlag' = [cachedFlag EXCEPT ![task[w].key] = None]
    /\ Finish(w)
    /\ UNCHANGED <<Settings, flag, versions, Integration, announced>>

-----------------------------------------------------------------------------
\* api-key.service.ts and webhook.engine.ts

CreateKey(w) ==
    /\ key = "ABSENT"
    /\ key' = "VALID"
    /\ Begin(w, NewTask("tell", "KEY", 1))
    /\ UNCHANGED <<Settings, Flag, webhook, announced>>

StartRevoke(w) == key # "ABSENT" /\ Start(w, NewTask("revoke", "KEY", 0))

RevokeKey(w) ==
    /\ Running(w, "revoke")
    /\ key' = "REVOKED"
    /\ Finish(w)
    /\ UNCHANGED <<Settings, Flag, webhook, announced>>

CreateWebhook ==
    /\ webhook = "ABSENT"
    /\ webhook' = "ACTIVE"
    /\ UNCHANGED <<task, Settings, Flag, key, announced>>

StartWebhook(w, at) ==
    /\ webhook = "ACTIVE"
    /\ Len(announced) < MaxEvents
    /\ Start(w, NewTask(at, "WEBHOOK", 1))

\* updateWebhook writes columns that nothing else reads.
RemoveWebhook(w) ==
    /\ Running(w, "remove")
    /\ webhook' = "DELETED"
    /\ Finish(w)
    /\ UNCHANGED <<Settings, Flag, key, announced>>

\* dispatchWebhookEvent tells of the webhooks findMany has found.
DispatchWebhook(w) ==
    /\ Running(w, "dispatch")
    /\ Continue(w, "tell")
    /\ UNCHANGED <<Settings, Flag, Integration, announced>>

-----------------------------------------------------------------------------
\* Both keys live for half an hour, or an hour.
ExpireSettings ==
    /\ cachedSettings # None
    /\ cachedSettings' = None
    /\ UNCHANGED <<task, settings, Flag, Integration, announced>>

ExpireFlag(k) ==
    /\ cachedFlag[k] # None
    /\ cachedFlag' = [cachedFlag EXCEPT ![k] = None]
    /\ UNCHANGED <<task, Settings, flag, versions, Integration, announced>>

Reject(w) == Abandon(w) /\ UNCHANGED <<Settings, Flag, Integration, announced>>

SettingCall(w) ==
    \/ StartSettings(w) \/ ReadSettings(w) \/ FillSettings(w)
    \/ UpsertSetting(w) \/ DropSettings(w) \/ Tell(w)

FlagCall(w) ==
    \/ \E k \in FlagKeys : StartEnabled(w, k) \/ StartCreate(w, k)
    \/ \E k \in FlagKeys \cup {None} : StartUpdate(w, k)
    \/ StartDelete(w)
    \/ ReadFlag(w) \/ PutFlag(w) \/ CreateFlag(w) \/ UpdateFlag(w) \/ DeleteFlag(w) \/ DropFlag(w)
    \/ Tell(w)

IntegrationCall(w) ==
    \/ CreateKey(w) \/ StartRevoke(w) \/ RevokeKey(w) \/ CreateWebhook
    \/ \E at \in {"remove", "dispatch"} : StartWebhook(w, at)
    \/ RemoveWebhook(w) \/ DispatchWebhook(w) \/ Tell(w)

Expire == ExpireSettings \/ \E k \in FlagKeys : ExpireFlag(k)

Next ==
    \/ \E w \in Workers :
          SettingCall(w) \/ FlagCall(w) \/ IntegrationCall(w) \/ Reject(w)
    \/ Expire

Spec == Init /\ [][Next]_vars
-----------------------------------------------------------------------------
\* However calls overlap and fail: what is announced has been written, also what is
\* gone by now, and Redis holds versions that there have been.
WrittenIsGrounded ==
    /\ \A i \in DOMAIN announced :
          /\ announced[i][1] = "SETTING" => announced[i][2] <= settings
          /\ announced[i][1] = "FLAG" => announced[i][2] <= versions
          /\ announced[i][1] = "KEY" => key # "ABSENT"
          /\ announced[i][1] = "WEBHOOK" => webhook # "ABSENT"
    /\ cachedSettings # None => cachedSettings <= settings
    /\ \A k \in FlagKeys : cachedFlag[k] # None => cachedFlag[k] <= versions

\* Calls that neither overlap nor fail: Redis is not behind Postgres, except under
\* a key that the flag no longer has (the update of a flag's key leaves the old
\* entry until it expires).
CacheIsCurrent ==
    Quiet =>
        /\ cachedSettings # None => cachedSettings = settings
        /\ FlagExists /\ cachedFlag[flag.key] # None => cachedFlag[flag.key] = flag.version
=============================================================================
