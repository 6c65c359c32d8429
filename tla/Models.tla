-------------------------------- MODULE Models ---------------------------------
(***************************************************************************)
(* The Models collection of crates/ri-llm-provider/src/models_runtime.rs   *)
(* for one provider: its stored credential (auth/credential_store.rs),     *)
(* which requests refresh under the provider's lock (auth/resolve.rs),     *)
(* login replaces and logout removes, and its dynamic catalog, which       *)
(* concurrent refreshes share one future to restore, fetch and persist.    *)
(*                                                                         *)
(* A step runs from one await to the next.  A call may be dropped at any   *)
(* await.  A token stands for an OAuth credential, a number for a version  *)
(* of the catalog.                                                         *)
(***************************************************************************)
EXTENDS Integers, FiniteSets, TLC

CONSTANTS
  Callers,       \* the tasks that hold a clone of Models
  Operations,    \* what they call
  NoCredential,  \* nothing is stored
  ApiKey,        \* the credential of an API key login
  Free,          \* the holder of a lock that is free
  MaxCalls,      \* bound: calls made in a behaviour
  MaxTokens      \* bound: tokens the provider issues

AllOperations == {"getAuth", "refresh", "login", "logout"}

ASSUME ModelsAssumption ==
  /\ Operations \subseteq AllOperations
  /\ Free \notin Callers
  /\ NoCredential # ApiKey
  /\ NoCredential \notin Nat
  /\ ApiKey \notin Nat
  /\ MaxCalls \in Nat
  /\ MaxTokens \in Nat \ {0}

VARIABLES
  stored,    \* the provider's entry in credentials
  lock,      \* who holds the provider's entry of locks
  inflight,  \* inflight_refresh: one of Futures, or 0 for None
  refreshes, \* [Futures -> shared refresh future], "free" when it is none
  catalog,   \* dynamic_models: a version, 0 before the first refresh
  disk,      \* the provider's entry in the models store: a version, 0 for None
  task,      \* [Callers -> what the caller's current call is doing]
  minted,    \* tokens the provider has issued
  lapsed,    \* the tokens that have expired
  version,   \* the newest version of the catalog at the provider
  rotated,   \* history: tokens whose successor has reached the store
  called     \* calls made so far

credentials == <<stored, lock, minted, lapsed, rotated>>
models == <<inflight, refreshes, catalog, disk, version>>
modelsVars == <<credentials, models, task, called>>

Tokens == 1 .. minted
IsOAuth(credential) == credential \in Tokens

\* The call of a caller: the operation, where it stands, its number, whether it
\* allows the network, its abort_flag, the credential it works with and the
\* shared refresh it awaits.
NoCall ==
  [op |-> "none", pc |-> "idle", id |-> 0, network |-> TRUE, aborted |-> FALSE,
   seen |-> NoCredential, awaited |-> 0]

At(c, label) == task[c].pc = label

\* A refresh of refresh_parts_models: the call whose context it got, whether
\* that allows the network, its abort_flag, where it stands, the version it has
\* published, and (history) the catalog it found.
RefreshOf(c) ==
  [id |-> task[c].id, network |-> task[c].network,
   aborted |-> task[c].aborted, at |-> "restore", published |-> 0,
   before |-> catalog]

\* Futures in memory: at most one per call that awaits it, and the slot's.
Futures == 1 .. Cardinality(Callers) + 1

\* A refresh that is done keeps its outcome only; "free" stands for no future.
Outcome(outcome) ==
  [id |-> 0, network |-> FALSE, aborted |-> FALSE, at |-> outcome,
   published |-> 0, before |-> 0]

Done(refresh) == refresh.at \in {"ok", "failed"}
Running(refresh) == refresh.at \in {"restore", "fetch", "write"}

ModelsInit ==
  /\ stored \in {NoCredential, ApiKey, 1}
  /\ lock = Free
  /\ inflight = 0
  /\ refreshes = [f \in Futures |-> Outcome("free")]
  /\ catalog = 0
  /\ disk \in {0, 1}
  /\ task = [c \in Callers |-> NoCall]
  /\ minted = 1
  /\ lapsed = {}
  /\ version = 1
  /\ rotated = {}
  /\ called = 0

-----------------------------------------------------------------------------
(* Calls                                                                   *)

Goto(c, label) == task' = [task EXCEPT ![c].pc = label]

Return(c) == task' = [task EXCEPT ![c] = NoCall]

\* The call holds a credential now.
Hold(c, label, credential) ==
  task' = [task EXCEPT ![c].pc = label, ![c].seen = credential]

FirstStep(o) ==
  CASE o = "login" -> "interact"
    [] o = "logout" -> "delete"
    [] OTHER -> "read"

Call(c, o) ==
  /\ At(c, "idle")
  /\ called < MaxCalls
  /\ called' = called + 1
  /\ \E allow \in (IF o = "refresh" THEN BOOLEAN ELSE {TRUE}) :
       task' = [task EXCEPT ![c] =
         [NoCall EXCEPT !.op = o, !.pc = FirstStep(o),
                        !.id = IF o = "refresh" THEN called + 1 ELSE 0,
                        !.network = allow]]
  /\ UNCHANGED <<credentials, models>>

\* The owner of a call sets the abort_flag it has passed, which a shared
\* refresh that the call has started holds as well.
Abort(c) ==
  /\ task[c].op \in {"refresh", "restore"}
  /\ task' = [task EXCEPT ![c].aborted = TRUE]
  /\ refreshes' = [f \in Futures |->
       IF refreshes[f].id = task[c].id /\ Running(refreshes[f])
       THEN [refreshes[f] EXCEPT !.aborted = TRUE] ELSE refreshes[f]]
  /\ UNCHANGED <<credentials, inflight, catalog, disk, version, called>>

\* A future that nobody awaits and the slot does not hold is gone.
Release(c, slot) ==
  LET f == task[c].awaited
  IN refreshes' =
       IF /\ f \notin {0, slot}
          /\ \A d \in Callers \ {c} : task[d].awaited # f
       THEN [refreshes EXCEPT ![f] = Outcome("free")] ELSE refreshes

\* The guard of the lock goes with the future that holds it.
LockAfterDrop(c) == IF lock = c THEN Free ELSE lock

Drop(c) ==
  /\ ~At(c, "idle")
  /\ Return(c)
  /\ lock' = LockAfterDrop(c)
  /\ Release(c, inflight)
  /\ UNCHANGED <<stored, minted, lapsed, rotated, inflight, catalog, disk,
                 version, called>>

TokenExpires ==
  /\ IsOAuth(stored)
  /\ lapsed' = lapsed \cup {stored}
  /\ UNCHANGED <<stored, lock, minted, rotated, models, task, called>>

-----------------------------------------------------------------------------
(* Credentials                                                             *)

\* What a call does once it has a credential: get_auth returns it, a refresh
\* of the catalog goes on with it.
Proceed(c) ==
  IF task[c].op = "refresh" THEN Hold(c, "join", NoCredential) ELSE Return(c)

\* resolve_provider_auth and resolve_refresh_credential: a credential that
\* need not be refreshed is used as read, without the lock.  No OAuth
\* credential: the API key is resolved, and a refresh without one is skipped.
UseAsRead(c) ==
  \/ /\ IsOAuth(stored)
     /\ stored \notin lapsed \/ ~task[c].network
     /\ Proceed(c)
  \/ /\ ~IsOAuth(stored)
     /\ Proceed(c) \/ Return(c)

LockToRefresh(c) ==
  /\ IsOAuth(stored)
  /\ stored \in lapsed
  /\ task[c].network
  /\ Hold(c, "lock", stored)

\* read_credential and the check of what it gave.
ReadCredential(c) ==
  /\ At(c, "read")
  /\ IF task[c].aborted THEN Return(c)
                             ELSE UseAsRead(c) \/ LockToRefresh(c)
  /\ UNCHANGED <<credentials, models, called>>

\* A mutation: the closure works on the credential that was read before the
\* lock was taken.
CurrentBeforeLock(c) == task[c].seen

\* What modify hands to its closure.
Current(c) == stored

\* modify, up to the request of the closure: logged out meanwhile, refreshed
\* by another request, or still expired.
LockCredential(c) ==
  /\ At(c, "lock")
  /\ lock = Free
  /\ \/ /\ ~IsOAuth(Current(c))
        /\ Return(c)
        /\ UNCHANGED lock
     \/ /\ IsOAuth(Current(c))
        /\ Current(c) \notin lapsed
        /\ Proceed(c)
        /\ UNCHANGED lock
     \/ /\ IsOAuth(Current(c))
        /\ Current(c) \in lapsed
        /\ Hold(c, "refresh", Current(c))
        /\ lock' = c
  /\ UNCHANGED <<stored, minted, lapsed, rotated, models, called>>

\* The provider answers with a new token, which replaces the old one before
\* the lock is released.
TokenRefreshed(c) ==
  /\ At(c, "refresh")
  /\ minted < MaxTokens
  /\ minted' = minted + 1
  /\ stored' = minted + 1
  /\ rotated' = rotated \cup {task[c].seen}
  /\ lock' = Free
  /\ Proceed(c)
  /\ UNCHANGED <<lapsed, models, called>>

\* The refresh fails: modify's `?` leaves the entry alone.
TokenRefused(c) ==
  /\ At(c, "refresh")
  /\ lock' = Free
  /\ Return(c)
  /\ UNCHANGED <<stored, minted, lapsed, rotated, models, called>>

\* login: the provider's own flow, then a modify that overwrites.
FinishLogin(c) ==
  /\ At(c, "interact")
  /\ \/ /\ minted < MaxTokens
        /\ minted' = minted + 1
        /\ Hold(c, "persist", minted + 1)
     \/ Hold(c, "persist", ApiKey) /\ UNCHANGED minted
     \/ Return(c) /\ UNCHANGED minted
  /\ UNCHANGED <<stored, lock, lapsed, rotated, models, called>>

PersistLogin(c) ==
  /\ At(c, "persist")
  /\ lock = Free
  /\ stored' = task[c].seen
  /\ Return(c)
  /\ UNCHANGED <<lock, minted, lapsed, rotated, models, called>>

\* A mutation: delete does not wait for the lock.
DeleteUnlocked(c) ==
  /\ At(c, "delete")
  /\ stored' = NoCredential
  /\ Return(c)
  /\ UNCHANGED <<lock, minted, lapsed, rotated, models, called>>

\* logout
Delete(c) ==
  /\ At(c, "delete")
  /\ lock = Free
  /\ stored' = NoCredential
  /\ Return(c)
  /\ UNCHANGED <<lock, minted, lapsed, rotated, models, called>>

-----------------------------------------------------------------------------
(* The catalog                                                             *)

\* refresh_models: join the refresh in flight, whatever its context, or start
\* one with the context of this call.
JoinRefresh(c) ==
  /\ At(c, "join")
  /\ \/ /\ inflight # 0
        /\ task' = [task EXCEPT ![c].pc = "await", ![c].awaited = inflight]
        /\ UNCHANGED <<inflight, refreshes>>
     \/ /\ inflight = 0
        /\ \E f \in Futures :
             /\ refreshes[f].at = "free"
             /\ \A g \in Futures : refreshes[g].at = "free" => f <= g
             /\ refreshes' = [refreshes EXCEPT ![f] = RefreshOf(c)]
             /\ inflight' = f
             /\ task' = [task EXCEPT ![c].pc = "await", ![c].awaited = f]
  /\ UNCHANGED <<credentials, catalog, disk, version, called>>

\* A shared future advances while some call that awaits it is polled.
Polled(f) == \E c \in Callers : At(c, "await") /\ task[c].awaited = f

Advance(f, to) == refreshes' = [refreshes EXCEPT ![f].at = to]

Finish(f, outcome) == refreshes' = [refreshes EXCEPT ![f] = Outcome(outcome)]

Offline(f) == ~refreshes[f].network \/ refreshes[f].aborted

\* The stored catalog, when the store answers with one, replaces the list.
RestoreCatalog(f) ==
  /\ refreshes[f].at = "restore"
  /\ Polled(f)
  /\ \/ disk # 0 /\ catalog' = disk
     \/ UNCHANGED catalog
  /\ IF Offline(f) THEN Finish(f, "ok") ELSE Advance(f, "fetch")
  /\ UNCHANGED <<credentials, inflight, disk, version, task, called>>

FetchFails(f) ==
  /\ refreshes[f].at = "fetch"
  /\ Polled(f)
  /\ Finish(f, "failed")
  /\ UNCHANGED <<credentials, inflight, catalog, disk, version, task, called>>

Replace(f) ==
  /\ catalog' = version + 1
  /\ refreshes' = [refreshes EXCEPT ![f].at = "write",
                                    ![f].published = version + 1]

\* A mutation: the list is replaced before the abort flag is looked at.
ReplaceThenCheck(f) ==
  \/ refreshes[f].aborted /\ Finish(f, "ok") /\ catalog' = version + 1
  \/ ~refreshes[f].aborted /\ Replace(f)

\* The fetched list replaces the list, unless the refresh was aborted.
Publish(f) ==
  \/ refreshes[f].aborted /\ Finish(f, "ok") /\ UNCHANGED catalog
  \/ ~refreshes[f].aborted /\ Replace(f)

FetchCatalog(f) ==
  /\ refreshes[f].at = "fetch"
  /\ Polled(f)
  /\ version' = version + 1
  /\ Publish(f)
  /\ UNCHANGED <<credentials, inflight, disk, task, called>>

WriteCatalog(f) ==
  /\ refreshes[f].at = "write"
  /\ Polled(f)
  /\ \/ disk' = refreshes[f].published /\ Finish(f, "ok")
     \/ UNCHANGED disk /\ Finish(f, "failed")
  /\ UNCHANGED <<credentials, inflight, catalog, version, task, called>>

\* A mutation: every waiter clears the slot, whatever it holds by then.
ClearsSlotAlways(c) == TRUE

\* Only the future that the call awaited is cleared.
ClearsSlot(c) == inflight = task[c].awaited

\* The call sees the outcome.  After an error Models::refresh restores the
\* stored catalog with a second, offline refresh_models, whose outcome it
\* ignores; op "restore" marks that one.
SettleRefresh(c) ==
  /\ At(c, "await")
  /\ Done(refreshes[task[c].awaited])
  /\ inflight' = IF ClearsSlot(c) THEN 0 ELSE inflight
  /\ Release(c, inflight')
  /\ IF refreshes[task[c].awaited].at = "failed" /\ task[c].op = "refresh"
     THEN task' = [task EXCEPT ![c].pc = "join", ![c].op = "restore",
                               ![c].network = FALSE, ![c].awaited = 0]
     ELSE Return(c)
  /\ UNCHANGED <<credentials, catalog, disk, version, called>>

-----------------------------------------------------------------------------

Steps(c) ==
  \/ ReadCredential(c)
  \/ LockCredential(c)
  \/ TokenRefreshed(c)
  \/ TokenRefused(c)
  \/ FinishLogin(c)
  \/ PersistLogin(c)
  \/ Delete(c)
  \/ JoinRefresh(c)
  \/ SettleRefresh(c)

Shared(f) ==
  \/ RestoreCatalog(f)
  \/ FetchCatalog(f)
  \/ FetchFails(f)
  \/ WriteCatalog(f)

ModelsNext ==
  \/ TokenExpires
  \/ \E c \in Callers, o \in Operations : Call(c, o)
  \/ \E c \in Callers : Steps(c) \/ Abort(c) \/ Drop(c)
  \/ \E f \in Futures : Shared(f)

ModelsSpec == ModelsInit /\ [][ModelsNext]_modelsVars

-----------------------------------------------------------------------------
(* Properties                                                              *)

Pcs == {"idle", "read", "lock", "refresh", "interact", "persist", "delete",
        "join", "await"}

Credentials == {NoCredential, ApiKey} \cup Tokens

Versions == 0 .. version

CallStates ==
  [op : AllOperations \cup {"none", "restore"}, pc : Pcs, id : 0 .. called,
   network : BOOLEAN, aborted : BOOLEAN, seen : Credentials,
   awaited : Futures \cup {0}]

RefreshRecords ==
  [id : 0 .. called, network : BOOLEAN, aborted : BOOLEAN,
   at : {"restore", "fetch", "write", "ok", "failed", "free"},
   published : Versions, before : Versions]

\* Every variable keeps its type, and a call awaits a refresh that exists.
TypeOK ==
  /\ stored \in Credentials
  /\ lock \in Callers \cup {Free}
  /\ refreshes \in [Futures -> RefreshRecords]
  /\ inflight \in Futures \cup {0}
  /\ catalog \in Versions
  /\ disk \in Versions
  /\ task \in [Callers -> CallStates]
  /\ \A c \in Callers : At(c, "await") => task[c].awaited # 0
  /\ minted \in 1 .. MaxTokens
  /\ lapsed \subseteq Tokens
  /\ version \in Nat \ {0}
  /\ rotated \subseteq Tokens
  /\ called \in 0 .. MaxCalls

\* "concurrent requests cannot double-refresh a rotated token"
\* (auth/credential_store.rs:17): one request presents a token at a time, and
\* none that has been replaced in the store.
NoDoubleRefresh ==
  \A c \in Callers : At(c, "refresh") =>
    /\ task[c].seen \notin rotated
    /\ \A d \in Callers : At(d, "refresh") => d = c

\* The lock is free unless a request for a new token is under way: no error and
\* no dropped call leaves it held, with every later request waiting.
LockIsFreed ==
  /\ lock # Free => At(lock, "refresh")
  /\ \A c \in Callers : At(c, "refresh") => lock = c

\* A logout stays: whatever requests were refreshing the credential when it
\* was removed, only a login puts one back.
OnlyLoginsStore ==
  [][stored = NoCredential /\ stored' # NoCredential
       => \E c \in Callers : At(c, "persist") /\ task'[c] = NoCall]_modelsVars

\* "Concurrent refreshes share one in-flight future" (models_runtime.rs:238):
\* no two unfinished refreshes of the provider's catalog.
OneRefresh ==
  \A f, g \in Futures : Running(refreshes[f]) /\ Running(refreshes[g]) => f = g

\* A refresh that ends well leaves the list it found or the stored one: a
\* fetched list is shown to nobody unless it is also saved.
CatalogSaved ==
  [][\A f \in Futures :
       Running(refreshes[f]) /\ refreshes'[f].at = "ok"
         => catalog' \in {refreshes[f].before, disk'}]_modelsVars

\* "Implementations must retain their previous list on failure"
\* (models_runtime.rs:130): a refresh that fails leaves the list it found, or
\* the stored one.
ListRetained ==
  [][\A f \in Futures :
       Running(refreshes[f]) /\ refreshes'[f].at = "failed"
         => catalog' \in {refreshes[f].before, disk}]_modelsVars
-----------------------------------------------------------------------------
\* The callers are interchangeable.
Interchangeable == Permutations(Callers)
=============================================================================
