----------------------------- MODULE CredentialFile ----------------------------
(***************************************************************************)
(* The file of credentials that the command line and the applications      *)
(* share (crates/ri-llm-provider/src/oauth_auth_storage.rs and the end of  *)
(* a login in cli.rs). Who changes one entry reads the file, changes its   *)
(* copy and writes the whole copy back, in two steps: the file is emptied, *)
(* then written. Nothing locks it, and a resolution waits for the provider *)
(* between reading and writing.                                            *)
(*                                                                         *)
(* The tokens of a provider are numbered in the order it issued them.      *)
(***************************************************************************)
EXTENDS Naturals, FiniteSets

CONSTANTS
  Providers,    \* the providers with an entry in the file
  Stored,       \* those that have one from the start
  Rotating,     \* those whose refresh token is good for one refresh
  Apps,         \* applications that resolve keys from the file
  LoginTask,    \* the command line that logs in
  MaxIssued,    \* bound: tokens a provider issues
  MaxResolves,  \* bound: resolutions in a behaviour
  MaxFileFaults \* bound: deaths, failed writes and answers that are lost

ASSUME CredentialFileAssumption ==
  /\ IsFiniteSet(Providers) /\ IsFiniteSet(Apps) /\ LoginTask \notin Apps
  /\ Rotating \subseteq Providers /\ Stored \subseteq Providers
  /\ MaxIssued \in Nat /\ MaxResolves \in Nat /\ MaxFileFaults \in Nat

VARIABLES
  file,      \* [text, entries, version]: what is in the file
  tasks,     \* [Tasks -> what each is doing with it]
  issued,    \* [Providers -> tokens issued]
  expired,   \* [Providers -> tokens up to this one are past their expiry]
  spent,     \* the refresh tokens used up, <<provider, token>>
  acked,     \* [Providers -> the token last written with success]
  fileFaults,\* deaths, failed writes and lost answers so far
  resolves,  \* resolutions begun
  stale      \* a copy older than the file was written back, or a write was lost

fileVars ==
  <<file, tasks, issued, expired, spent, acked, fileFaults, resolves, stale>>

Tasks == Apps \cup {LoginTask}
NoToken == 0
NoEntries == [q \in Providers |-> NoToken]

Idle == [stage |-> "idle", provider |-> "none", storage |-> NoEntries, seen |-> 0]

FileInit ==
  /\ acked = [q \in Providers |-> IF q \in Stored THEN 1 ELSE NoToken]
  /\ file = [text |-> "whole", entries |-> acked, version |-> 0]
  /\ issued = [q \in Providers |-> 1]
  /\ expired = [q \in Providers |-> 0]
  /\ tasks = [t \in Tasks |-> Idle]
  /\ spent = {} /\ fileFaults = 0 /\ resolves = 0 /\ stale = FALSE

FileFault ==
  fileFaults < MaxFileFaults /\ fileFaults' = fileFaults + 1

-----------------------------------------------------------------------------

\* load_auth_storage_from_path: what is not the whole text of a storage is read
\* as an empty one.
Storage == IF file.text = "whole" THEN file.entries ELSE NoEntries

\* Mutation: the login's entry alone is saved.
SaveLoginAlone(q, token) ==
  tasks' = [tasks EXCEPT ![LoginTask] =
    [stage |-> "saving", provider |-> q, seen |-> file.version,
     storage |-> [NoEntries EXCEPT ![q] = token]]]

\* save_cli_oauth_credentials, with the token the login was granted.
SaveLogin(q, token) ==
  tasks' = [tasks EXCEPT ![LoginTask] =
    [stage |-> "saving", provider |-> q, seen |-> file.version,
     storage |-> [Storage EXCEPT ![q] = token]]]

Expired(q, token) == token <= expired[q]

\* resolve_auth_storage_api_key_from_path_with_refresher_at: no entry, or one
\* that has not expired, is the answer at once.
Resolve(t, q) ==
  /\ tasks[t].stage = "idle" /\ resolves < MaxResolves
  /\ resolves' = resolves + 1
  /\ tasks' = [tasks EXCEPT ![t] =
       IF Storage[q] # NoToken /\ Expired(q, Storage[q])
       THEN [stage |-> "refreshing", provider |-> q, storage |-> Storage,
             seen |-> file.version]
       ELSE Idle]
  /\ UNCHANGED <<file, issued, expired, spent, acked, fileFaults, stale>>

\* Whether the provider takes the refresh token of the copy.
Refreshable(t) ==
  LET q == tasks[t].provider
  IN /\ <<q, tasks[t].storage[q]>> \notin spent
     /\ issued[q] < MaxIssued

\* The provider issues a token, and takes back the refresh token it replaces.
Issue(q, used) ==
  /\ issued' = [issued EXCEPT ![q] = @ + 1]
  /\ spent' = IF q \in Rotating THEN spent \cup {<<q, used>>} ELSE spent

Refreshed(t) ==
  LET q == tasks[t].provider
  IN /\ tasks[t].stage = "refreshing" /\ Refreshable(t)
     /\ Issue(q, tasks[t].storage[q])
     /\ tasks' = [tasks EXCEPT ![t].stage = "saving",
                               ![t].storage[q] = issued[q] + 1]
     /\ UNCHANGED <<file, expired, acked, fileFaults, resolves, stale>>

\* The refresh is refused.
RefreshFails(t) ==
  /\ tasks[t].stage = "refreshing"
  /\ tasks' = [tasks EXCEPT ![t] = Idle]
  /\ UNCHANGED <<file, issued, expired, spent, acked, fileFaults, resolves, stale>>

\* The provider's answer is lost, or the entitlements that follow it fail.
RefreshLost(t) ==
  LET q == tasks[t].provider
  IN /\ tasks[t].stage = "refreshing" /\ Refreshable(t) /\ FileFault
     /\ Issue(q, tasks[t].storage[q])
     /\ tasks' = [tasks EXCEPT ![t] = Idle]
     /\ stale' = TRUE
     /\ UNCHANGED <<file, expired, acked, resolves>>

\* save_auth_storage_to_path: fs::write empties the file and then writes it. The
\* copy is stale when the file has changed since it was read.
Truncate(t) ==
  /\ tasks[t].stage = "saving"
  /\ file' = [text |-> "empty", entries |-> NoEntries, version |-> file.version + 1]
  /\ tasks' = [tasks EXCEPT ![t].stage = "writing", ![t].seen = file.version + 1]
  /\ stale' = (stale \/ tasks[t].seen # file.version)
  /\ UNCHANGED <<issued, expired, spent, acked, fileFaults, resolves>>

\* A storage written over another's bytes may leave the end of the longer one
\* behind it.
Write(t) ==
  LET q == tasks[t].provider
  IN /\ tasks[t].stage = "writing"
     /\ \E text \in {"whole"} \cup {"garbled" : u \in {file.text} \ {"empty"}} :
          file' = [text |-> text, entries |-> tasks[t].storage,
                   version |-> file.version + 1]
     /\ acked' = [acked EXCEPT ![q] = tasks[t].storage[q]]
     /\ tasks' = [tasks EXCEPT ![t] = Idle]
     /\ stale' = (stale \/ tasks[t].seen # file.version)
     /\ UNCHANGED <<issued, expired, spent, fileFaults, resolves>>

\* The directory or the file cannot be written, or the process dies: what it was
\* going to write is lost.
SaveFails(t) ==
  /\ tasks[t].stage \in {"saving", "writing"} /\ FileFault
  /\ tasks' = [tasks EXCEPT ![t] = Idle]
  /\ stale' = TRUE
  /\ UNCHANGED <<file, issued, expired, spent, acked, resolves>>

\* Time passes.
Expire(q) ==
  /\ expired[q] < issued[q]
  /\ expired' = [expired EXCEPT ![q] = issued[q]]
  /\ UNCHANGED <<file, tasks, issued, spent, acked, fileFaults, resolves, stale>>

FileNext ==
  \/ \E t \in Apps : (\E q \in Providers : Resolve(t, q))
                     \/ Refreshed(t) \/ RefreshFails(t) \/ RefreshLost(t)
  \/ \E t \in Tasks : Truncate(t) \/ Write(t) \/ SaveFails(t)
  \/ \E q \in Providers : Expire(q)
=============================================================================
