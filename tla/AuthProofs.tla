------------------------------- MODULE AuthProofs ------------------------------
(***************************************************************************)
(* What keeps the credentials right, for every number of callers and       *)
(* applications: the provider behind Models and the logins beside the      *)
(* shared file.                                                            *)
(*                                                                         *)
(* Models: a token is presented once because the lock's holder works on    *)
(* the stored token, and because the tokens that can still enter the store *)
(* (those of finished logins) have never been there: CredentialInv.  One   *)
(* refresh of the catalog runs because the slot holds every one that does  *)
(* (RunningInSlot), and nobody else changes the list meanwhile (ListInv).  *)
(*                                                                         *)
(* Login: for every set of providers, intervals, lifetimes, requests and   *)
(* answers, whose code is exchanged (Whose), how far apart the polls are   *)
(* (Spaced), and what of the shared file can be lost (Kept).               *)
(***************************************************************************)
EXTENDS Models, Login, TLAPS

\* The holder of the lock is the one request for a new token, and it works on
\* the stored token.
HolderInv ==
  /\ LockIsFreed
  /\ \A c \in Callers :
       At(c, "refresh") => task[c].seen = stored /\ IsOAuth(stored)

\* A login brings a token that is nowhere else.
NewToken(c) == At(c, "persist") /\ task[c].seen # ApiKey

LoginInv ==
  \A c \in Callers : NewToken(c) =>
    /\ task[c].seen \in Tokens
    /\ task[c].seen # stored
    /\ task[c].seen \notin rotated
    /\ \A d \in Callers : NewToken(d) /\ task[d].seen = task[c].seen => d = c

CredentialInv == HolderInv /\ LoginInv /\ stored \notin rotated

RunningInSlot == \A f \in Futures : Running(refreshes[f]) => inflight = f

\* What the list holds while a refresh is at work, which nobody else changes.
ListInv ==
  \A f \in Futures :
    /\ refreshes[f].at = "restore" => catalog = refreshes[f].before
    /\ refreshes[f].at = "fetch" => catalog \in {refreshes[f].before, disk}
    /\ refreshes[f].at = "write" => catalog = refreshes[f].published

-----------------------------------------------------------------------------
(* Types                                                                   *)

\* Types only grow: what is a credential, a version or a call stays one.
LEMMA TypesGrow ==
  ASSUME minted \in Nat, minted' \in Nat, minted <= minted',
         version \in Nat, version' \in Nat, version <= version',
         called \in Nat, called' \in Nat, called <= called'
  PROVE  /\ Tokens \subseteq Tokens'
         /\ Credentials \subseteq Credentials'
         /\ Versions \subseteq Versions'
         /\ CallStates \subseteq CallStates'
         /\ RefreshRecords \subseteq RefreshRecords'
<1>1. /\ 1 .. minted \subseteq 1 .. minted'
      /\ 0 .. version \subseteq 0 .. version'
      /\ 0 .. called \subseteq 0 .. called'
  OBVIOUS
<1>2. /\ Tokens \subseteq Tokens'
      /\ Credentials \subseteq Credentials'
      /\ Versions \subseteq Versions'
  BY <1>1 DEF Tokens, Credentials, Versions
<1>3. CallStates \subseteq CallStates'
  BY <1>1, <1>2 DEF CallStates
<1>4. RefreshRecords \subseteq RefreshRecords'
  BY <1>1, <1>2 DEF RefreshRecords
<1>. QED
  BY <1>2, <1>3, <1>4

LEMMA NoCallTyped == TypeOK => NoCall \in CallStates
BY DEF TypeOK, NoCall, CallStates, Pcs, Credentials

LEMMA TypeInit == ModelsInit => TypeOK
<1>. SUFFICES ASSUME ModelsInit PROVE TypeOK
  OBVIOUS
<1>1. minted = 1 /\ version = 1 /\ called = 0 /\ MaxTokens \in Nat \ {0}
  BY ModelsAssumption DEF ModelsInit
<1>2. stored \in Credentials
  BY <1>1 DEF ModelsInit, Credentials, Tokens
<1>3. NoCall \in CallStates
  BY <1>1 DEF NoCall, CallStates, Pcs, Credentials
<1>4. task \in [Callers -> CallStates] /\ \A c \in Callers : ~At(c, "await")
  BY <1>3 DEF ModelsInit, At, NoCall
<1>5. Outcome("free") \in RefreshRecords
  BY <1>1 DEF Outcome, RefreshRecords, Versions
<1>6. refreshes \in [Futures -> RefreshRecords]
  BY <1>5 DEF ModelsInit
<1>7. called \in 0 .. MaxCalls /\ minted \in 1 .. MaxTokens
  BY <1>1, ModelsAssumption
<1>. QED
  BY <1>1, <1>2, <1>4, <1>6, <1>7 DEF ModelsInit, TypeOK, Versions, Tokens

\* What the updates of a call leave of it.
LEMMA TaskUpdate ==
  ASSUME task \in [Callers -> CallStates], CallStates \subseteq CallStates', NoCall \in CallStates,
         NEW c \in Callers, NEW label \in Pcs, NEW credential \in Credentials',
         \/ Return(c)
         \/ Hold(c, label, credential) /\ label # "await"
  PROVE  /\ task' \in [Callers -> CallStates']
         /\ \A d \in Callers \ {c} : task'[d] = task[d]
         /\ task'[c].pc # "await"
         /\ task'[c].pc \in {"idle", label}
         /\ task'[c].pc # "idle" => task'[c].seen = credential
<1>1. CASE Return(c)
  BY <1>1 DEF Return, NoCall
<1>2. CASE Hold(c, label, credential) /\ label # "await"
  <2>. DEFINE t == [task[c] EXCEPT !.pc = label, !.seen = credential]
  <2>1. t \in CallStates' /\ t.pc = label /\ t.seen = credential
    <3>1. task[c] \in CallStates'
      OBVIOUS
    <3>. QED
      BY <3>1 DEF CallStates
  <2>2. task' = [task EXCEPT ![c] = t]
    BY <1>2 DEF Hold, CallStates
  <2>. HIDE DEF t
  <2>. QED
    BY <1>2, <2>1, <2>2
<1>. QED
  BY <1>1, <1>2

\* The waits that are left stay typed when one call moves.
LEMMA AwaitsKept ==
  ASSUME TypeOK, NEW c \in Callers,
         \A d \in Callers \ {c} : task'[d] = task[d],
         task'[c].pc = "await" => task'[c].awaited # 0
  PROVE  \A d \in Callers : At(d, "await")' => task'[d].awaited # 0
BY DEF TypeOK, At

\* A step of the credential part, which leaves the catalog alone.
CredentialStep(c) ==
  \/ ReadCredential(c)
  \/ LockCredential(c)
  \/ TokenRefreshed(c)
  \/ TokenRefused(c)
  \/ FinishLogin(c)
  \/ PersistLogin(c)
  \/ Delete(c)

LEMMA CredentialTypes ==
  ASSUME TypeOK, HolderInv, NEW c \in Callers, CredentialStep(c)
  PROVE  TypeOK'
<1>1. /\ task[c].seen \in Credentials
      /\ stored \in Credentials /\ NoCredential \in Credentials
      /\ ApiKey \in Credentials /\ lock \in Callers \cup {Free}
      /\ minted \in 1 .. MaxTokens /\ lapsed \subseteq Tokens
      /\ rotated \subseteq Tokens
  BY DEF TypeOK, CallStates, Credentials
<1>2. /\ UNCHANGED models /\ UNCHANGED called
      /\ minted' \in {minted, minted + 1} /\ minted' \in 1 .. MaxTokens
      /\ lock' \in Callers \cup {Free}
      /\ lapsed' = lapsed
  BY <1>1, ModelsAssumption
     DEF CredentialStep, ReadCredential, LockCredential, TokenRefreshed,
         TokenRefused, FinishLogin, PersistLogin, Delete, credentials
<1>3. /\ Credentials \subseteq Credentials' /\ Tokens \subseteq Tokens'
      /\ CallStates \subseteq CallStates' /\ RefreshRecords \subseteq RefreshRecords'
      /\ Versions \subseteq Versions'
  <2>1. /\ minted \in Nat /\ minted' \in Nat /\ minted <= minted'
        /\ version \in Nat /\ version' = version
        /\ called \in Nat /\ called' = called
    BY <1>1, <1>2 DEF TypeOK, models
  <2>. QED
    BY <2>1, TypesGrow
<1>4. /\ \/ Return(c)
         \/ \E label \in Pcs \ {"await"}, credential \in Credentials' :
              Hold(c, label, credential)
      /\ stored' \in Credentials'
      /\ rotated' \subseteq Tokens'
  <2>1. CASE ReadCredential(c)
    BY <1>1, <1>3, <2>1
       DEF ReadCredential, UseAsRead, LockToRefresh, Proceed, Pcs, credentials
  <2>2. CASE LockCredential(c)
    BY <1>1, <1>3, <2>2 DEF LockCredential, Current, Proceed, Pcs
  <2>3. CASE TokenRefreshed(c)
    <3>1. minted' = minted + 1 /\ minted' \in Tokens'
      BY <1>1, <2>3 DEF TokenRefreshed, Tokens
    <3>2. stored' \in Credentials'
      BY <2>3, <3>1 DEF TokenRefreshed, Credentials
    <3>3. Return(c) \/ Hold(c, "join", NoCredential)
      BY <2>3 DEF TokenRefreshed, Proceed
    <3>4. task[c].seen \in Tokens
      BY <2>3 DEF TokenRefreshed, HolderInv, IsOAuth
    <3>. QED
      BY <1>1, <1>3, <2>3, <3>2, <3>3, <3>4 DEF TokenRefreshed, Pcs
  <2>4. CASE TokenRefused(c)
    BY <1>1, <1>3, <2>4 DEF TokenRefused
  <2>5. CASE FinishLogin(c)
    <3>1. \/ Return(c)
          \/ Hold(c, "persist", ApiKey)
          \/ minted' = minted + 1 /\ Hold(c, "persist", minted + 1)
      BY <2>5 DEF FinishLogin
    <3>2. minted' = minted + 1 => minted + 1 \in Credentials'
      BY <1>1 DEF Credentials, Tokens
    <3>. QED
      BY <1>1, <1>3, <2>5, <3>1, <3>2 DEF FinishLogin, Pcs
  <2>6. CASE PersistLogin(c)
    BY <1>1, <1>3, <2>6 DEF PersistLogin
  <2>7. CASE Delete(c)
    BY <1>1, <1>3, <2>7 DEF Delete
  <2>. QED
    BY <2>1, <2>2, <2>3, <2>4, <2>5, <2>6, <2>7 DEF CredentialStep
<1>5. /\ task' \in [Callers -> CallStates']
      /\ \A d \in Callers \ {c} : task'[d] = task[d]
      /\ task'[c].pc # "await"
  <2>1. task \in [Callers -> CallStates] /\ NoCall \in CallStates
    BY NoCallTyped DEF TypeOK
  <2>2. "idle" \in Pcs /\ NoCredential \in Credentials'
    BY DEF Pcs, Credentials
  <2>. QED
    BY <1>3, <1>4, <2>1, <2>2, TaskUpdate
<1>6. \A d \in Callers : At(d, "await")' => task'[d].awaited # 0
  BY <1>5, AwaitsKept
<1>7. lapsed' \subseteq Tokens'
  BY <1>1, <1>2, <1>3
<1>8. /\ refreshes' \in [Futures -> RefreshRecords']
      /\ inflight' \in Futures \cup {0}
      /\ catalog' \in Versions' /\ disk' \in Versions'
      /\ version' \in Nat \ {0} /\ called' \in 0 .. MaxCalls
  BY <1>2, <1>3 DEF TypeOK, models
<1>. QED
  BY <1>2, <1>4, <1>5, <1>6, <1>7, <1>8 DEF TypeOK

\* A shared future at work leaves the calls and the credentials alone.
LEMMA SharedTypes ==
  ASSUME TypeOK, NEW f \in Futures, Shared(f)
  PROVE  TypeOK'
<1>1. /\ refreshes \in [Futures -> RefreshRecords] /\ version \in Nat \ {0}
      /\ catalog \in Versions /\ disk \in Versions
      /\ refreshes[f] \in RefreshRecords
      /\ refreshes[f].published \in Versions
  BY DEF TypeOK, RefreshRecords
<1>2. /\ UNCHANGED credentials /\ UNCHANGED <<inflight, task, called>>
      /\ version' \in {version, version + 1}
  BY DEF Shared, RestoreCatalog, FetchFails, FetchCatalog, WriteCatalog
<1>3. /\ Credentials \subseteq Credentials' /\ Tokens \subseteq Tokens'
      /\ CallStates \subseteq CallStates' /\ RefreshRecords \subseteq RefreshRecords'
      /\ Versions \subseteq Versions'
  <2>1. /\ minted \in Nat /\ minted' = minted
        /\ version \in Nat /\ version' \in Nat /\ version <= version'
        /\ called \in Nat /\ called' = called
    BY <1>1, <1>2 DEF TypeOK, credentials
  <2>. QED
    BY <2>1, TypesGrow
<1>4. /\ Outcome("ok") \in RefreshRecords
      /\ Outcome("failed") \in RefreshRecords
      /\ [refreshes[f] EXCEPT !.at = "fetch"] \in RefreshRecords
  BY <1>1 DEF Outcome, RefreshRecords, Versions, TypeOK
<1>5. /\ refreshes' \in [Futures -> RefreshRecords']
      /\ catalog' \in Versions' /\ disk' \in Versions'
  <2>1. CASE RestoreCatalog(f)
    <3>1. catalog' \in Versions' /\ disk' \in Versions'
      BY <1>1, <1>3, <2>1 DEF RestoreCatalog
    <3>2. \/ refreshes' = [refreshes EXCEPT ![f] = Outcome("ok")]
          \/ refreshes' = [refreshes EXCEPT ![f] =
                             [refreshes[f] EXCEPT !.at = "fetch"]]
      BY <1>1, <2>1 DEF RestoreCatalog, Finish, Advance, RefreshRecords
    <3>. QED
      BY <1>1, <1>3, <1>4, <3>1, <3>2
  <2>2. CASE FetchFails(f)
    BY <1>1, <1>3, <1>4, <2>2 DEF FetchFails, Finish
  <2>3. CASE FetchCatalog(f)
    <3>. DEFINE r == [refreshes[f] EXCEPT !.at = "write",
                                          !.published = version + 1]
    <3>1. version' = version + 1 /\ version + 1 \in Versions'
      BY <1>1, <2>3 DEF FetchCatalog, Versions
    <3>2. r \in RefreshRecords'
      <4>1. refreshes[f] \in RefreshRecords'
        BY <1>1, <1>3
      <4>. QED
        BY <3>1, <4>1 DEF RefreshRecords
    <3>3. /\ \/ refreshes' = [refreshes EXCEPT ![f] = Outcome("ok")]
             \/ refreshes' = [refreshes EXCEPT ![f] = r]
          /\ catalog' \in {catalog, version + 1} /\ disk' = disk
      BY <1>1, <2>3 DEF FetchCatalog, Publish, Replace, Finish, RefreshRecords
    <3>. HIDE DEF r
    <3>. QED
      BY <1>1, <1>3, <1>4, <3>1, <3>2, <3>3
  <2>4. CASE WriteCatalog(f)
    <3>1. /\ \/ refreshes' = [refreshes EXCEPT ![f] = Outcome("ok")]
             \/ refreshes' = [refreshes EXCEPT ![f] = Outcome("failed")]
          /\ catalog' = catalog /\ disk' \in {disk, refreshes[f].published}
      BY <2>4 DEF WriteCatalog, Finish
    <3>. QED
      BY <1>1, <1>3, <1>4, <3>1
  <2>. QED
    BY <2>1, <2>2, <2>3, <2>4 DEF Shared
<1>6. /\ \A d \in Callers : At(d, "await")' => task'[d].awaited # 0
      /\ task' \in [Callers -> CallStates']
  BY <1>2, <1>3 DEF TypeOK, At
<1>7. /\ stored' \in Credentials' /\ rotated' \subseteq Tokens'
      /\ lapsed' \subseteq Tokens' /\ lock' \in Callers \cup {Free}
      /\ minted' \in 1 .. MaxTokens
  BY <1>2, <1>3 DEF TypeOK, credentials
<1>8. /\ inflight' \in Futures \cup {0}
      /\ version' \in Nat \ {0} /\ called' \in 0 .. MaxCalls
  BY <1>1, <1>2 DEF TypeOK
<1>. QED
  BY <1>5, <1>6, <1>7, <1>8 DEF TypeOK

\* A step of a call that touches the catalog, and the steps from outside.
OtherStep(c) ==
  \/ JoinRefresh(c)
  \/ SettleRefresh(c)
  \/ Abort(c)
  \/ Drop(c)
  \/ \E o \in Operations : Call(c, o)

LEMMA OtherTypes ==
  ASSUME TypeOK, NEW c \in Callers, OtherStep(c)
  PROVE  TypeOK'
<1>1. /\ refreshes \in [Futures -> RefreshRecords] /\ NoCall \in CallStates
      /\ task \in [Callers -> CallStates] /\ task[c] \in CallStates
      /\ inflight \in Futures \cup {0} /\ called \in Nat
      /\ 0 \notin Futures
  BY NoCallTyped DEF TypeOK, Futures
<1>2. /\ UNCHANGED <<stored, minted, lapsed, rotated, catalog, disk, version>>
      /\ lock' \in {lock, Free}
      /\ called' \in {called, called + 1} /\ called' \in 0 .. MaxCalls
  <2>1. UNCHANGED <<stored, minted, lapsed, rotated, catalog, disk, version>>
    BY DEF OtherStep, JoinRefresh, SettleRefresh, Abort, Drop, Call, credentials,
           models
  <2>2. lock' \in {lock, Free}
    BY DEF OtherStep, JoinRefresh, SettleRefresh, Abort, Drop, Call, credentials,
           models, LockAfterDrop
  <2>3. \/ called' = called
        \/ called < MaxCalls /\ called' = called + 1
    BY DEF OtherStep, JoinRefresh, SettleRefresh, Abort, Drop, Call
  <2>4. MaxCalls \in Nat /\ called \in 0 .. MaxCalls
    BY ModelsAssumption DEF TypeOK
  <2>. QED
    BY <2>1, <2>2, <2>3, <2>4
<1>3. /\ Credentials' = Credentials /\ Tokens' = Tokens /\ Versions' = Versions
      /\ CallStates \subseteq CallStates' /\ RefreshRecords \subseteq RefreshRecords'
  <2>1. /\ minted \in Nat /\ minted' = minted
        /\ version \in Nat /\ version' = version
        /\ called' \in Nat /\ called <= called'
    BY <1>1, <1>2 DEF TypeOK
  <2>2. CallStates \subseteq CallStates' /\ RefreshRecords \subseteq RefreshRecords'
    BY <1>1, <2>1, TypesGrow
  <2>. QED
    BY <1>2, <2>2 DEF Credentials, Tokens, Versions
<1>4. Outcome("free") \in RefreshRecords
  BY <1>1 DEF Outcome, RefreshRecords, Versions, TypeOK
<1>5. ASSUME NEW slot, Release(c, slot)
      PROVE  refreshes' \in [Futures -> RefreshRecords']
  BY <1>1, <1>3, <1>4, <1>5 DEF Release
<1>6. Return(c) => /\ task' = [task EXCEPT ![c] = NoCall]
                   /\ NoCall.pc # "await"
  BY DEF Return, NoCall
<1>7. /\ \E t \in CallStates' : /\ task' = [task EXCEPT ![c] = t]
                                /\ t.pc = "await" => t.awaited # 0
      /\ refreshes' \in [Futures -> RefreshRecords']
      /\ inflight' \in Futures \cup {0}
  <2>1. CASE JoinRefresh(c)
    <3>. DEFINE t(f) == [task[c] EXCEPT !.pc = "await", !.awaited = f]
    <3>1. \A f \in Futures : /\ t(f) \in CallStates /\ t(f).awaited = f
                            /\ t(f).awaited # 0
      BY <1>1 DEF CallStates, Pcs
    <3>2. CASE inflight # 0
      <4>1. /\ inflight \in Futures /\ UNCHANGED <<inflight, refreshes>>
            /\ task' = [task EXCEPT ![c] = t(inflight)]
        BY <1>1, <2>1, <3>2 DEF JoinRefresh, CallStates
      <4>. HIDE DEF t
      <4>. QED
        BY <1>1, <1>3, <3>1, <4>1
    <3>3. CASE inflight = 0
      <4>1. PICK f \in Futures :
              /\ refreshes' = [refreshes EXCEPT ![f] = RefreshOf(c)]
              /\ inflight' = f
              /\ task' = [task EXCEPT ![c] = t(f)]
        BY <1>1, <2>1, <3>3 DEF JoinRefresh, CallStates
      <4>2. RefreshOf(c) \in RefreshRecords
        BY <1>1 DEF RefreshOf, RefreshRecords, CallStates, TypeOK, Versions
      <4>. HIDE DEF t
      <4>. QED
        BY <1>1, <1>3, <3>1, <4>1, <4>2
    <3>. QED
      BY <3>2, <3>3
  <2>2. CASE SettleRefresh(c)
    <3>. DEFINE t == [task[c] EXCEPT !.pc = "join", !.op = "restore",
                                     !.network = FALSE, !.awaited = 0]
    <3>1. t \in CallStates /\ t.pc = "join"
      BY <1>1 DEF CallStates, Pcs
    <3>2. /\ Return(c) \/ task' = [task EXCEPT ![c] = t]
          /\ inflight' \in {0, inflight} /\ Release(c, inflight')
      BY <1>1, <2>2 DEF SettleRefresh, CallStates
    <3>. HIDE DEF t
    <3>. QED
      BY <1>1, <1>3, <1>5, <1>6, <3>1, <3>2
  <2>3. CASE Abort(c)
    <3>. DEFINE t == [task[c] EXCEPT !.aborted = TRUE]
    <3>1. t \in CallStates /\ t.pc = task[c].pc /\ t.awaited = task[c].awaited
      BY <1>1 DEF CallStates
    <3>2. task' = [task EXCEPT ![c] = t] /\ inflight' = inflight
      BY <1>1, <2>3 DEF Abort, CallStates
    <3>3. \A f \in Futures :
            [refreshes[f] EXCEPT !.aborted = TRUE] \in RefreshRecords
      BY <1>1 DEF RefreshRecords
    <3>4. refreshes' \in [Futures -> RefreshRecords]
      BY <1>1, <2>3, <3>3 DEF Abort
    <3>5. task[c].pc = "await" => task[c].awaited # 0
      BY DEF TypeOK, At
    <3>. HIDE DEF t
    <3>. QED
      BY <1>1, <1>3, <3>1, <3>2, <3>4, <3>5
  <2>4. CASE Drop(c)
    BY <1>1, <1>3, <1>5, <1>6, <2>4 DEF Drop
  <2>5. ASSUME NEW o \in Operations, Call(c, o)
        PROVE  <1>7!1 /\ <1>7!2 /\ <1>7!3
    <3>1. o \in AllOperations
      BY ModelsAssumption
    <3>2. PICK allow \in BOOLEAN : task' = [task EXCEPT ![c] =
            [NoCall EXCEPT !.op = o, !.pc = FirstStep(o),
                           !.id = IF o = "refresh" THEN called + 1 ELSE 0,
                           !.network = allow]]
      BY <2>5 DEF Call
    <3>3. /\ FirstStep(o) \in Pcs \ {"await"}
          /\ (IF o = "refresh" THEN called + 1 ELSE 0) \in 0 .. called'
      BY <1>1, <2>5 DEF Call, FirstStep, Pcs
    <3>. DEFINE t == [NoCall EXCEPT !.op = o, !.pc = FirstStep(o),
                          !.id = IF o = "refresh" THEN called + 1 ELSE 0,
                          !.network = allow]
    <3>4. t \in CallStates' /\ t.pc # "await"
      <4>1. NoCall \in CallStates'
        BY <1>1, <1>3
      <4>. QED
        BY <3>1, <3>3, <4>1 DEF CallStates, NoCall
    <3>5. UNCHANGED <<refreshes, inflight>> /\ task' = [task EXCEPT ![c] = t]
      BY <2>5, <3>2 DEF Call, models
    <3>. HIDE DEF t
    <3>. QED
      BY <1>1, <1>3, <3>4, <3>5
  <2>. QED
    BY <2>1, <2>2, <2>3, <2>4, <2>5 DEF OtherStep
<1>8. /\ task' \in [Callers -> CallStates']
      /\ \A d \in Callers : At(d, "await")' => task'[d].awaited # 0
  BY <1>1, <1>3, <1>7, AwaitsKept
<1>. QED
  BY <1>2, <1>3, <1>7, <1>8 DEF TypeOK

-----------------------------------------------------------------------------
(* The lock and the tokens                                                 *)

\* What a step of the credential part does to the other calls and to its own.
LEMMA CredentialMoves ==
  ASSUME TypeOK, NEW c \in Callers, CredentialStep(c)
  PROVE  /\ DOMAIN task = Callers
         /\ \A d \in Callers \ {c} : task'[d] = task[d]
         /\ ~LockCredential(c) => task'[c].pc # "refresh"
         /\ ~FinishLogin(c) => task'[c].pc # "persist"
<1>1. task \in [Callers -> CallStates]
  BY DEF TypeOK
<1>2. \A label, credential :
        Return(c) \/ Hold(c, label, credential)
          => /\ \A d \in Callers \ {c} : task'[d] = task[d]
             /\ task'[c].pc \in {"idle", label}
  <2>1. Return(c) => /\ \A d \in Callers \ {c} : task'[d] = task[d]
                     /\ task'[c].pc = "idle"
    BY <1>1 DEF Return, NoCall
  <2>2. ASSUME NEW label, NEW credential, Hold(c, label, credential)
        PROVE  /\ \A d \in Callers \ {c} : task'[d] = task[d]
               /\ task'[c].pc = label
    BY <1>1, <2>2 DEF Hold, CallStates
  <2>. QED
    BY <2>1, <2>2
<1>3. /\ \/ Return(c)
         \/ Hold(c, "join", NoCredential)
         \/ Hold(c, "lock", stored)
         \/ LockCredential(c) /\ Hold(c, "refresh", Current(c))
         \/ FinishLogin(c) /\ \/ Hold(c, "persist", ApiKey)
                               \/ Hold(c, "persist", minted + 1)
  BY DEF CredentialStep, ReadCredential, UseAsRead, LockToRefresh, Proceed,
         LockCredential, TokenRefreshed, TokenRefused, FinishLogin,
         PersistLogin, Delete
<1>. QED
  BY <1>1, <1>2, <1>3

LEMMA CredentialInit == ModelsInit => CredentialInv
<1>. SUFFICES ASSUME ModelsInit PROVE CredentialInv
  OBVIOUS
<1>1. lock = Free /\ rotated = {} /\ \A c \in Callers : task[c].pc = "idle"
  BY DEF ModelsInit, NoCall
<1>. QED
  BY <1>1 DEF CredentialInv, HolderInv, LoginInv, LockIsFreed, NewToken, At

\* The lock changes hands with the call that works on the stored token.
LEMMA HolderKept ==
  ASSUME TypeOK, HolderInv, NEW c \in Callers, CredentialStep(c)
  PROVE  HolderInv'
<1>1. /\ DOMAIN task = Callers
      /\ \A d \in Callers \ {c} : task'[d] = task[d]
      /\ ~LockCredential(c) => task'[c].pc # "refresh"
  BY CredentialMoves
<1>2. Free \notin Callers
  BY ModelsAssumption
<1>3. \A d \in Callers : At(d, "refresh") => lock = d
  BY DEF HolderInv, LockIsFreed
<1>4. lock # Free => lock \in Callers /\ At(lock, "refresh")
  BY DEF HolderInv, LockIsFreed, TypeOK
<1>5. CASE ReadCredential(c)
  <2>1. /\ UNCHANGED <<lock, stored, minted>> /\ ~At(c, "refresh")
        /\ ~LockCredential(c)
    BY <1>5 DEF ReadCredential, credentials, At, LockCredential
  <2>. QED
    BY <1>1, <1>2, <1>4, <2>1 DEF HolderInv, LockIsFreed, At, IsOAuth, Tokens
<1>6. CASE LockCredential(c)
  <2>1. /\ lock = Free /\ ~At(c, "refresh") /\ UNCHANGED <<stored, minted>>
        /\ \A d \in Callers : ~At(d, "refresh")
    BY <1>2, <1>3, <1>6 DEF LockCredential, At
  <2>2. CASE Return(c) \/ Hold(c, "join", NoCredential)
    <3>1. task'[c].pc # "refresh"
      BY <1>1, <2>2 DEF Return, Hold, NoCall, TypeOK, CallStates
    <3>2. lock' = Free
      BY <1>6, <2>1, <2>2, <3>1 DEF LockCredential, Hold, TypeOK, CallStates
    <3>. QED
      BY <1>1, <1>2, <2>1, <3>1, <3>2 DEF HolderInv, LockIsFreed, At
  <2>3. CASE /\ IsOAuth(stored) /\ Hold(c, "refresh", stored)
             /\ lock' = c
    <3>1. task'[c].pc = "refresh" /\ task'[c].seen = stored
      BY <1>1, <2>3 DEF Hold, TypeOK, CallStates
    <3>. QED
      BY <1>1, <1>2, <2>1, <2>3, <3>1
         DEF HolderInv, LockIsFreed, At, IsOAuth, Tokens
  <2>. QED
    BY <1>6, <2>2, <2>3 DEF LockCredential, Current, Proceed
<1>7. CASE TokenRefreshed(c) \/ TokenRefused(c)
  <2>1. lock = c /\ lock' = Free /\ ~LockCredential(c)
    BY <1>3, <1>7 DEF TokenRefreshed, TokenRefused, LockCredential, At
  <2>. QED
    BY <1>1, <1>2, <1>3, <2>1 DEF HolderInv, LockIsFreed, At
<1>8. CASE FinishLogin(c)
  <2>1. /\ UNCHANGED <<lock, stored>> /\ minted' \in {minted, minted + 1}
        /\ ~LockCredential(c) /\ ~At(c, "refresh")
    BY <1>8 DEF FinishLogin, LockCredential, At
  <2>2. IsOAuth(stored) => IsOAuth(stored)'
    BY <2>1 DEF IsOAuth, Tokens, TypeOK
  <2>. QED
    BY <1>1, <1>2, <1>4, <2>1, <2>2 DEF HolderInv, LockIsFreed, At
<1>9. CASE PersistLogin(c) \/ Delete(c)
  <2>1. lock = Free /\ lock' = Free /\ ~LockCredential(c)
    BY <1>9 DEF PersistLogin, Delete, LockCredential, At
  <2>. QED
    BY <1>1, <1>2, <1>3, <2>1 DEF HolderInv, LockIsFreed, At
<1>. QED
  BY <1>5, <1>6, <1>7, <1>8, <1>9 DEF CredentialStep

\* A token enters the store once: from the provider or from one login.
LEMMA LoginKept ==
  ASSUME TypeOK, CredentialInv, NEW c \in Callers, CredentialStep(c)
  PROVE  LoginInv' /\ stored' \notin rotated'
<1>1. /\ DOMAIN task = Callers
      /\ \A d \in Callers \ {c} : task'[d] = task[d]
      /\ ~FinishLogin(c) => task'[c].pc # "persist"
  BY CredentialMoves
<1>2. /\ minted \in Nat /\ rotated \subseteq Tokens /\ stored \in Credentials
      /\ NoCredential \notin Nat /\ ApiKey \notin Nat
      /\ NoCredential # ApiKey /\ Tokens \subseteq Nat
      /\ minted + 1 \notin Tokens
  BY ModelsAssumption DEF TypeOK, Tokens
<1>3. stored \notin rotated /\ LoginInv
  BY DEF CredentialInv
<1>4. minted' \in {minted, minted + 1}
  BY DEF CredentialStep, ReadCredential, LockCredential, TokenRefreshed,
         TokenRefused, FinishLogin, PersistLogin, Delete, credentials
<1>5. Tokens \subseteq Tokens'
  BY <1>2, <1>4 DEF Tokens
<1>6. CASE FinishLogin(c)
  <2>1. /\ UNCHANGED <<stored, rotated>>
        /\ NewToken(c)' => minted' = minted + 1 /\ task'[c].seen = minted + 1
    BY <1>6 DEF FinishLogin, Return, Hold, NewToken, At, NoCall, TypeOK, CallStates
  <2>2. minted + 1 # stored /\ minted + 1 \notin rotated
    BY <1>2 DEF Credentials
  <2>3. NewToken(c)' => task'[c].seen \in Tokens'
    BY <1>2, <2>1 DEF IsOAuth, Tokens
  <2>4. \A d \in Callers \ {c} : NewToken(d)' =>
          /\ NewToken(d) /\ task'[d].seen = task[d].seen
          /\ task'[d].seen \in Tokens' /\ task[d].seen # minted + 1
    BY <1>1, <1>2, <1>3, <1>5 DEF NewToken, At, LoginInv, IsOAuth
  <2>. QED
    BY <1>3, <2>1, <2>2, <2>3, <2>4 DEF LoginInv
<1>7. CASE ~FinishLogin(c)
  <2>1. \A d \in Callers : NewToken(d)' =>
          /\ d # c /\ NewToken(d) /\ task'[d].seen = task[d].seen
          /\ task[d].seen \in Tokens /\ task'[d].seen \in Tokens'
    BY <1>1, <1>3, <1>5, <1>7 DEF NewToken, At, LoginInv, IsOAuth
  <2>2. CASE UNCHANGED <<stored, rotated>>
    BY <1>3, <2>1, <2>2 DEF LoginInv
  <2>3. CASE TokenRefreshed(c)
    <3>1. /\ stored' = minted + 1 /\ rotated' = rotated \cup {stored}
          /\ stored \in Tokens
      BY <2>3 DEF TokenRefreshed, CredentialInv, HolderInv, IsOAuth
    <3>. QED
      BY <1>2, <1>3, <2>1, <3>1 DEF LoginInv, IsOAuth
  <2>4. CASE PersistLogin(c)
    <3>1. /\ stored' = task[c].seen /\ UNCHANGED rotated /\ At(c, "persist")
      BY <2>4 DEF PersistLogin
    <3>2. stored' \notin rotated'
      BY <1>2, <1>3, <3>1 DEF LoginInv, NewToken
    <3>. QED
      BY <1>2, <1>3, <2>1, <3>1, <3>2 DEF LoginInv, NewToken
  <2>5. CASE Delete(c)
    <3>1. stored' = NoCredential /\ UNCHANGED rotated
      BY <2>5 DEF Delete
    <3>. QED
      BY <1>2, <1>3, <2>1, <3>1 DEF LoginInv, IsOAuth
  <2>6. ReadCredential(c) \/ LockCredential(c) \/ TokenRefused(c)
          => UNCHANGED <<stored, rotated>>
    BY DEF ReadCredential, LockCredential, TokenRefused, credentials
  <2>. QED
    BY <1>7, <2>2, <2>3, <2>4, <2>5, <2>6 DEF CredentialStep
<1>. QED
  BY <1>6, <1>7

\* A step after which every call is at most where it was, with the credential
\* it had, and the store is as before.
LEMMA CredentialFrame ==
  ASSUME CredentialInv, UNCHANGED <<stored, minted, rotated>>,
         \A d \in Callers :
           /\ At(d, "refresh")' => At(d, "refresh")
           /\ At(d, "persist")' => At(d, "persist")
           /\ At(d, "refresh")' \/ At(d, "persist")'
                => task'[d].seen = task[d].seen,
         \/ /\ lock' = lock
            /\ \A d \in Callers : At(d, "refresh") => At(d, "refresh")'
         \/ lock' = Free /\ \A d \in Callers : ~At(d, "refresh")',
         lock \in Callers \cup {Free}
  PROVE  CredentialInv'
<1>1. LockIsFreed'
  BY DEF CredentialInv, HolderInv, LockIsFreed
<1>2. HolderInv'
  BY <1>1 DEF CredentialInv, HolderInv, IsOAuth, Tokens
<1>3. LoginInv'
  BY DEF CredentialInv, LoginInv, NewToken, Tokens
<1>. QED
  BY <1>2, <1>3 DEF CredentialInv

LEMMA OtherCredentials ==
  ASSUME TypeOK, CredentialInv, NEW c \in Callers, OtherStep(c)
  PROVE  CredentialInv'
<1>1. /\ task \in [Callers -> CallStates] /\ lock \in Callers \cup {Free}
      /\ Free \notin Callers
      /\ \A d \in Callers : At(d, "refresh") => lock = d
  BY ModelsAssumption DEF TypeOK, CredentialInv, HolderInv, LockIsFreed
<1>2. UNCHANGED <<stored, minted, rotated>>
  BY DEF OtherStep, JoinRefresh, SettleRefresh, Abort, Drop, Call, credentials
<1>3. \A d \in Callers \ {c} : task'[d] = task[d]
  BY <1>1 DEF OtherStep, JoinRefresh, SettleRefresh, Abort, Drop, Call, Return
<1>4. CASE Drop(c)
  <2>1. task'[c].pc = "idle"
    BY <1>1, <1>4 DEF Drop, Return, NoCall
  <2>2. lock' = IF lock = c THEN Free ELSE lock
    BY <1>4 DEF Drop, LockAfterDrop
  <2>. QED
    BY <1>1, <1>2, <1>3, <2>1, <2>2, CredentialFrame DEF At
<1>5. CASE Abort(c)
  <2>1. task'[c].pc = task[c].pc /\ task'[c].seen = task[c].seen
    BY <1>1, <1>5 DEF Abort, CallStates
  <2>2. lock' = lock
    BY <1>5 DEF Abort, credentials
  <2>. QED
    BY <1>1, <1>2, <1>3, <2>1, <2>2, CredentialFrame DEF At
<1>6. CASE JoinRefresh(c) \/ SettleRefresh(c) \/ \E o \in Operations : Call(c, o)
  <2>1. task[c].pc \in {"join", "await", "idle"} /\ lock' = lock
    BY <1>6 DEF JoinRefresh, SettleRefresh, Call, At, credentials
  <2>2. CASE JoinRefresh(c) \/ SettleRefresh(c)
    <3>1. task'[c].pc \in {"await", "join", "idle"}
      BY <1>1, <2>2 DEF JoinRefresh, SettleRefresh, Return, NoCall, CallStates
    <3>. QED
      BY <1>1, <1>2, <1>3, <2>1, <3>1, CredentialFrame DEF At
  <2>3. ASSUME NEW o \in Operations, Call(c, o)
        PROVE  CredentialInv'
    <3>1. task'[c].pc = FirstStep(o)
      BY <1>1, <2>3 DEF Call, NoCall
    <3>2. FirstStep(o) \in {"interact", "delete", "read"}
      BY DEF FirstStep
    <3>. QED
      BY <1>1, <1>2, <1>3, <2>1, <3>1, <3>2, CredentialFrame DEF At
  <2>. QED
    BY <1>6, <2>2, <2>3
<1>. QED
  BY <1>4, <1>5, <1>6 DEF OtherStep

\* The whole of a step, types and credentials.
LEMMA CredentialNext ==
  ASSUME TypeOK, CredentialInv, [ModelsNext]_modelsVars
  PROVE  TypeOK' /\ CredentialInv'
<1>1. ASSUME NEW c \in Callers, CredentialStep(c)
      PROVE  TypeOK' /\ CredentialInv'
  <2>1. HolderInv
    BY DEF CredentialInv
  <2>. QED
    BY <1>1, <2>1, CredentialTypes, HolderKept, LoginKept DEF CredentialInv
<1>2. ASSUME NEW c \in Callers, OtherStep(c)
      PROVE  TypeOK' /\ CredentialInv'
  BY <1>2, OtherTypes, OtherCredentials
<1>3. ASSUME NEW f \in Futures, Shared(f)
      PROVE  TypeOK' /\ CredentialInv'
  <2>1. UNCHANGED credentials /\ UNCHANGED task
    BY <1>3 DEF Shared, RestoreCatalog, FetchFails, FetchCatalog, WriteCatalog
  <2>2. CredentialInv'
    BY <2>1 DEF CredentialInv, HolderInv, LockIsFreed, LoginInv, NewToken, At,
                IsOAuth, Tokens, credentials
  <2>. QED
    BY <1>3, <2>2, SharedTypes
<1>4. CASE TokenExpires
  <2>1. /\ UNCHANGED <<stored, lock, minted, rotated, models, task, called>>
        /\ lapsed' = lapsed \cup {stored} /\ stored \in Tokens
    BY <1>4 DEF TokenExpires, IsOAuth
  <2>2. CredentialInv'
    BY <2>1 DEF CredentialInv, HolderInv, LockIsFreed, LoginInv, NewToken, At,
                IsOAuth, Tokens
  <2>3. TypeOK'
    BY <2>1 DEF TypeOK, models, Tokens, Credentials, Versions, CallStates,
                RefreshRecords, At
  <2>. QED
    BY <2>2, <2>3
<1>5. CASE UNCHANGED modelsVars
  BY <1>5 DEF modelsVars, credentials, models, TypeOK, CredentialInv, HolderInv,
              LockIsFreed, LoginInv, NewToken, At, IsOAuth, Tokens, Credentials,
              Versions, CallStates, RefreshRecords
<1>6. ASSUME NEW c \in Callers, Steps(c)
      PROVE  CredentialStep(c) \/ OtherStep(c)
  BY <1>6 DEF Steps, CredentialStep, OtherStep
<1>. QED
  BY <1>1, <1>2, <1>3, <1>4, <1>5, <1>6 DEF ModelsNext, OtherStep

-----------------------------------------------------------------------------
(* The shared refresh                                                      *)

\* Freeing a future starts none.
LEMMA ReleaseKeeps ==
  ASSUME TypeOK, NEW c \in Callers, NEW slot, Release(c, slot)
  PROVE  \A f \in Futures : Running(refreshes'[f]) => Running(refreshes[f])
BY DEF TypeOK, Release, Running, Outcome

LEMMA SlotKept ==
  ASSUME TypeOK, RunningInSlot, [ModelsNext]_modelsVars
  PROVE  RunningInSlot'
<1>1. refreshes \in [Futures -> RefreshRecords] /\ Futures' = Futures
  BY DEF TypeOK, Futures
<1>2. ASSUME \A f \in Futures : Running(refreshes'[f]) => Running(refreshes[f]),
             inflight' = inflight
      PROVE  RunningInSlot'
  BY <1>1, <1>2 DEF RunningInSlot, Running
<1>3. ASSUME NEW c \in Callers, JoinRefresh(c)
      PROVE  RunningInSlot'
  <2>1. CASE inflight # 0
    BY <1>2, <1>3, <2>1 DEF JoinRefresh
  <2>2. CASE inflight = 0
    <3>1. PICK f \in Futures :
            /\ refreshes' = [refreshes EXCEPT ![f] = RefreshOf(c)]
            /\ inflight' = f
      BY <1>3, <2>2 DEF JoinRefresh
    <3>2. \A g \in Futures : ~Running(refreshes[g])
      BY <2>2 DEF RunningInSlot, Futures
    <3>. QED
      BY <1>1, <3>1, <3>2 DEF RunningInSlot, Running
  <2>. QED
    BY <2>1, <2>2
<1>4. ASSUME NEW c \in Callers, SettleRefresh(c)
      PROVE  RunningInSlot'
  <2>1. \A f \in Futures : Running(refreshes'[f]) => Running(refreshes[f])
    BY <1>4, ReleaseKeeps DEF SettleRefresh
  <2>2. CASE inflight' = inflight
    BY <1>2, <2>1, <2>2
  <2>3. CASE inflight = task[c].awaited /\ inflight' = 0
    <3>1. task[c].awaited \in Futures /\ Done(refreshes[task[c].awaited])
      BY <1>4 DEF SettleRefresh, TypeOK, CallStates
    <3>2. ~Running(refreshes[task[c].awaited])
      BY <3>1 DEF Done, Running
    <3>3. \A f \in Futures : ~Running(refreshes[f])
      BY <2>3, <3>2 DEF RunningInSlot
    <3>. QED
      BY <1>1, <2>1, <3>3 DEF RunningInSlot, Running
  <2>. QED
    BY <1>4, <2>2, <2>3 DEF SettleRefresh, ClearsSlot
<1>5. ASSUME NEW c \in Callers, Abort(c)
      PROVE  RunningInSlot'
  <2>1. \A f \in Futures : refreshes'[f].at = refreshes[f].at
    BY <1>1, <1>5 DEF Abort, RefreshRecords
  <2>. QED
    BY <1>2, <1>5, <2>1 DEF Abort, Running
<1>6. ASSUME NEW c \in Callers, Drop(c)
      PROVE  RunningInSlot'
  <2>1. \A f \in Futures : Running(refreshes'[f]) => Running(refreshes[f])
    BY <1>6, ReleaseKeeps DEF Drop
  <2>. QED
    BY <1>2, <1>6, <2>1 DEF Drop
<1>7. ASSUME NEW f \in Futures, Shared(f)
      PROVE  RunningInSlot'
  <2>1. Running(refreshes[f]) /\ inflight' = inflight
    BY <1>7 DEF Shared, RestoreCatalog, FetchFails, FetchCatalog, WriteCatalog,
                Running
  <2>2. \A g \in Futures \ {f} : refreshes'[g] = refreshes[g]
    BY <1>1, <1>7 DEF Shared, RestoreCatalog, FetchFails, FetchCatalog,
         WriteCatalog, Publish, Replace, Finish, Advance
  <2>. QED
    BY <1>2, <2>1, <2>2
<1>8. UNCHANGED models => RunningInSlot'
  BY <1>2 DEF models
<1>9. ASSUME NEW c \in Callers, CredentialStep(c)
      PROVE  UNCHANGED models
  BY <1>9 DEF CredentialStep, ReadCredential, LockCredential, TokenRefreshed,
              TokenRefused, FinishLogin, PersistLogin, Delete
<1>10. ASSUME NEW c \in Callers, NEW o \in Operations, Call(c, o)
       PROVE  UNCHANGED models
  BY <1>10 DEF Call
<1>11. ASSUME NEW c \in Callers, Steps(c)
       PROVE  RunningInSlot'
  BY <1>3, <1>4, <1>8, <1>9, <1>11 DEF Steps, CredentialStep
<1>12. TokenExpires \/ UNCHANGED modelsVars => UNCHANGED models
  BY DEF TokenExpires, modelsVars
<1>. QED
  BY <1>5, <1>6, <1>7, <1>8, <1>10, <1>11, <1>12 DEF ModelsNext

\* A step of the refresh in the slot, and what it leaves of the list.
LEMMA SharedList ==
  ASSUME TypeOK, RunningInSlot, ListInv, NEW f \in Futures, Shared(f)
  PROVE  /\ ListInv'
         /\ refreshes'[f].at = "ok"
              => catalog' \in {refreshes[f].before, disk'}
         /\ \A g \in Futures \ {f} : refreshes'[g] = refreshes[g]
<1>1. /\ refreshes \in [Futures -> RefreshRecords] /\ Futures' = Futures
      /\ refreshes[f] \in RefreshRecords
  BY DEF TypeOK, Futures
<1>2. \A g \in Futures \ {f} : ~Running(refreshes[g])
  BY DEF RunningInSlot, Shared, RestoreCatalog, FetchFails, FetchCatalog,
         WriteCatalog, Running
<1>3. \A g \in Futures \ {f} : refreshes'[g] = refreshes[g]
  BY <1>1 DEF Shared, RestoreCatalog, FetchFails, FetchCatalog,
     WriteCatalog, Publish, Replace, Finish, Advance
<1>4. /\ refreshes'[f].at = "ok" => catalog' \in {refreshes[f].before, disk'}
      /\ refreshes'[f].at # "restore"
      /\ refreshes'[f].at = "fetch"
           => catalog' \in {refreshes'[f].before, disk'}
      /\ refreshes'[f].at = "write" => catalog' = refreshes'[f].published
  <2>1. CASE RestoreCatalog(f)
    BY <1>1, <2>1 DEF ListInv, RestoreCatalog, Finish, Advance, Outcome,
                      RefreshRecords
  <2>2. CASE FetchFails(f)
    BY <1>1, <2>2 DEF FetchFails, Finish, Outcome
  <2>3. CASE FetchCatalog(f)
    BY <1>1, <2>3 DEF ListInv, FetchCatalog, Publish, Replace, Finish, Outcome,
                      RefreshRecords
  <2>4. CASE WriteCatalog(f)
    BY <1>1, <2>4 DEF ListInv, WriteCatalog, Finish, Outcome
  <2>. QED
    BY <2>1, <2>2, <2>3, <2>4 DEF Shared
<1>. QED
  BY <1>1, <1>2, <1>3, <1>4 DEF ListInv, Running

\* The steps of the calls leave the list to the refresh at work.
LEMMA CallList ==
  ASSUME TypeOK, ListInv, NEW c \in Callers,
         CredentialStep(c) \/ OtherStep(c)
  PROVE  /\ ListInv'
         /\ \A f \in Futures :
              Running(refreshes[f]) => refreshes'[f].at # "ok"
<1>1. /\ refreshes \in [Futures -> RefreshRecords] /\ Futures' = Futures
  BY DEF TypeOK, Futures
<1>2. UNCHANGED models =>
        /\ ListInv'
        /\ \A f \in Futures :
             Running(refreshes[f]) => refreshes'[f].at # "ok"
  BY <1>1 DEF models, ListInv, Running
<1>3. CASE JoinRefresh(c)
  <2>1. /\ UNCHANGED <<catalog, disk>>
        /\ \/ UNCHANGED refreshes
           \/ \E f \in Futures :
                refreshes' = [refreshes EXCEPT ![f] = RefreshOf(c)]
    BY <1>3 DEF JoinRefresh
  <2>. QED
    BY <1>1, <2>1 DEF ListInv, Running, RefreshOf
<1>4. ASSUME NEW slot, Release(c, slot), UNCHANGED <<catalog, disk>>
      PROVE  /\ ListInv'
             /\ \A f \in Futures :
                  Running(refreshes[f]) => refreshes'[f].at # "ok"
  BY <1>1, <1>4 DEF Release, ListInv, Running, Outcome
<1>5. CASE SettleRefresh(c) \/ Drop(c)
  BY <1>4, <1>5 DEF SettleRefresh, Drop
<1>6. CASE Abort(c)
  <2>1. \A f \in Futures :
          /\ refreshes'[f].at = refreshes[f].at
          /\ refreshes'[f].before = refreshes[f].before
          /\ refreshes'[f].published = refreshes[f].published
    BY <1>1, <1>6 DEF Abort, RefreshRecords
  <2>. QED
    BY <1>1, <1>6, <2>1 DEF Abort, ListInv, Running
<1>7. CredentialStep(c) \/ (\E o \in Operations : Call(c, o))
        => UNCHANGED models
  BY DEF Call, CredentialStep, ReadCredential, LockCredential, TokenRefreshed,
         TokenRefused, FinishLogin, PersistLogin, Delete
<1>. QED
  BY <1>2, <1>3, <1>5, <1>6, <1>7 DEF OtherStep

\* Every step, split by who takes it.
LEMMA Split ==
  ASSUME [ModelsNext]_modelsVars
  PROVE  \/ \E c \in Callers : CredentialStep(c) \/ OtherStep(c)
         \/ \E f \in Futures : Shared(f)
         \/ TokenExpires
         \/ UNCHANGED modelsVars
BY DEF ModelsNext, Steps, CredentialStep, OtherStep

LEMMA ListKept ==
  ASSUME TypeOK, RunningInSlot, ListInv, [ModelsNext]_modelsVars
  PROVE  /\ ListInv'
         /\ \A f \in Futures : Running(refreshes[f]) /\ refreshes'[f].at = "ok"
              => catalog' \in {refreshes[f].before, disk'}
<1>1. CASE \E c \in Callers : CredentialStep(c) \/ OtherStep(c)
  BY <1>1, CallList
<1>2. ASSUME NEW f \in Futures, Shared(f)
      PROVE  /\ ListInv'
             /\ \A g \in Futures :
                  Running(refreshes[g]) /\ refreshes'[g].at = "ok"
                    => catalog' \in {refreshes[g].before, disk'}
  BY <1>2, SharedList DEF Running
<1>3. CASE TokenExpires \/ UNCHANGED modelsVars
  BY <1>3 DEF TokenExpires, modelsVars, models, ListInv, Running, Futures
<1>. QED
  BY <1>1, <1>2, <1>3, Split

-----------------------------------------------------------------------------
(* Theorems                                                                *)

ModelsInv == TypeOK /\ CredentialInv /\ RunningInSlot /\ ListInv

LEMMA ModelsInvariant == ModelsSpec => []ModelsInv
<1>1. ModelsInit => ModelsInv
  <2>1. ModelsInit => RunningInSlot /\ ListInv
    BY DEF ModelsInit, RunningInSlot, ListInv, Running, Outcome
  <2>. QED
    BY <2>1, TypeInit, CredentialInit DEF ModelsInv
<1>2. ModelsInv /\ [ModelsNext]_modelsVars => ModelsInv'
  BY CredentialNext, SlotKept, ListKept DEF ModelsInv
<1>. QED
  BY <1>1, <1>2, PTL DEF ModelsSpec

\* However many callers there are, every variable of models_runtime.rs keeps
\* its type, and a call awaits a shared refresh that exists.
THEOREM TypeCorrect == ModelsSpec => []TypeOK
<1>1. ModelsInv => TypeOK
  BY DEF ModelsInv
<1>. QED
  BY <1>1, ModelsInvariant, PTL

\* However requests, logins, logouts and dropped calls interleave, the checks
\* of resolve_provider_auth before and under the lock let one request at a time
\* present a token, and never one that has been replaced in the store.
THEOREM TokensRefreshedOnce == ModelsSpec => []NoDoubleRefresh
<1>1. ModelsInv => NoDoubleRefresh
  BY DEF ModelsInv, CredentialInv, HolderInv, LockIsFreed, NoDoubleRefresh
<1>. QED
  BY <1>1, ModelsInvariant, PTL

\* The provider's lock is held by a request under way, or free: modify returns
\* it after an answer, after an error, and when its caller is dropped.
THEOREM LockNeverLeaks == ModelsSpec => []LockIsFreed
<1>1. ModelsInv => LockIsFreed
  BY DEF ModelsInv, CredentialInv, HolderInv
<1>. QED
  BY <1>1, ModelsInvariant, PTL

\* However many callers join, time out or settle late, one refresh of the
\* provider's catalog is unfinished at a time.
THEOREM OneRefreshAtATime == ModelsSpec => []OneRefresh
<1>1. ModelsInv => OneRefresh
  BY DEF ModelsInv, RunningInSlot, OneRefresh
<1>. QED
  BY <1>1, ModelsInvariant, PTL

\* However a logout interleaves with the requests that refresh the credential
\* it removes, none of them puts it back: only a login does.
THEOREM LogoutStays == ModelsSpec => OnlyLoginsStore
<1>. DEFINE A == stored = NoCredential /\ stored' # NoCredential
                   => \E c \in Callers : At(c, "persist") /\ task'[c] = NoCall
<1>1. ASSUME ModelsInv, [ModelsNext]_modelsVars, stored = NoCredential,
             stored' # NoCredential
      PROVE  \E c \in Callers : At(c, "persist") /\ task'[c] = NoCall
  <2>1. ~IsOAuth(stored)
    BY <1>1, ModelsAssumption DEF IsOAuth, Tokens, ModelsInv, TypeOK
  <2>2. ASSUME NEW c \in Callers, CredentialStep(c)
        PROVE  At(c, "persist") /\ task'[c] = NoCall
    <3>1. ~TokenRefreshed(c)
      BY <1>1, <2>1 DEF TokenRefreshed, ModelsInv, CredentialInv, HolderInv
    <3>2. PersistLogin(c)
      BY <1>1, <2>2, <3>1
         DEF CredentialStep, ReadCredential, LockCredential, TokenRefused,
             FinishLogin, Delete, credentials
    <3>3. task \in [Callers -> CallStates]
      BY <1>1 DEF ModelsInv, TypeOK
    <3>. QED
      BY <3>2, <3>3 DEF PersistLogin, Return
  <2>3. ASSUME NEW c \in Callers, OtherStep(c)
        PROVE  UNCHANGED stored
    BY <2>3 DEF OtherStep, JoinRefresh, SettleRefresh, Abort, Drop, Call,
                credentials
  <2>4. ASSUME NEW f \in Futures, Shared(f)
        PROVE  UNCHANGED stored
    BY <2>4 DEF Shared, RestoreCatalog, FetchFails, FetchCatalog, WriteCatalog,
                credentials
  <2>5. TokenExpires \/ UNCHANGED modelsVars => UNCHANGED stored
    BY DEF TokenExpires, modelsVars, credentials
  <2>. QED
    BY <1>1, <2>2, <2>3, <2>4, <2>5, Split
<1>2. ModelsInv /\ [ModelsNext]_modelsVars => [A]_modelsVars
  BY <1>1
<1>. QED
  BY <1>2, ModelsInvariant, PTL DEF ModelsSpec, OnlyLoginsStore

\* A refresh of the catalog that ends well leaves the list it found or the
\* stored one: refresh_parts_models returns after a fetch without a list or
\* with an abort before it publishes, and after a publication only once the
\* store has answered.
THEOREM PublishedIsSaved == ModelsSpec => CatalogSaved
<1>. DEFINE A == \A f \in Futures :
       Running(refreshes[f]) /\ refreshes'[f].at = "ok"
         => catalog' \in {refreshes[f].before, disk'}
<1>1. ModelsInv /\ [ModelsNext]_modelsVars => [A]_modelsVars
  BY ListKept DEF ModelsInv
<1>. QED
  BY <1>1, ModelsInvariant, PTL DEF ModelsSpec, CatalogSaved

-----------------------------------------------------------------------------
\* What the login is at every step.
LoginRecord(l) ==
  l = [phase |-> l.phase, flow |-> l.flow, code |-> l.code, todo |-> l.todo,
       token |-> l.token, busy |-> l.busy]

-----------------------------------------------------------------------------
(* Whose code is exchanged                                                 *)

Codes == [code : {"none", "mine", "other"}, state : {"none", "mine", "other"}]

\* A code of another login came from the prompt, and the state with it was not
\* seen to be another's.
Acceptable(code, answer) ==
  code.code = "other" => answer # NoAnswer /\ code.state # "other"

\* The channel holds no code but this login's, and a manual code is only looked
\* at once it is there.
Whose ==
  /\ callback \in {Unsent, NoCallback, "mine"}
  /\ prompt \in Inputs \cup {NoAnswer}
  /\ login.phase = "cancelling" => prompt # NoAnswer
  /\ login.code \in Codes
  /\ Acceptable(login.code, prompt)

-----------------------------------------------------------------------------
(* How far apart the polls are                                             *)

Stages == {"off", "new", "due", "asked", "wait", "failed", "complete"}

Pollers ==
  [stage : Stages, now : Nat, deadline : Nat, interval : Nat, waits : BOOLEAN,
   cancelled : BOOLEAN, last : Nat \cup {Never}, asked : Nat]

\* The interval is never less than the one the provider wants, and a poll that
\* is due before the end of the lifetime is due a whole interval after the last.
Timed(p) ==
  /\ p.interval >= p.asked
  /\ p.stage = "new" =>
       p.now = 0 /\ p.last = IF p.waits THEN 0 ELSE Never
  /\ p.stage = "due" /\ p.last # Never /\ p.now < p.deadline =>
       p.now - p.last >= p.asked
  /\ p.stage \in {"asked", "wait"} => p.last = p.now

Spaced ==
  /\ login.flow \in Device \cup Asks \cup {"radius", "none"}
  /\ login.phase = "polling" => login.flow \in Device
  /\ poll \in Pollers
  /\ Timed(poll)

-----------------------------------------------------------------------------
(* What of the file can be lost                                            *)

FileTokens == [Providers -> Nat]

Copies ==
  [stage : {"idle", "refreshing", "saving", "writing"},
   provider : Providers \cup {"none"}, storage : FileTokens, seen : Nat]

FileTyped ==
  /\ file \in [text : {"whole", "empty", "garbled"}, entries : FileTokens,
               version : Nat]
  /\ tasks \in [Tasks -> Copies]
  /\ \A t \in Tasks : tasks[t].stage # "idle" => tasks[t].provider \in Providers
  /\ issued \in FileTokens /\ acked \in FileTokens /\ stale \in BOOLEAN
  /\ login.phase = "granted" =>
       /\ login.flow \in DOMAIN SavedAs /\ SavedAs[login.flow] \in Providers
       /\ login.token \in Nat
  /\ tasks[LoginTask].stage # "idle" => login.phase = "saved"

\* The token a task has of its own, that it saves or is writing.
Saves(t) == tasks[t].stage \in {"saving", "writing"}
Own(t) == tasks[t].storage[tasks[t].provider]

\* Every token there is was issued.
Numbered ==
  /\ \A q \in Providers : file.entries[q] <= issued[q]
  /\ \A t \in Tasks, q \in Providers : tasks[t].storage[q] <= issued[q]
  /\ \A q \in Providers : \A n \in Nat : <<q, n>> \in spent => n <= issued[q]

\* A token that is not in the file yet is good, and its holder's alone.
Unseen(q, token, holders) ==
  /\ token > 0 /\ token <= issued[q]
  /\ <<q, token>> \notin spent
  /\ file.entries[q] # token
  /\ \A u \in Tasks \ holders : tasks[u].storage[q] # token

Fresh ==
  /\ \A t \in Tasks : Saves(t) => Unseen(tasks[t].provider, Own(t), {t})
  /\ login.phase = "granted" => Unseen(SavedAs[login.flow], login.token, {})

\* No task read a later file than there is, and of the writers at most one has
\* seen the last change.
FileVersions ==
  /\ \A t \in Tasks : tasks[t].seen <= file.version
  /\ \A t, u \in Tasks :
       /\ tasks[t].stage = "writing" /\ tasks[t].seen = file.version
       /\ tasks[u].stage = "writing" /\ tasks[u].seen = file.version
       => t = u

\* No stale copy was written, and none is being written.
Clean ==
  ~stale /\ \A t \in Tasks : tasks[t].stage = "writing" =>
              tasks[t].seen = file.version

Writer(t) == tasks[t].stage = "writing"
NoWriter == \A t \in Tasks : ~Writer(t)

\* The copy has what was last saved, but for the holder's own entry.
Copied(t) ==
  \A q \in Providers : q # tasks[t].provider => tasks[t].storage[q] = acked[q]

\* A token that was used up is about to be replaced, by an application that is
\* saving the one it was given for it, or by the writer.
Replaced(q) ==
  <<q, acked[q]>> \in spent =>
    \E t \in Apps : tasks[t].provider = q /\ Saves(t)

\* As long as nothing stale was written: a file at rest has what was saved, and
\* so have the copies of it that are not out of date; an emptied file is the
\* one writer's, whose copy has it.
Kept ==
  Clean =>
    /\ NoWriter =>
         /\ file.text = "whole" /\ file.entries = acked
         /\ \A t \in Tasks : tasks[t].seen = file.version =>
              /\ tasks[t].stage = "refreshing" => tasks[t].storage = acked
              /\ tasks[t].stage = "saving" => Copied(t)
    /\ \A t \in Tasks : Writer(t) => file.text = "empty" /\ Copied(t)
    /\ \A q \in Providers :
         (\A t \in Tasks : Writer(t) => tasks[t].provider # q) => Replaced(q)

FileInv == FileTyped /\ Numbered /\ Fresh /\ FileVersions /\ Kept

-----------------------------------------------------------------------------
(* The steps that change the login                                         *)

\* Another phase leaves the rest of the login as it is.
LEMMA GoesFields ==
  ASSUME LoginRecord(login), NEW phase, Goes(phase)
  PROVE  /\ LoginRecord(login')
         /\ login'.phase = phase /\ login'.flow = login.flow
         /\ login'.code = login.code /\ login'.token = login.token
  BY DEF LoginRecord, Goes

\* An exchange sets the code, and what there is to be asked.
LEMMA ExchangesFields ==
  ASSUME LoginRecord(login), NEW code, Exchanges(code)
  PROVE  /\ LoginRecord(login')
         /\ login'.phase = "exchanging" /\ login'.flow = login.flow
         /\ login'.code = code /\ login'.token = login.token
<1> DEFINE todo == Requested(login.flow)
<1>1. login' = [login EXCEPT !.phase = "exchanging", !.code = code, !.todo = todo]
  BY DEF Exchanges
<1> HIDE DEF todo
<1> QED
  BY <1>1 DEF LoginRecord

\* A browser login begins to wait.
LEMMA WaitsFields ==
  ASSUME LoginRecord(login), NEW flow, NEW busy, Waits(flow, busy)
  PROVE  /\ LoginRecord(login')
         /\ login'.phase = "waiting" /\ login'.flow = flow
         /\ login'.code = login.code /\ login'.token = login.token
  BY DEF LoginRecord, Waits

\* Every step leaves the login a login.
LEMMA RecordStep ==
  ASSUME LoginRecord(login), [Next]_vars
  PROVE  LoginRecord(login')
<1> USE GoesFields, ExchangesFields, WaitsFields
<1>1. CASE Starts
  <2>1. CASE StartFails
    BY <2>1 DEF StartFails
  <2>2. CASE AnthropicStarts \/ RadiusStarts
    BY <2>2 DEF AnthropicStarts, RadiusStarts, Binds, BindFails
  <2>3. CASE CodexStarts
    BY <2>3 DEF CodexStarts, Binds
  <2>4. CASE \E f \in Flows \cap Device : DeviceStarts(f)
    BY <2>4 DEF DeviceStarts, LoginRecord
  <2> QED
    BY <1>1, <2>1, <2>2, <2>3, <2>4 DEF Starts
<1>2. CASE Answer \/ CancelWait \/ CancelLogin
  BY <1>2 DEF Answer, CancelWait, CancelLogin, loginVars
<1>3. CASE Server \/ File
  BY <1>3 DEF Server, File, loginVars
<1>4. CASE Proceeds
  <2>1. CASE TakeCallback
    BY <2>1 DEF TakeCallback, CallbackToCode
  <2>2. CASE TakeManual
    BY <2>2 DEF TakeManual, ManualToCode
  <2>3. CASE FinishManual
    BY <2>3 DEF FinishManual, ManualToCode
  <2>4. CASE Poll
    <3> HIDE DEF Poll
    <3>1. login' = login \/ Goes("failed")
            \/ Exchanges([code |-> "mine", state |-> "none"])
      BY <2>4 DEF Poll
    <3> QED
      BY <3>1
  <2>5. CASE Request
    <3>1. CASE login' = [login EXCEPT !.todo = Tail(@)]
      BY <3>1 DEF LoginRecord
    <3> QED
      BY <2>5, <3>1 DEF Request
  <2>6. CASE Granted
    <3> DEFINE token == issued[SavedAs[login.flow]] + 1
    <3>1. \/ login' = [login EXCEPT !.phase = "granted", !.token = token]
          \/ Goes("returned")
      BY <2>6 DEF Granted
    <3> HIDE DEF token
    <3> QED
      BY <3>1 DEF LoginRecord
  <2>7. CASE Save \/ Exit
    BY <2>7 DEF Save, Exit
  <2> QED
    BY <1>4, <2>1, <2>2, <2>3, <2>4, <2>5, <2>6, <2>7 DEF Proceeds
<1>5. CASE UNCHANGED vars
  BY <1>5 DEF vars, loginVars
<1> QED
  BY <1>1, <1>2, <1>3, <1>4, <1>5 DEF Next

\* The login is a record of its fields.
THEOREM LoginsAreRecords == Spec => []LoginRecord(login)
<1>1. Init => LoginRecord(login)
  BY DEF Init, LoginRecord
<1>2. LoginRecord(login) /\ [Next]_vars => LoginRecord(login)'
  BY RecordStep
<1> QED
  BY <1>1, <1>2, PTL DEF Spec

-----------------------------------------------------------------------------
(* A code of another login                                                 *)

\* What the server's steps do to the channel.
LEMMA ChannelStep ==
  ASSUME Whose, ServerNext
  PROVE  callback' \in {Unsent, NoCallback, "mine"}
<1>1. CASE Handle
  BY <1>1 DEF Handle, Succeeds, CodeOf, Whose, Unsent, NoCallback
<1> QED
  BY <1>1 DEF ServerNext, Accept, AcceptFails, HandleFails, Stop, Whose

\* The code of an answer that is usable is no other login's unless the answer
\* does not say so.
LEMMA ManualCode ==
  ASSUME LoginRecord(login), Whose, prompt # NoAnswer, ManualToCode(prompt),
         UNCHANGED prompt
  PROVE  /\ login'.code \in Codes /\ Acceptable(login'.code, prompt')
         /\ login'.phase # "cancelling"
<1> DEFINE code == [code |-> prompt.code, state |-> prompt.state]
<1>1. prompt \in [kind : {"error", "empty", "text"},
                  code : {"none", "mine", "other"},
                  state : {"none", "mine", "other"}]
  BY LoginAssumption DEF Whose
<1>2. CASE Usable(prompt)
  <2>1. code \in Codes /\ Acceptable(code, prompt)
    BY <1>1, <1>2 DEF Usable, Codes, Acceptable
  <2>2. Exchanges(code)
    BY <1>2 DEF ManualToCode
  <2> HIDE DEF code
  <2> QED
    BY <2>1, <2>2, ExchangesFields
<1>3. CASE ~Usable(prompt)
  BY <1>3, GoesFields DEF ManualToCode, Whose
<1> QED
  BY <1>2, <1>3

\* The channel's code is this login's.
LEMMA CallbackCode ==
  ASSUME LoginRecord(login), Whose, CallbackReady, CallbackToCode, UNCHANGED prompt
  PROVE  /\ login'.code \in Codes /\ Acceptable(login'.code, prompt')
         /\ login'.phase # "cancelling"
<1> DEFINE code == [code |-> callback, state |-> callback]
<1>1. CASE callback = NoCallback
  BY <1>1, GoesFields DEF CallbackToCode, Whose
<1>2. CASE callback # NoCallback
  <2>1. code \in Codes /\ Acceptable(code, prompt)
    BY <1>2 DEF Codes, Acceptable, CallbackReady, Whose, Unsent, NoCallback
  <2>2. Exchanges(code)
    BY <1>2 DEF CallbackToCode
  <2> HIDE DEF code
  <2> QED
    BY <2>1, <2>2, ExchangesFields
<1> QED
  BY <1>1, <1>2

\* Every step keeps the code of another login out.
LEMMA WhoseStep ==
  ASSUME LoginRecord(login), Whose, [Next]_vars
  PROVE  Whose'
<1> USE GoesFields, ExchangesFields, WaitsFields
<1>1. CASE Starts
  <2>1. CASE StartFails
    BY <2>1 DEF StartFails, Whose, serverVars
  <2>2. CASE AnthropicStarts \/ RadiusStarts
    <3>1. UNCHANGED <<callback, prompt>>
      BY <2>2 DEF AnthropicStarts, RadiusStarts, Binds, BindFails, Bound, serverVars
    <3>2. Goes("failed") \/ \E flow \in {"anthropic", "radius"} : Waits(flow, FALSE)
      BY <2>2 DEF AnthropicStarts, RadiusStarts, Binds, BindFails
    <3>3. ASSUME NEW flow, Waits(flow, FALSE) PROVE Whose'
      <4>1. login'.phase = "waiting" /\ login'.code = login.code
        BY <3>3
      <4> QED
        BY <3>1, <4>1 DEF Whose
    <3>4. CASE Goes("failed")
      BY <3>1, <3>4 DEF Whose
    <3> QED
      BY <3>2, <3>3, <3>4
  <2>3. CASE CodexStarts
    BY <2>3 DEF CodexStarts, Binds, Bound, Noop, Whose
  <2>4. CASE \E f \in Flows \cap Device : DeviceStarts(f)
    BY <2>4 DEF DeviceStarts, LoginRecord, Whose, serverVars
  <2> QED
    BY <1>1, <2>1, <2>2, <2>3, <2>4 DEF Starts
<1>2. CASE Answer
  BY <1>2 DEF Answer, Whose, serverVars, Acceptable
<1>3. CASE CancelWait
  <2>1. PICK input \in Inputs : input.kind # "error" /\ prompt' = input
    BY <1>3 DEF CancelWait
  <2>2. input # NoAnswer
    BY LoginAssumption DEF NoAnswer
  <2> QED
    BY <1>3, <2>1, <2>2 DEF CancelWait, Whose, Acceptable
<1>4. CASE CancelLogin
  BY <1>4 DEF CancelLogin, loginVars, serverVars, Whose
<1>5. CASE Server
  BY <1>5, ChannelStep DEF Server, loginVars, Whose
<1>6. CASE File
  BY <1>6 DEF File, loginVars, serverVars, Whose
<1>7. CASE Proceeds
  <2>1. CASE TakeCallback
    BY <2>1, CallbackCode DEF TakeCallback, Whose
  <2>2. CASE TakeManual
    <3>1. CASE prompt.kind \in {"empty", "error"}
      BY <2>2, <3>1 DEF TakeManual, Whose
    <3>2. CASE prompt.kind \notin {"empty", "error"}
      BY <2>2, <3>2, ManualCode DEF TakeManual, Whose
    <3> QED
      BY <3>1, <3>2
  <2>3. CASE FinishManual
    BY <2>3, ManualCode DEF FinishManual, Whose, serverVars
  <2>4. CASE Poll
    <3>1. login' = login \/ Goes("failed")
            \/ Exchanges([code |-> "mine", state |-> "none"])
      BY <2>4 DEF Poll
    <3>2. UNCHANGED <<callback, prompt>>
      BY <2>4 DEF Poll, serverVars
    <3>3. CASE Exchanges([code |-> "mine", state |-> "none"])
      BY <3>2, <3>3 DEF Whose, Codes, Acceptable
    <3> QED
      BY <3>1, <3>2, <3>3 DEF Whose
  <2>5. CASE Request
    <3>1. CASE login' = [login EXCEPT !.todo = Tail(@)]
      BY <2>5, <3>1 DEF Request, LoginRecord, Whose, serverVars
    <3> QED
      BY <2>5, <3>1 DEF Request, Whose, serverVars
  <2>6. CASE Granted
    <3> DEFINE token == issued[SavedAs[login.flow]] + 1
    <3>1. \/ login' = [login EXCEPT !.phase = "granted", !.token = token]
          \/ Goes("returned")
      BY <2>6 DEF Granted
    <3>2. UNCHANGED <<callback, prompt>>
      BY <2>6 DEF Granted, serverVars
    <3> HIDE DEF token
    <3>3. CASE login' = [login EXCEPT !.phase = "granted", !.token = token]
      <4>1. login'.phase = "granted" /\ login'.code = login.code
        BY <3>3 DEF LoginRecord
      <4> QED
        BY <3>2, <4>1 DEF Whose
    <3> QED
      BY <3>1, <3>2, <3>3 DEF Whose
  <2>7. CASE Save \/ Exit
    BY <2>7 DEF Save, Exit, Whose, serverVars
  <2> QED
    BY <1>7, <2>1, <2>2, <2>3, <2>4, <2>5, <2>6, <2>7 DEF Proceeds
<1>8. CASE UNCHANGED vars
  BY <1>8 DEF vars, loginVars, serverVars, Whose
<1> QED
  BY <1>1, <1>2, <1>3, <1>4, <1>5, <1>6, <1>7, <1>8 DEF Next

\* No code that was made for another login is exchanged with this one's verifier
\* unless the user pasted it without the state that tells so, whichever of the
\* callback and the prompt the login took its code from.
THEOREM OwnCodes == Spec => []CodeIsMine
<1>1. Init => Whose
  BY DEF Init, ServerInit, Whose, NoCode, Codes, Acceptable
<1>2. LoginRecord(login) /\ Whose /\ [Next]_vars => Whose'
  BY WhoseStep
<1>3. Whose => CodeIsMine
  BY DEF Whose, Acceptable, CodeIsMine
<1> QED
  BY <1>1, <1>2, <1>3, LoginsAreRecords, PTL DEF Spec

-----------------------------------------------------------------------------
(* The distance of the polls                                               *)

\* The greater and the smaller of two numbers.
LEMMA MaxOfTwo ==
  ASSUME NEW a \in Int, NEW b \in Int
  PROVE  Max({a, b}) \in {a, b} /\ Max({a, b}) >= a /\ Max({a, b}) >= b
<1>1. \E x \in {a, b} : \A y \in {a, b} : x >= y
  OBVIOUS
<1> QED
  BY <1>1, Zenon DEF Max

LEMMA MinOfTwo ==
  ASSUME NEW a \in Int, NEW b \in Int
  PROVE  Min({a, b}) \in {a, b} /\ Min({a, b}) <= a /\ Min({a, b}) <= b
<1>1. \E x \in {a, b} : \A y \in {a, b} : x <= y
  OBVIOUS
<1> QED
  BY <1>1, Zenon DEF Min

\* The poller waits at least as long as the provider asks for.
LEMMA IntervalWanted ==
  ASSUME NEW i \in Nat \cup {Absent}
  PROVE  IntervalOf(i) \in Nat /\ WantedOf(i) \in Nat /\ IntervalOf(i) >= WantedOf(i)
<1>1. CASE i = Absent
  BY <1>1 DEF IntervalOf, WantedOf, DefaultInterval
<1>2. CASE i # Absent
  BY <1>2, MaxOfTwo DEF IntervalOf, WantedOf, MinimumInterval, Absent
<1> QED
  BY <1>1, <1>2

\* A new poller, and one that has ended.
LEMMA NewPollTimed ==
  ASSUME NEW i \in Nat \cup {Absent}, NEW lifetime \in Nat, NEW waits \in BOOLEAN
  PROVE  NewPoll(i, lifetime, waits) \in Pollers /\ Timed(NewPoll(i, lifetime, waits))
  BY IntervalWanted DEF NewPoll, Pollers, Timed, Stages, Never

LEMMA EndedTimed ==
  ASSUME NEW stage \in {"off", "failed", "complete"}, PollEnds(stage)
  PROVE  poll' \in Pollers /\ Timed(poll')
<1>1. NoPoll \in Pollers /\ Timed(NoPoll) /\ NoPoll.interval >= NoPoll.asked
  BY DEF NoPoll, Pollers, Timed, Stages, Never
<1>2. poll' = [NoPoll EXCEPT !.stage = stage]
  BY DEF PollEnds
<1> QED
  BY <1>1, <1>2 DEF Pollers, Timed, Stages

\* A poller that sleeps is due a whole interval after it last asked, unless the
\* wait was cut at the end of the lifetime.
LEMMA SleptTimed ==
  ASSUME NEW p \in Pollers, Timed(p), Remaining(p) > 0,
         p.stage \in {"new", "wait"}, p.stage = "new" => p.waits
  PROVE  Slept(p) \in Pollers /\ Timed(Slept(p))
<1> DEFINE sleep == Min({p.interval, Remaining(p)})
           now == p.now + sleep
<1>1. /\ p.now \in Nat /\ p.deadline \in Nat /\ p.interval \in Nat /\ p.asked \in Nat
      /\ Remaining(p) = p.deadline - p.now
      /\ p.interval >= p.asked /\ p.last = p.now
  BY DEF Pollers, Timed, Remaining
<1>2. sleep \in Nat /\ (sleep = p.interval \/ sleep = Remaining(p))
  <2>1. p.interval \in Int /\ Remaining(p) \in Int /\ Remaining(p) > 0
    BY <1>1
  <2>2. sleep \in {p.interval, Remaining(p)}
    BY <2>1, MinOfTwo
  <2> QED
    BY <1>1, <2>1, <2>2
<1>3. now < p.deadline => now - p.last >= p.asked
  BY <1>1, <1>2
<1>4. now \in Nat
  BY <1>1, <1>2
<1>5. Slept(p) = [p EXCEPT !.stage = "due", !.now = now]
  BY DEF Slept
<1> HIDE DEF now
<1> QED
  BY <1>3, <1>4, <1>5 DEF Pollers, Timed, Stages

\* Every step of the poller keeps it timed.
LEMMA PollStepTimed ==
  ASSUME poll \in Pollers, Timed(poll),
         NEW slowDowns \in SUBSET (Nat \cup {Absent}), PollStep(slowDowns)
  PROVE  poll' \in Pollers /\ Timed(poll')
<1>1. CASE FirstWait
  <2>1. CASE ~poll.waits \/ Remaining(poll) <= 0
    <3>1. ~(poll.waits /\ Remaining(poll) > 0)
      BY <2>1 DEF Remaining, Pollers
    <3>2. poll' = [poll EXCEPT !.stage = "due"] /\ poll.stage = "new"
      BY <1>1, <2>1, <3>1 DEF FirstWait, Stage
    <3> QED
      BY <2>1, <3>2 DEF Pollers, Timed, Stages, Remaining
  <2>2. CASE poll.waits /\ Remaining(poll) > 0
    BY <1>1, <2>2, SleptTimed, EndedTimed
      DEF FirstWait, Remaining, Pollers, PollFails
  <2> QED
    BY <2>1, <2>2 DEF Pollers, Remaining
<1>2. CASE Ask
  <2>1. CASE ~InLifetime(poll) \/ poll.cancelled
    BY <1>2, <2>1, EndedTimed DEF Ask, PollFails
  <2>2. CASE InLifetime(poll) /\ ~poll.cancelled
    <3>1. poll' = [poll EXCEPT !.stage = "asked", !.last = poll.now]
      BY <1>2, <2>2 DEF Ask
    <3> QED
      BY <3>1 DEF Pollers, Timed, Stages
  <2> QED
    BY <2>1, <2>2
<1>3. CASE Wait
  <2>1. CASE poll.cancelled \/ Remaining(poll) <= 0
    BY <1>3, <2>1, EndedTimed DEF Wait, PollFails
  <2>2. CASE ~poll.cancelled /\ Remaining(poll) > 0
    BY <1>3, <2>2, SleptTimed DEF Wait, Remaining, Pollers
  <2> QED
    BY <2>1, <2>2 DEF Remaining, Pollers
<1>4. CASE Pending
  BY <1>4 DEF Pending, Stage, Pollers, Timed, Stages
<1>5. CASE Complete \/ Refuse
  BY <1>5, EndedTimed DEF Complete, Refuse, PollFails
<1>6. ASSUME NEW i \in slowDowns, SlowDown(i) PROVE poll' \in Pollers /\ Timed(poll')
  <2> DEFINE interval == SlowedDown(poll, i)
             asked == IF i > 0 THEN i ELSE poll.asked + SlowDownIncrement
  <2>1. interval \in Nat /\ asked \in Nat /\ interval >= asked
    BY IntervalWanted DEF SlowedDown, SlowDownIncrement, Pollers, Timed, WantedOf, Absent
  <2>2. /\ poll.stage = "asked"
        /\ poll' = [poll EXCEPT !.stage = "wait", !.interval = interval,
                                !.asked = asked]
    BY <1>6 DEF SlowDown
  <2> HIDE DEF interval, asked
  <2> QED
    BY <2>1, <2>2 DEF Pollers, Timed, Stages
<1> QED
  BY <1>1, <1>2, <1>3, <1>4, <1>5, <1>6 DEF PollStep

\* What the providers of the device logins say.
LEMMA DeviceNumbers ==
  ASSUME NEW flow \in Device
  PROVE  /\ \A d \in DeviceOf[flow] :
              d.interval \in Nat \cup {Absent} /\ d.lifetime \in Nat
         /\ SlowDownsOf[flow] \in SUBSET (Nat \cup {Absent})
<1>1. /\ \A d \in CopilotDevice \cup CodexDevice \cup XaiDevice \cup RadiusDevice :
            d.interval \in Nat \cup {Absent} /\ d.lifetime \in Nat
      /\ CopilotSlowDowns \cup XaiSlowDowns \cup CodexSlowDowns \cup RadiusSlowDowns
           \subseteq Nat \cup {Absent}
  BY DevicePollAssumption
    DEF CopilotDevice, CodexDevice, XaiDevice, RadiusDevice,
        CopilotSlowDowns, XaiSlowDowns, CodexSlowDowns, RadiusSlowDowns
<1>2. /\ DeviceOf[flow] \in {CopilotDevice, CodexDevice, XaiDevice, RadiusDevice}
      /\ SlowDownsOf[flow] \in
           {CopilotSlowDowns, XaiSlowDowns, CodexSlowDowns, RadiusSlowDowns}
  BY DEF Device, DeviceOf, SlowDownsOf
<1> QED
  BY <1>1, <1>2

\* A step of the rest leaves the poller alone, and begins no polling.
LEMMA RestOfPoll ==
  ASSUME LoginRecord(login), Spaced, [Next]_vars,
         ~ \E f \in Flows \cap Device : DeviceStarts(f), ~Poll, ~CancelLogin
  PROVE  /\ poll' = poll
         /\ login'.flow \in Device \cup Asks \cup {"radius", "none"}
         /\ login'.phase = "polling" => login'.flow \in Device
<1> USE GoesFields, ExchangesFields, WaitsFields DEF Spaced
<1>1. CASE Starts
  <2>1. CASE StartFails
    BY <2>1 DEF StartFails
  <2>2. CASE AnthropicStarts \/ CodexStarts \/ RadiusStarts
    <3>1. poll' = poll
      BY <2>2 DEF AnthropicStarts, CodexStarts, RadiusStarts
    <3>2. Goes("failed") \/ \E flow \in Asks \cup {"radius"}, busy \in BOOLEAN :
                              Waits(flow, busy)
      BY <2>2 DEF AnthropicStarts, CodexStarts, RadiusStarts, Binds, BindFails, Asks
    <3>3. ASSUME NEW flow \in Asks \cup {"radius"}, NEW busy, Waits(flow, busy)
          PROVE  login'.flow = flow /\ login'.phase = "waiting"
      BY <3>3
    <3> QED
      BY <3>1, <3>2, <3>3
  <2> QED
    BY <1>1, <2>1, <2>2 DEF Starts
<1>2. CASE Answer \/ CancelWait
  BY <1>2 DEF Answer, CancelWait
<1>3. CASE Server \/ File
  BY <1>3 DEF Server, File, loginVars
<1>4. CASE Proceeds
  <2>1. CASE TakeCallback
    BY <2>1 DEF TakeCallback, CallbackToCode
  <2>2. CASE TakeManual
    BY <2>2 DEF TakeManual, ManualToCode
  <2>3. CASE FinishManual
    BY <2>3 DEF FinishManual, ManualToCode
  <2>4. CASE Request
    <3>1. CASE login' = [login EXCEPT !.todo = Tail(@)]
      BY <2>4, <3>1 DEF Request, LoginRecord
    <3> QED
      BY <2>4, <3>1 DEF Request
  <2>5. CASE Granted
    <3> DEFINE token == issued[SavedAs[login.flow]] + 1
    <3>1. \/ login' = [login EXCEPT !.phase = "granted", !.token = token]
          \/ Goes("returned")
      BY <2>5 DEF Granted
    <3>2. poll' = poll
      BY <2>5 DEF Granted
    <3> HIDE DEF token
    <3>3. login'.flow = login.flow /\ login'.phase \in {"granted", "returned"}
      BY <3>1 DEF LoginRecord
    <3> QED
      BY <3>2, <3>3
  <2>6. CASE Save \/ Exit
    BY <2>6 DEF Save, Exit
  <2> QED
    BY <1>4, <2>1, <2>2, <2>3, <2>4, <2>5, <2>6 DEF Proceeds
<1>5. CASE UNCHANGED vars
  BY <1>5 DEF vars, loginVars
<1> QED
  BY <1>1, <1>2, <1>3, <1>4, <1>5 DEF Next

\* Every step keeps the polls apart, and a poll that is due is only made an
\* interval after the last, within the lifetime of the code, and uncancelled.
LEMMA SpacedStep ==
  ASSUME LoginRecord(login), Spaced, [Next]_vars
  PROVE  /\ Spaced'
         /\ poll.stage = "due" /\ poll'.stage = "asked" =>
              /\ poll.last # Never => poll.now - poll.last >= poll.asked
              /\ poll.now < poll.deadline /\ ~poll.cancelled
<1>1. ASSUME NEW flow \in Flows \cap Device, DeviceStarts(flow)
      PROVE  Spaced' /\ poll'.stage # "asked"
  <2>1. PICK d \in DeviceOf[flow] :
               poll' = NewPoll(d.interval, d.lifetime, flow \in WaitsFirst)
    BY <1>1 DEF DeviceStarts
  <2>2. /\ d.interval \in Nat \cup {Absent} /\ d.lifetime \in Nat
        /\ (flow \in WaitsFirst) \in BOOLEAN
    BY DeviceNumbers
  <2>3. poll' \in Pollers /\ Timed(poll')
    BY <2>1, <2>2, NewPollTimed
  <2>4. poll'.stage = "new"
    BY <2>1 DEF NewPoll
  <2>5. login'.flow = flow
    BY <1>1 DEF DeviceStarts, LoginRecord
  <2> QED
    BY <2>3, <2>4, <2>5 DEF Spaced
<1>2. CASE Poll
  <2>1. login.flow \in Device /\ PollStep(SlowDownsOf[login.flow])
    BY <1>2 DEF Poll, Spaced
  <2>2. poll' \in Pollers /\ Timed(poll')
    BY <2>1, DeviceNumbers, PollStepTimed DEF Spaced
  <2>3. login'.flow = login.flow
    <3>1. login' = login \/ Goes("failed")
            \/ Exchanges([code |-> "mine", state |-> "none"])
      BY <1>2 DEF Poll
    <3> QED
      BY <3>1, GoesFields, ExchangesFields
  <2>4. Spaced'
    BY <2>1, <2>2, <2>3 DEF Spaced
  <2>5. ASSUME poll.stage = "due", poll'.stage = "asked"
        PROVE  /\ poll.last # Never => poll.now - poll.last >= poll.asked
               /\ poll.now < poll.deadline /\ ~poll.cancelled
    <3>1. Ask
      BY <2>1, <2>5 DEF PollStep, FirstWait, Wait, Pending, Complete, Refuse, SlowDown
    <3>2. InLifetime(poll) /\ ~poll.cancelled
      BY <2>5, <3>1 DEF Ask, PollFails, PollEnds, NoPoll
    <3>3. poll.now < poll.deadline
      BY <3>2 DEF InLifetime, Remaining, Spaced, Pollers
    <3> QED
      BY <2>5, <3>2, <3>3 DEF Spaced, Timed
  <2> QED
    BY <2>4, <2>5
<1>3. CASE CancelLogin
  <2>1. poll' = [poll EXCEPT !.cancelled = TRUE] /\ login' = login
    BY <1>3 DEF CancelLogin, Cancel, loginVars
  <2>2. poll' \in Pollers /\ Timed(poll') /\ poll'.stage = poll.stage
    BY <2>1 DEF Spaced, Pollers, Timed
  <2> QED
    BY <2>1, <2>2 DEF Spaced
<1> QED
  BY <1>1, <1>2, <1>3, RestOfPoll DEF Spaced

\* A device login asks its provider no sooner than the provider wants, counted
\* from the last time or, where it waits first, from the beginning, and not once
\* the code has expired or the login was given up, whatever the interval, the
\* lifetime and the slow-downs of the provider.
THEOREM PollsApart == Spec => PollsSpaced
<1>1. Init => Spaced
  <2>1. NoPoll \in Pollers /\ Timed(NoPoll)
    BY DEF NoPoll, Pollers, Timed, Stages, Never
  <2> QED
    BY <2>1 DEF Init, Spaced
<1>2. LoginRecord(login) /\ Spaced /\ [Next]_vars => Spaced'
  BY SpacedStep
<1>3. LoginRecord(login) /\ Spaced /\ [Next]_vars =>
        [poll.stage = "due" /\ poll'.stage = "asked" =>
           /\ poll.last # Never => poll.now - poll.last >= poll.asked
           /\ poll.now < poll.deadline /\ ~poll.cancelled]_vars
  BY SpacedStep
<1> QED
  BY <1>1, <1>2, <1>3, LoginsAreRecords, PTL DEF Spec, PollsSpaced

-----------------------------------------------------------------------------
(* The file                                                                *)

\* What a step that is not one of the file's may do to the login.
Aside ==
  /\ UNCHANGED fileVars
  /\ login'.phase = "granted" =>
       /\ login.phase = "granted" /\ login'.flow = login.flow
       /\ login'.token = login.token
  /\ login.phase = "saved" =>
       login'.phase = "saved" \/ tasks[LoginTask].stage = "idle"

\* A step grants the login its token, saves it, is the file's, or leaves the file
\* alone.
LEMMA FileSteps ==
  ASSUME LoginRecord(login), [Next]_vars, ~Granted, ~Save, ~File
  PROVE  Aside
<1> USE GoesFields, ExchangesFields, WaitsFields DEF Aside
<1>1. CASE Starts
  <2>1. CASE StartFails
    BY <2>1 DEF StartFails
  <2>2. CASE AnthropicStarts \/ CodexStarts \/ RadiusStarts
    <3>1. UNCHANGED fileVars /\ login.phase = "idle"
      BY <2>2 DEF AnthropicStarts, CodexStarts, RadiusStarts
    <3>2. Goes("failed") \/ \E flow, busy : Waits(flow, busy)
      BY <2>2 DEF AnthropicStarts, CodexStarts, RadiusStarts, Binds, BindFails
    <3>3. ASSUME NEW flow, NEW busy, Waits(flow, busy)
          PROVE  login'.phase = "waiting"
      BY <3>3
    <3> QED
      BY <3>1, <3>2, <3>3
  <2>3. CASE \E f \in Flows \cap Device : DeviceStarts(f)
    <3>1. UNCHANGED fileVars /\ login.phase = "idle" /\ login'.phase = "polling"
      BY <2>3 DEF DeviceStarts, LoginRecord
    <3> QED
      BY <3>1
  <2> QED
    BY <1>1, <2>1, <2>2, <2>3 DEF Starts
<1>2. CASE Answer \/ CancelWait \/ CancelLogin
  BY <1>2 DEF Answer, CancelWait, CancelLogin, loginVars
<1>3. CASE Server
  BY <1>3 DEF Server, loginVars
<1>4. CASE Proceeds
  <2>1. CASE TakeCallback
    BY <2>1 DEF TakeCallback, CallbackToCode
  <2>2. CASE TakeManual
    BY <2>2 DEF TakeManual, ManualToCode
  <2>3. CASE FinishManual
    BY <2>3 DEF FinishManual, ManualToCode
  <2>4. CASE Poll
    <3>1. login' = login \/ Goes("failed")
            \/ Exchanges([code |-> "mine", state |-> "none"])
      BY <2>4 DEF Poll
    <3>2. UNCHANGED fileVars /\ login.phase = "polling"
      BY <2>4 DEF Poll
    <3> QED
      BY <3>1, <3>2
  <2>5. CASE Request
    <3>1. CASE login' = [login EXCEPT !.todo = Tail(@)]
      BY <2>5, <3>1 DEF Request, LoginRecord
    <3> QED
      BY <2>5, <3>1 DEF Request
  <2>6. CASE Exit
    BY <2>6 DEF Exit
  <2> QED
    BY <1>4, <2>1, <2>2, <2>3, <2>4, <2>5, <2>6 DEF Proceeds
<1>5. CASE UNCHANGED vars
  BY <1>5 DEF vars, loginVars
<1> QED
  BY <1>1, <1>2, <1>3, <1>4, <1>5 DEF Next

\* Such a step keeps what is known of the file.
LEMMA AsideKeeps ==
  ASSUME FileInv, Aside
  PROVE  FileInv'
<1> USE DEF FileInv, Aside, fileVars
<1>1. FileTyped'
  BY DEF FileTyped
<1>2. Numbered'
  BY DEF Numbered
<1>3. Fresh'
  BY DEF Fresh, Saves, Own, Unseen
<1>4. FileVersions'
  BY DEF FileVersions
<1>5. Kept'
  BY DEF Kept, Clean, NoWriter, Writer, Copied, Replaced, Saves
<1> QED
  BY <1>1, <1>2, <1>3, <1>4, <1>5

\* One task's copy changes.
LEMMA OneCopy ==
  ASSUME FileTyped, NEW t \in Tasks, NEW copy \in Copies,
         tasks' = [tasks EXCEPT ![t] = copy]
  PROVE  /\ tasks' \in [Tasks -> Copies] /\ tasks'[t] = copy
         /\ \A u \in Tasks \ {t} : tasks'[u] = tasks[u]
  BY DEF FileTyped

\* A task without a copy, and a file without a token.
LEMMA Empty ==
  /\ NoEntries \in FileTokens /\ \A q \in Providers : NoEntries[q] = 0
  /\ Idle \in Copies /\ Idle.stage = "idle" /\ Idle.storage = NoEntries
  /\ Idle.seen = 0
<1>1. NoEntries \in FileTokens /\ \A q \in Providers : NoEntries[q] = 0
  BY DEF NoEntries, NoToken, FileTokens
<1> QED
  BY <1>1 DEF Idle, Copies

\* What is read of the file.
LEMMA Reads ==
  ASSUME FileTyped
  PROVE  Storage \in FileTokens /\ (Storage = file.entries \/ Storage = NoEntries)
  BY Empty DEF FileTyped, Storage

\* The initial file.
LEMMA FileBegins ==
  ASSUME Init
  PROVE  FileInv
<1> USE DEF Init, FileInit
<1>1. FileTyped
  <2>1. acked \in FileTokens /\ issued \in FileTokens
    BY DEF FileTokens, NoToken
  <2>2. file \in [text : {"whole", "empty", "garbled"}, entries : FileTokens,
                  version : Nat]
    BY <2>1
  <2>3. tasks \in [Tasks -> Copies] /\ \A t \in Tasks : tasks[t].stage = "idle"
    BY Empty
  <2>4. tasks[LoginTask].stage = "idle" /\ login.phase = "idle"
    BY <2>3 DEF Tasks
  <2> QED
    BY <2>1, <2>2, <2>3, <2>4 DEF FileTyped
<1>2. Numbered
  BY Empty DEF Numbered, NoToken
<1>3. Fresh /\ FileVersions
  BY Empty DEF Fresh, FileVersions, Saves
<1>4. Kept
  BY Empty DEF Kept, Clean, NoWriter, Writer, Replaced
<1> QED
  BY <1>1, <1>2, <1>3, <1>4 DEF FileInv

\* A resolution that finds an expired token takes a copy of the file.
LEMMA ResolveKeeps ==
  ASSUME FileInv, login' = login, NEW t \in Apps, NEW q \in Providers, Resolve(t, q)
  PROVE  FileInv'
<1> USE DEF FileInv, Resolve
<1> DEFINE copy == IF Storage[q] # NoToken /\ Expired(q, Storage[q])
                   THEN [stage |-> "refreshing", provider |-> q, storage |-> Storage,
                         seen |-> file.version]
                   ELSE Idle
<1>1. copy \in Copies /\ copy.stage \in {"idle", "refreshing"}
      /\ (copy.stage # "idle" => /\ copy.provider = q /\ copy.storage = Storage
                                 /\ copy.seen = file.version)
      /\ (copy.storage = Storage \/ copy.storage = NoEntries)
      /\ copy.seen <= file.version
  <2>1. CASE copy = Idle
    BY <2>1, Empty DEF FileTyped
  <2>2. CASE copy = [stage |-> "refreshing", provider |-> q, storage |-> Storage,
                     seen |-> file.version]
    BY <2>2, Reads DEF Copies, FileTyped
  <2> QED
    BY <2>1, <2>2
<1>2. t \in Tasks /\ t # LoginTask /\ LoginTask \in Tasks
  BY CredentialFileAssumption DEF Tasks
<1> HIDE DEF copy
<1>3. tasks' = [tasks EXCEPT ![t] = copy] /\ tasks[t].stage = "idle"
  BY DEF copy
<1>4. /\ tasks' \in [Tasks -> Copies] /\ tasks'[t] = copy
      /\ \A u \in Tasks \ {t} : tasks'[u] = tasks[u]
  BY <1>1, <1>2, <1>3, OneCopy
<1>5. UNCHANGED <<file, issued, spent, acked, stale, login>>
  OBVIOUS
<1> HIDE DEF Resolve
<1>6. FileTyped'
  BY <1>1, <1>2, <1>4, <1>5 DEF FileTyped
<1>7. \A p \in Providers : copy.storage[p] = 0 \/ copy.storage[p] = file.entries[p]
  BY <1>1, Reads, Empty
<1>8. Numbered'
  BY <1>4, <1>5, <1>7 DEF Numbered, FileTyped, FileTokens
<1>9. Fresh'
  <2>1. ASSUME NEW p \in Providers, NEW token \in Nat, NEW holders, t \notin holders,
               Unseen(p, token, holders)
        PROVE  Unseen(p, token, holders)'
    BY <1>4, <1>5, <1>7, <2>1 DEF Unseen
  <2>2. ASSUME NEW u \in Tasks, Saves(u)'
        PROVE  Unseen(tasks[u].provider, Own(u), {u})'
    <3>1. u # t /\ Saves(u) /\ tasks'[u] = tasks[u]
      BY <1>1, <1>4, <2>2 DEF Saves
    <3>2. tasks[u].provider \in Providers /\ Own(u) \in Nat
      BY <3>1 DEF Saves, FileTyped, Own, Copies, FileTokens
    <3>3. Unseen(tasks[u].provider, Own(u), {u})
      BY <3>1 DEF Fresh
    <3> QED
      BY <2>1, <3>1, <3>2, <3>3 DEF Own
  <2>3. login.phase = "granted" => Unseen(SavedAs[login.flow], login.token, {})'
    BY <2>1 DEF Fresh, FileTyped
  <2> QED
    BY <1>5, <2>2, <2>3 DEF Fresh
<1>10. FileVersions'
  BY <1>1, <1>4, <1>5 DEF FileVersions
<1>11. Kept'
  <2>1. Clean' => Clean
    BY <1>2, <1>3, <1>4, <1>5 DEF Clean
  <2>2. NoWriter' => NoWriter
    BY <1>2, <1>3, <1>4 DEF NoWriter, Writer
  <2>3. ASSUME Clean', NoWriter'
        PROVE  /\ file'.text = "whole" /\ file'.entries = acked'
               /\ \A u \in Tasks : tasks'[u].seen = file'.version =>
                    /\ tasks'[u].stage = "refreshing" => tasks'[u].storage = acked'
                    /\ tasks'[u].stage = "saving" => Copied(u)'
    <3>1. file.text = "whole" /\ file.entries = acked
      BY <2>1, <2>2, <2>3 DEF Kept
    <3>2. Storage = acked
      BY <3>1 DEF Storage
    <3>3. ASSUME NEW u \in Tasks, tasks'[u].seen = file'.version
          PROVE  /\ tasks'[u].stage = "refreshing" => tasks'[u].storage = acked'
                 /\ tasks'[u].stage = "saving" => Copied(u)'
      <4>1. CASE u = t
        BY <1>1, <1>4, <1>5, <3>2, <4>1
      <4>2. CASE u # t
        BY <1>4, <1>5, <2>1, <2>2, <2>3, <3>3, <4>2 DEF Kept, Copied
      <4> QED
        BY <4>1, <4>2
    <3> QED
      BY <1>5, <3>1, <3>3
  <2>4. ASSUME Clean', NEW u \in Tasks, Writer(u)'
        PROVE  file'.text = "empty" /\ Copied(u)'
    <3>1. u # t /\ Writer(u) /\ tasks'[u] = tasks[u]
      BY <1>1, <1>4, <2>4 DEF Writer
    <3> QED
      BY <1>5, <2>1, <2>4, <3>1 DEF Kept, Copied
  <2>5. ASSUME Clean', NEW p \in Providers,
               \A u \in Tasks : Writer(u)' => tasks'[u].provider # p
        PROVE  Replaced(p)'
    <3>1. \A u \in Tasks : Writer(u) => tasks[u].provider # p
      BY <1>3, <1>4, <2>5 DEF Writer
    <3>2. Replaced(p)
      BY <2>1, <2>5, <3>1 DEF Kept
    <3>3. \A u \in Apps : Saves(u) => u # t /\ tasks'[u] = tasks[u]
      BY <1>3, <1>4 DEF Saves, Tasks
    <3> QED
      BY <1>5, <3>2, <3>3 DEF Replaced, Saves
  <2> QED
    BY <2>3, <2>4, <2>5 DEF Kept
<1> QED
  BY <1>6, <1>8, <1>9, <1>10, <1>11

\* A task gives up what it was doing.  What it was going to save is lost, if it
\* had something to save, and the file is no longer clean.
LEMMA GivesUpKeeps ==
  ASSUME FileInv, login' = login, NEW t \in Tasks, tasks' = [tasks EXCEPT ![t] = Idle],
         UNCHANGED <<file, acked, issued, spent>>,
         \/ tasks[t].stage = "refreshing" /\ stale' = stale
         \/ stale' = TRUE
  PROVE  FileInv'
<1> USE DEF FileInv
<1>1. /\ tasks' \in [Tasks -> Copies] /\ tasks'[t] = Idle
      /\ \A u \in Tasks \ {t} : tasks'[u] = tasks[u]
  BY OneCopy, Empty
<1>2. FileTyped'
  <2>1. stale' \in BOOLEAN
    BY DEF FileTyped
  <2>2. \A u \in Tasks : tasks'[u].stage # "idle" => tasks'[u] = tasks[u]
    BY <1>1, Empty
  <2>3. LoginTask \in Tasks
    BY DEF Tasks
  <2> QED
    BY <1>1, <2>1, <2>2, <2>3 DEF FileTyped
<1>3. Numbered'
  BY <1>1, Empty DEF Numbered, FileTyped, FileTokens
<1>4. Fresh'
  <2>1. ASSUME NEW p \in Providers, NEW token \in Nat, NEW holders,
               Unseen(p, token, holders)
        PROVE  Unseen(p, token, holders)'
    BY <1>1, <2>1, Empty DEF Unseen
  <2>2. ASSUME NEW u \in Tasks, Saves(u)'
        PROVE  Unseen(tasks[u].provider, Own(u), {u})'
    <3>1. u # t /\ Saves(u) /\ tasks'[u] = tasks[u]
      BY <1>1, <2>2, Empty DEF Saves
    <3>2. tasks[u].provider \in Providers /\ Own(u) \in Nat
      BY <3>1 DEF Saves, FileTyped, Own, Copies, FileTokens
    <3>3. Unseen(tasks[u].provider, Own(u), {u})
      BY <3>1 DEF Fresh
    <3> QED
      BY <2>1, <3>1, <3>2, <3>3 DEF Own
  <2>3. login.phase = "granted" => Unseen(SavedAs[login.flow], login.token, {})'
    BY <2>1 DEF Fresh, FileTyped
  <2> QED
    BY <2>2, <2>3 DEF Fresh
<1>5. FileVersions'
  BY <1>1, Empty DEF FileVersions, FileTyped
<1>6. CASE stale' = TRUE
  BY <1>2, <1>3, <1>4, <1>5, <1>6 DEF Kept, Clean
<1>7. CASE tasks[t].stage = "refreshing" /\ stale' = stale
  <2>1. Clean' => Clean
    BY <1>1, <1>7 DEF Clean
  <2>2. \A u \in Tasks : Writer(u)' <=> Writer(u)
    BY <1>1, <1>7, Empty DEF Writer
  <2>3. ASSUME Clean', NoWriter', NEW u \in Tasks, tasks'[u].seen = file'.version
        PROVE  /\ tasks'[u].stage = "refreshing" => tasks'[u].storage = acked'
               /\ tasks'[u].stage = "saving" => Copied(u)'
    <3>1. CASE u = t
      BY <1>1, <3>1, Empty
    <3>2. CASE u # t
      BY <1>1, <2>1, <2>2, <2>3, <3>2 DEF Kept, NoWriter, Copied
    <3> QED
      BY <3>1, <3>2
  <2>4. ASSUME Clean', NoWriter' PROVE file'.text = "whole" /\ file'.entries = acked'
    BY <2>1, <2>2, <2>4 DEF Kept, NoWriter
  <2>5. ASSUME Clean', NEW u \in Tasks, Writer(u)'
        PROVE  file'.text = "empty" /\ Copied(u)'
    <3>1. u # t /\ Writer(u) /\ tasks'[u] = tasks[u]
      BY <1>1, <2>5, Empty DEF Writer
    <3> QED
      BY <2>1, <2>5, <3>1 DEF Kept, Copied
  <2>6. ASSUME Clean', NEW p \in Providers,
               \A u \in Tasks : Writer(u)' => tasks'[u].provider # p
        PROVE  Replaced(p)'
    <3>1. \A u \in Tasks : Writer(u) => tasks[u].provider # p
      BY <1>1, <1>7, <2>6 DEF Writer
    <3>2. Replaced(p)
      BY <2>1, <2>6, <3>1 DEF Kept
    <3>3. \A u \in Apps : Saves(u) => u # t /\ tasks'[u] = tasks[u]
      BY <1>1, <1>7 DEF Saves, Tasks
    <3> QED
      BY <3>2, <3>3 DEF Replaced, Saves
  <2>7. Kept'
    BY <2>3, <2>4, <2>5, <2>6 DEF Kept
  <2> QED
    BY <1>2, <1>3, <1>4, <1>5, <2>7
<1> QED
  BY <1>6, <1>7

\* The provider issues one more token, and may take back one that no holder has.
LEMMA IssueKeeps ==
  ASSUME FileInv, NEW q \in Providers, NEW used \in Nat, Issue(q, used),
         used <= issued[q]
  PROVE  /\ issued' \in FileTokens /\ issued'[q] = issued[q] + 1
         /\ \A p \in Providers : issued'[p] >= issued[p]
         /\ \A p \in Providers : \A n \in Nat : <<p, n>> \in spent' =>
              n <= issued[p] /\ (<<p, n>> \in spent \/ (p = q /\ n = used))
<1>1. issued' \in FileTokens /\ issued'[q] = issued[q] + 1
      /\ \A p \in Providers : issued'[p] >= issued[p]
  BY DEF Issue, FileInv, FileTyped, FileTokens
<1>2. \A p \in Providers : \A n \in Nat : <<p, n>> \in spent' =>
        <<p, n>> \in spent \/ (p = q /\ n = used)
  BY DEF Issue
<1>3. \A p \in Providers : \A n \in Nat : <<p, n>> \in spent' => n <= issued[p]
  BY <1>2 DEF FileInv, Numbered
<1> QED
  BY <1>1, <1>2, <1>3

\* The answer to a refresh is lost: a token was issued that nobody has.
LEMMA RefreshLostKeeps ==
  ASSUME FileInv, login' = login, NEW t \in Apps, RefreshLost(t)
  PROVE  FileInv'
<1> DEFINE q == tasks[t].provider
           used == tasks[t].storage[q]
<1> USE DEF FileInv
<1>1. t \in Tasks /\ q \in Providers /\ used \in Nat /\ used <= issued[q]
  BY DEF RefreshLost, FileTyped, Tasks, Copies, FileTokens, Numbered
<1>2. /\ tasks[t].stage = "refreshing" /\ Issue(q, used)
      /\ tasks' = [tasks EXCEPT ![t] = Idle] /\ stale' = TRUE
      /\ UNCHANGED <<file, acked>>
  BY DEF RefreshLost
<1>3. /\ tasks' \in [Tasks -> Copies] /\ tasks'[t] = Idle
      /\ \A u \in Tasks \ {t} : tasks'[u] = tasks[u]
  BY <1>1, <1>2, OneCopy, Empty
<1> HIDE DEF q, used
<1>4. /\ issued' \in FileTokens /\ issued'[q] = issued[q] + 1
      /\ \A p \in Providers : issued'[p] >= issued[p]
      /\ \A p \in Providers : \A n \in Nat : <<p, n>> \in spent' =>
           n <= issued[p] /\ (<<p, n>> \in spent \/ (p = q /\ n = used))
  BY <1>1, <1>2, IssueKeeps
<1>5. FileTyped'
  BY <1>2, <1>3, <1>4, Empty DEF FileTyped
<1>6. Numbered'
  <2>1. \A p \in Providers : issued[p] \in Nat /\ issued'[p] \in Nat
             /\ file.entries[p] \in Nat
             /\ \A u \in Tasks : tasks[u].storage[p] \in Nat
    BY <1>4 DEF FileTyped, FileTokens, Copies
  <2> QED
    BY <1>2, <1>3, <1>4, <2>1, Empty DEF Numbered
<1>7. Fresh'
  <2>1. ASSUME NEW p \in Providers, NEW token \in Nat, NEW holders, t \notin holders,
               Unseen(p, token, holders)
        PROVE  Unseen(p, token, holders)'
    <3>1. <<p, token>> \notin spent'
      BY <1>1, <1>4, <2>1 DEF Unseen, used
    <3>2. token <= issued'[p]
      BY <1>4, <2>1 DEF Unseen, FileTyped, FileTokens
    <3> QED
      BY <1>2, <1>3, <2>1, <3>1, <3>2, Empty DEF Unseen
  <2>2. ASSUME NEW u \in Tasks, Saves(u)'
        PROVE  Unseen(tasks[u].provider, Own(u), {u})'
    <3>1. u # t /\ Saves(u) /\ tasks'[u] = tasks[u]
      BY <1>3, <2>2, Empty DEF Saves
    <3>2. tasks[u].provider \in Providers /\ Own(u) \in Nat
      BY <3>1 DEF Saves, FileTyped, Own, Copies, FileTokens
    <3>3. Unseen(tasks[u].provider, Own(u), {u})
      BY <3>1 DEF Fresh
    <3> QED
      BY <2>1, <3>1, <3>2, <3>3 DEF Own
  <2>3. login.phase = "granted" => Unseen(SavedAs[login.flow], login.token, {})'
    BY <2>1 DEF Fresh, FileTyped
  <2> QED
    BY <2>2, <2>3 DEF Fresh
<1>8. FileVersions'
  BY <1>2, <1>3, Empty DEF FileVersions, FileTyped
<1> QED
  BY <1>2, <1>5, <1>6, <1>7, <1>8 DEF Kept, Clean

\* A refresh: the application holds the new token, and the one it used is spent
\* where the provider rotates them.
LEMMA RefreshedKeeps ==
  ASSUME FileInv, login' = login, NEW t \in Apps, Refreshed(t)
  PROVE  FileInv'
<1> DEFINE q == tasks[t].provider
           used == tasks[t].storage[q]
           copy == [tasks[t] EXCEPT !.stage = "saving", !.storage[q] = issued[q] + 1]
<1> USE DEF FileInv
<1>1. /\ t \in Tasks /\ t # LoginTask /\ LoginTask \in Tasks
      /\ q \in Providers /\ used \in Nat /\ used <= issued[q]
      /\ tasks[t] \in Copies
  BY CredentialFileAssumption
    DEF Refreshed, FileTyped, Tasks, Copies, FileTokens, Numbered
<1>2. /\ tasks[t].stage = "refreshing" /\ Issue(q, used)
      /\ tasks' = [tasks EXCEPT ![t] = copy]
      /\ UNCHANGED <<file, acked, stale>>
  BY <1>1 DEF Refreshed, FileTyped
<1>3. /\ copy \in Copies /\ copy.stage = "saving" /\ copy.provider = q
      /\ copy.seen = tasks[t].seen /\ copy.storage[q] = issued[q] + 1
      /\ \A p \in Providers \ {q} : copy.storage[p] = tasks[t].storage[p]
  <2> DEFINE inFile == [tasks[t].storage EXCEPT ![q] = issued[q] + 1]
  <2>1. copy = [tasks[t] EXCEPT !.stage = "saving", !.storage = inFile]
    BY <1>1 DEF Copies
  <2>2. /\ inFile \in FileTokens /\ inFile[q] = issued[q] + 1
        /\ \A p \in Providers \ {q} : inFile[p] = tasks[t].storage[p]
    BY <1>1 DEF Copies, FileTyped, FileTokens
  <2> HIDE DEF copy, inFile
  <2>3. copy \in Copies
    BY <1>1, <2>1, <2>2 DEF Copies
  <2>4. /\ copy.stage = "saving" /\ copy.provider = q
        /\ copy.seen = tasks[t].seen /\ copy.storage = inFile
    BY <1>1, <2>1 DEF Copies
  <2> QED
    BY <2>2, <2>3, <2>4
<1> HIDE DEF copy
<1>4. /\ tasks' \in [Tasks -> Copies] /\ tasks'[t] = copy
      /\ \A u \in Tasks \ {t} : tasks'[u] = tasks[u]
  BY <1>1, <1>2, <1>3, OneCopy
<1>5. q = tasks[t].provider /\ used = tasks[t].storage[q]
  OBVIOUS
<1> HIDE DEF q, used
<1>6. /\ issued' \in FileTokens /\ issued'[q] = issued[q] + 1
      /\ \A p \in Providers : issued'[p] >= issued[p]
      /\ \A p \in Providers : \A n \in Nat : <<p, n>> \in spent' =>
           n <= issued[p] /\ (<<p, n>> \in spent \/ (p = q /\ n = used))
  BY <1>1, <1>2, IssueKeeps
<1>7. FileTyped'
  BY <1>1, <1>2, <1>3, <1>4, <1>6 DEF FileTyped
<1>8. \A p \in Providers : /\ issued[p] \in Nat /\ issued'[p] \in Nat
                           /\ file.entries[p] \in Nat /\ file.entries[p] <= issued[p]
                           /\ \A u \in Tasks : tasks[u].storage[p] \in Nat
                                /\ tasks[u].storage[p] <= issued[p]
  BY <1>6 DEF FileTyped, FileTokens, Copies, Numbered
<1>9. Numbered'
  <2>1. \A p \in Providers : copy.storage[p] <= issued'[p]
    BY <1>1, <1>3, <1>6, <1>8
  <2>2. \A u \in Tasks, p \in Providers : tasks'[u].storage[p] <= issued'[p]
    BY <1>4, <1>6, <1>8, <2>1
  <2> QED
    BY <1>2, <1>6, <1>8, <2>2 DEF Numbered
<1>10. Fresh'
  <2>1. ASSUME NEW p \in Providers, NEW token \in Nat, NEW holders, t \notin holders,
               Unseen(p, token, holders)
        PROVE  Unseen(p, token, holders)'
    <3>1. tasks[t].storage[p] # token /\ token <= issued[p]
      BY <1>1, <2>1 DEF Unseen
    <3>2. <<p, token>> \notin spent'
      BY <1>5, <1>6, <2>1, <3>1 DEF Unseen
    <3>3. token <= issued'[p] /\ copy.storage[p] # token
      BY <1>3, <1>6, <1>8, <3>1
    <3> QED
      BY <1>2, <1>4, <2>1, <3>2, <3>3 DEF Unseen
  <2>2. ASSUME NEW u \in Tasks \ {t}, Saves(u)'
        PROVE  Unseen(tasks[u].provider, Own(u), {u})'
    <3>1. u # t /\ Saves(u) /\ tasks'[u] = tasks[u]
      BY <1>4, <2>2 DEF Saves
    <3>2. tasks[u].provider \in Providers /\ Own(u) \in Nat
      BY <3>1 DEF Saves, FileTyped, Own, Copies, FileTokens
    <3>3. Unseen(tasks[u].provider, Own(u), {u})
      BY <3>1 DEF Fresh
    <3> QED
      BY <2>1, <3>1, <3>2, <3>3 DEF Own
  <2>3. Unseen(tasks[t].provider, Own(t), {t})'
    <3>1. /\ tasks'[t].provider = q /\ Own(t)' = issued[q] + 1
      BY <1>3, <1>4 DEF Own
    <3>2. <<q, issued[q] + 1>> \notin spent'
      BY <1>1, <1>6, <1>8
    <3>3. \A u \in Tasks \ {t} : tasks'[u].storage[q] # issued[q] + 1
      BY <1>1, <1>4, <1>8
    <3>4. file.entries[q] # issued[q] + 1 /\ issued[q] + 1 > 0
      BY <1>1, <1>8
    <3>5. issued[q] + 1 <= issued'[q]
      BY <1>1, <1>6, <1>8
    <3> QED
      BY <1>2, <3>1, <3>2, <3>3, <3>4, <3>5 DEF Unseen
  <2>4. login.phase = "granted" => Unseen(SavedAs[login.flow], login.token, {})'
    BY <2>1 DEF Fresh, FileTyped
  <2> QED
    BY <2>2, <2>3, <2>4 DEF Fresh
<1>11. FileVersions'
  BY <1>1, <1>2, <1>3, <1>4 DEF FileVersions
<1>12. Kept'
  <2>1. \A u \in Tasks : Writer(u)' <=> Writer(u)
    BY <1>1, <1>2, <1>3, <1>4 DEF Writer
  <2>2. Clean' => Clean
    BY <1>1, <1>2, <1>4 DEF Clean
  <2>3. ASSUME Clean', NoWriter', NEW u \in Tasks, tasks'[u].seen = file'.version
        PROVE  /\ tasks'[u].stage = "refreshing" => tasks'[u].storage = acked'
               /\ tasks'[u].stage = "saving" => Copied(u)'
    <3>1. Clean /\ NoWriter
      BY <2>1, <2>2, <2>3 DEF NoWriter
    <3>2. CASE u = t
      <4>1. tasks[t].storage = acked
        BY <1>1, <1>2, <1>3, <1>4, <2>3, <3>1, <3>2 DEF Kept
      <4> QED
        BY <1>2, <1>3, <1>4, <3>2, <4>1 DEF Copied
    <3>3. CASE u # t
      BY <1>2, <1>4, <2>3, <3>1, <3>3 DEF Kept, Copied
    <3> QED
      BY <3>2, <3>3
  <2>4. ASSUME Clean', NoWriter' PROVE file'.text = "whole" /\ file'.entries = acked'
    BY <1>2, <2>1, <2>2, <2>4 DEF Kept, NoWriter
  <2>5. ASSUME Clean', NEW u \in Tasks, Writer(u)'
        PROVE  file'.text = "empty" /\ Copied(u)'
    <3>1. u # t /\ Writer(u) /\ tasks'[u] = tasks[u]
      BY <1>3, <1>4, <2>5 DEF Writer
    <3> QED
      BY <1>2, <2>2, <2>5, <3>1 DEF Kept, Copied
  <2>6. ASSUME Clean', NEW p \in Providers,
               \A u \in Tasks : Writer(u)' => tasks'[u].provider # p
        PROVE  Replaced(p)'
    <3>1. CASE p = q
      BY <1>3, <1>4, <3>1 DEF Replaced, Saves
    <3>2. CASE p # q
      <4>1. \A u \in Tasks : Writer(u) => tasks[u].provider # p
        BY <1>2, <1>4, <2>6 DEF Writer
      <4>2. Replaced(p)
        BY <2>2, <2>6, <4>1 DEF Kept
      <4>3. \A u \in Apps : Saves(u) => u # t /\ tasks'[u] = tasks[u]
        BY <1>2, <1>4 DEF Saves, Tasks
      <4>4. acked[p] \in Nat
        BY DEF FileTyped, FileTokens
      <4>5. <<p, acked[p]>> \in spent' => <<p, acked[p]>> \in spent
        BY <1>6, <3>2, <4>4
      <4> QED
        BY <1>2, <4>2, <4>3, <4>5 DEF Replaced, Saves
    <3> QED
      BY <3>1, <3>2
  <2> QED
    BY <2>3, <2>4, <2>5, <2>6 DEF Kept
<1> QED
  BY <1>7, <1>9, <1>10, <1>11, <1>12

\* The file is emptied: of the writers, only this one has seen that.
LEMMA TruncateKeeps ==
  ASSUME FileInv, login' = login, NEW t \in Tasks, Truncate(t)
  PROVE  FileInv'
<1> DEFINE copy == [tasks[t] EXCEPT !.stage = "writing", !.seen = file.version + 1]
<1> USE DEF FileInv
<1>1. tasks[t] \in Copies /\ tasks[t].stage = "saving" /\ tasks[t].provider \in Providers
      /\ file.version \in Nat /\ \A u \in Tasks : tasks[u].seen \in Nat
  BY DEF Truncate, FileTyped, Copies
<1>2. /\ tasks' = [tasks EXCEPT ![t] = copy]
      /\ file' = [text |-> "empty", entries |-> NoEntries, version |-> file.version + 1]
      /\ stale' = (stale \/ tasks[t].seen # file.version)
      /\ UNCHANGED <<acked, issued, spent>>
  BY <1>1 DEF Truncate, FileTyped
<1>3. /\ copy \in Copies /\ copy.stage = "writing" /\ copy.seen = file.version + 1
      /\ copy.provider = tasks[t].provider /\ copy.storage = tasks[t].storage
  <2> DEFINE newest == file.version + 1
  <2>1. copy = [tasks[t] EXCEPT !.stage = "writing", !.seen = newest]
    OBVIOUS
  <2>2. newest \in Nat
    BY <1>1
  <2>3. newest = file.version + 1
    OBVIOUS
  <2> HIDE DEF copy, newest
  <2> QED
    BY <1>1, <2>1, <2>2, <2>3 DEF Copies
<1> HIDE DEF copy
<1>4. /\ tasks' \in [Tasks -> Copies] /\ tasks'[t] = copy
      /\ \A u \in Tasks \ {t} : tasks'[u] = tasks[u]
  BY <1>2, <1>3, OneCopy
<1>5. /\ file'.text = "empty" /\ file'.entries = NoEntries
      /\ file'.version = file.version + 1
  BY <1>2
<1>6. FileTyped'
  <2>1. file' \in [text : {"whole", "empty", "garbled"}, entries : FileTokens,
                   version : Nat]
    BY <1>1, <1>2, Empty
  <2>2. stale' \in BOOLEAN
    BY <1>2 DEF FileTyped
  <2>3. \A u \in Tasks : tasks'[u].stage # "idle" =>
             tasks[u].stage # "idle" /\ tasks'[u].provider = tasks[u].provider
    BY <1>1, <1>3, <1>4
  <2>4. LoginTask \in Tasks
    BY DEF Tasks
  <2> QED
    BY <1>2, <1>4, <2>1, <2>2, <2>3, <2>4 DEF FileTyped
<1>7. \A u \in Tasks : /\ tasks'[u].storage = tasks[u].storage
                       /\ tasks'[u].provider = tasks[u].provider
                       /\ Saves(u)' <=> Saves(u)
  BY <1>1, <1>3, <1>4 DEF Saves
<1>8. Numbered'
  BY <1>2, <1>5, <1>7, Empty DEF Numbered, FileTyped, FileTokens
<1>9. Fresh'
  <2>1. ASSUME NEW p \in Providers, NEW token \in Nat, NEW holders,
               Unseen(p, token, holders)
        PROVE  Unseen(p, token, holders)'
    BY <1>2, <1>5, <1>7, <2>1, Empty DEF Unseen
  <2>2. ASSUME NEW u \in Tasks, Saves(u)'
        PROVE  Unseen(tasks[u].provider, Own(u), {u})'
    <3>1. /\ tasks[u].provider \in Providers /\ Own(u) \in Nat
          /\ Unseen(tasks[u].provider, Own(u), {u})
      BY <1>7, <2>2 DEF Saves, FileTyped, Own, Copies, FileTokens, Fresh
    <3>2. tasks'[u].provider = tasks[u].provider /\ Own(u)' = Own(u)
      BY <1>7 DEF Own
    <3> QED
      BY <2>1, <3>1, <3>2
  <2>3. login.phase = "granted" => Unseen(SavedAs[login.flow], login.token, {})'
    BY <2>1 DEF Fresh, FileTyped
  <2> QED
    BY <2>2, <2>3 DEF Fresh
<1>10. FileVersions'
  <2>1. \A u \in Tasks \ {t} : tasks'[u].seen <= file.version
    BY <1>4 DEF FileVersions
  <2>2. \A u \in Tasks \ {t} : tasks'[u].seen # file'.version
    BY <1>1, <1>4, <1>5, <2>1
  <2>3. \A u \in Tasks : tasks'[u].seen <= file'.version
    BY <1>1, <1>3, <1>4, <1>5, <2>1
  <2> QED
    BY <2>2, <2>3 DEF FileVersions
<1>11. ASSUME Clean' PROVE Kept'
  <2>1. ~stale /\ tasks[t].seen = file.version
    BY <1>2, <1>11 DEF Clean, FileTyped
  <2>2. \A u \in Tasks : Writer(u)' <=> u = t
    <3>1. ASSUME NEW u \in Tasks \ {t}, Writer(u)' PROVE FALSE
      BY <1>1, <1>4, <1>5, <1>11, <3>1 DEF Clean, Writer, FileVersions
    <3> QED
      BY <1>3, <1>4, <3>1 DEF Writer
  <2>3. Clean /\ NoWriter
    BY <1>1, <1>4, <2>1, <2>2 DEF Clean, NoWriter, Writer
  <2>4. Copied(t)'
    BY <1>1, <1>2, <1>7, <2>1, <2>3 DEF Kept, Copied
  <2>5. ASSUME NEW p \in Providers,
               \A u \in Tasks : Writer(u)' => tasks'[u].provider # p
        PROVE  Replaced(p)'
    <3>1. Replaced(p)
      BY <2>3 DEF Kept, NoWriter
    <3> QED
      BY <1>2, <1>7, <3>1 DEF Replaced, Tasks
  <2>6. ~NoWriter'
    BY <2>2 DEF NoWriter
  <2> QED
    BY <1>5, <2>2, <2>4, <2>5, <2>6 DEF Kept
<1>12. Kept'
  BY <1>11 DEF Kept
<1> QED
  BY <1>6, <1>8, <1>9, <1>10, <1>12

\* The emptied file is written, with the writer's copy and the token of its own.
LEMMA WriteKeeps ==
  ASSUME FileInv, login' = login, NEW t \in Tasks, Write(t)
  PROVE  FileInv'
<1> DEFINE q == tasks[t].provider
<1> USE DEF FileInv
<1>1. /\ tasks[t] \in Copies /\ tasks[t].stage = "writing" /\ q \in Providers
      /\ file.version \in Nat /\ \A u \in Tasks : tasks[u].seen \in Nat
  BY DEF Write, FileTyped, Copies
<1>2. PICK text \in {"whole"} \cup {"garbled" : u \in {file.text} \ {"empty"}} :
        file' = [text |-> text, entries |-> tasks[t].storage,
                 version |-> file.version + 1]
  BY DEF Write
<1>3. /\ file'.text = text /\ file'.entries = tasks[t].storage
      /\ file'.version = file.version + 1 /\ text \in {"whole", "garbled"}
      /\ file.text = "empty" => text = "whole"
  BY <1>2
<1>4. /\ tasks' = [tasks EXCEPT ![t] = Idle]
      /\ acked' = [acked EXCEPT ![q] = tasks[t].storage[q]]
      /\ stale' = (stale \/ tasks[t].seen # file.version)
      /\ UNCHANGED <<issued, spent>>
  BY DEF Write
<1>5. /\ tasks' \in [Tasks -> Copies] /\ tasks'[t] = Idle
      /\ \A u \in Tasks \ {t} : tasks'[u] = tasks[u]
  BY <1>4, OneCopy, Empty
<1>6. /\ tasks[t].storage \in FileTokens /\ acked \in FileTokens /\ acked' \in FileTokens
      /\ acked'[q] = Own(t)
      /\ \A p \in Providers \ {q} : acked'[p] = acked[p]
  BY <1>1, <1>4 DEF Copies, FileTyped, FileTokens, Own
<1>7. FileTyped'
  <2>1. file' \in [text : {"whole", "empty", "garbled"}, entries : FileTokens,
                   version : Nat]
    BY <1>1, <1>2, <1>6
  <2>2. stale' \in BOOLEAN
    BY <1>4 DEF FileTyped
  <2>3. \A u \in Tasks : tasks'[u].stage # "idle" => tasks'[u] = tasks[u]
    BY <1>5, Empty
  <2>4. LoginTask \in Tasks
    BY DEF Tasks
  <2> QED
    BY <1>4, <1>5, <1>6, <2>1, <2>2, <2>3, <2>4 DEF FileTyped
<1>8. Numbered'
  <2>1. \A u \in Tasks, p \in Providers :
             tasks'[u].storage[p] = tasks[u].storage[p] \/ tasks'[u].storage[p] = 0
    BY <1>5, Empty
  <2>2. \A p \in Providers : issued[p] \in Nat
    BY DEF FileTyped, FileTokens
  <2> QED
    BY <1>3, <1>4, <2>1, <2>2 DEF Numbered
<1>9. Fresh'
  <2>1. ASSUME NEW p \in Providers, NEW token \in Nat, NEW holders, t \notin holders,
               Unseen(p, token, holders)
        PROVE  Unseen(p, token, holders)'
    BY <1>3, <1>4, <1>5, <2>1, Empty DEF Unseen
  <2>2. ASSUME NEW u \in Tasks, Saves(u)'
        PROVE  Unseen(tasks[u].provider, Own(u), {u})'
    <3>1. u # t /\ Saves(u) /\ tasks'[u] = tasks[u]
      BY <1>5, <2>2, Empty DEF Saves
    <3>2. tasks[u].provider \in Providers /\ Own(u) \in Nat
      BY <3>1 DEF Saves, FileTyped, Own, Copies, FileTokens
    <3>3. Unseen(tasks[u].provider, Own(u), {u})
      BY <3>1 DEF Fresh
    <3> QED
      BY <2>1, <3>1, <3>2, <3>3 DEF Own
  <2>3. login.phase = "granted" => Unseen(SavedAs[login.flow], login.token, {})'
    BY <2>1 DEF Fresh, FileTyped
  <2> QED
    BY <2>2, <2>3 DEF Fresh
<1>10. \A u \in Tasks : tasks'[u].seen <= file.version
  BY <1>1, <1>5, Empty DEF FileVersions
<1>11. \A u \in Tasks : tasks'[u].seen \in Nat /\ tasks'[u].seen # file'.version
  BY <1>1, <1>3, <1>5, <1>10, Empty
<1>12. FileVersions'
  BY <1>1, <1>3, <1>10, <1>11 DEF FileVersions
<1>13. ASSUME Clean' PROVE Kept'
  <2>1. ~stale /\ tasks[t].seen = file.version
    BY <1>4, <1>13 DEF Clean, FileTyped
  <2>2. NoWriter' /\ \A u \in Tasks : Writer(u) => u = t
    BY <1>5, <1>11, <1>13 DEF Clean, NoWriter, Writer
  <2>3. Clean /\ Writer(t)
    BY <1>1, <2>1, <2>2 DEF Clean, Writer
  <2>4. file.text = "empty" /\ Copied(t)
    BY <2>3 DEF Kept
  <2>5. \A p \in Providers : acked'[p] = tasks[t].storage[p]
    BY <1>6, <2>4 DEF Copied, Own
  <2>6. acked' = tasks[t].storage
    BY <1>6, <2>5 DEF FileTokens
  <2>7. ASSUME NEW p \in Providers PROVE Replaced(p)'
    <3>1. CASE p = q
      <4>1. <<q, Own(t)>> \notin spent
        BY <1>1 DEF Fresh, Saves, Unseen
      <4> QED
        BY <1>4, <1>6, <3>1, <4>1 DEF Replaced
    <3>2. CASE p # q
      <4>1. Replaced(p)
        BY <2>2, <2>3, <3>2 DEF Kept
      <4>2. \A u \in Apps : tasks[u].provider = p => u # t /\ tasks'[u] = tasks[u]
        BY <1>5, <3>2 DEF Tasks
      <4> QED
        BY <1>4, <1>6, <3>2, <4>1, <4>2 DEF Replaced, Saves
    <3> QED
      BY <3>1, <3>2
  <2> QED
    BY <1>3, <1>11, <2>2, <2>4, <2>6, <2>7 DEF Kept, NoWriter
<1>14. Kept'
  BY <1>13 DEF Kept
<1> QED
  BY <1>7, <1>8, <1>9, <1>12, <1>14

\* The provider issues the login its token.
LEMMA GrantedKeeps ==
  ASSUME LoginRecord(login), FileInv, Granted
  PROVE  FileInv'
<1> USE DEF FileInv
<1>1. /\ UNCHANGED <<file, tasks, spent, acked, stale>>
      /\ login.phase = "exchanging"
  BY DEF Granted
<1>2. CASE Goes("returned")
      /\ issued' = issued
  <2>1. login'.phase = "returned"
    BY <1>2, GoesFields
  <2>2. FileTyped' /\ Numbered' /\ FileVersions'
    BY <1>1, <1>2, <2>1 DEF FileTyped, Numbered, FileVersions
  <2>3. Fresh'
    BY <1>1, <1>2, <2>1 DEF Fresh, Saves, Own, Unseen
  <2>4. Kept'
    BY <1>1 DEF Kept, Clean, NoWriter, Writer, Copied, Replaced, Saves
  <2> QED
    BY <2>2, <2>3, <2>4
<1>3. CASE /\ login.flow \in DOMAIN SavedAs /\ SavedAs[login.flow] \in Providers
           /\ issued' = [issued EXCEPT ![SavedAs[login.flow]] = @ + 1]
           /\ login' = [login EXCEPT !.phase = "granted",
                                     !.token = issued[SavedAs[login.flow]] + 1]
  <2> DEFINE q == SavedAs[login.flow]
             token == issued[q] + 1
  <2>1. /\ q \in Providers /\ issued \in FileTokens /\ issued' \in FileTokens
        /\ token \in Nat /\ issued'[q] = token /\ issued[q] \in Nat
        /\ \A p \in Providers : issued[p] \in Nat /\ issued'[p] >= issued[p]
    BY <1>3 DEF FileTyped, FileTokens
  <2>2. login' = [login EXCEPT !.phase = "granted", !.token = token]
    BY <1>3
  <2>3. token = issued[q] + 1
    OBVIOUS
  <2> HIDE DEF token
  <2>4. /\ login'.phase = "granted" /\ login'.token = token
        /\ login'.flow = login.flow
    BY <2>2 DEF LoginRecord
  <2>5. FileTyped'
    BY <1>1, <1>3, <2>1, <2>4 DEF FileTyped
  <2>6. \A p \in Providers : /\ file.entries[p] \in Nat /\ file.entries[p] <= issued[p]
                             /\ \A t \in Tasks : tasks[t].storage[p] \in Nat
                                  /\ tasks[t].storage[p] <= issued[p]
    BY DEF FileTyped, FileTokens, Copies, Numbered
  <2>7. Numbered'
    <3>1. \A p \in Providers : issued'[p] \in Nat
      BY <2>1 DEF FileTokens
    <3>2. \A p \in Providers : \A n \in Nat : <<p, n>> \in spent => n <= issued'[p]
      BY <2>1, <3>1 DEF Numbered
    <3> QED
      BY <1>1, <2>1, <2>6, <3>1, <3>2 DEF Numbered
  <2>8. Fresh'
    <3>1. ASSUME NEW t \in Tasks, Saves(t)'
          PROVE  Unseen(tasks[t].provider, Own(t), {t})'
      <4>1. /\ tasks[t].provider \in Providers /\ Own(t) \in Nat
            /\ Unseen(tasks[t].provider, Own(t), {t})
        BY <1>1, <3>1 DEF Saves, FileTyped, Own, Copies, FileTokens, Fresh
      <4>2. Own(t) <= issued'[tasks[t].provider]
        <5>1. issued'[tasks[t].provider] \in Nat
          BY <2>1, <4>1 DEF FileTokens
        <5> QED
          BY <2>1, <4>1, <5>1 DEF Unseen
      <4> QED
        BY <1>1, <4>1, <4>2 DEF Unseen, Own
    <3>2. login'.phase = "granted" => Unseen(SavedAs[login.flow], login.token, {})'
      <4>1. <<q, token>> \notin spent
        BY <2>1, <2>3 DEF Numbered
      <4>2. token > 0 /\ file.entries[q] # token
            /\ \A t \in Tasks : tasks[t].storage[q] # token
        BY <2>1, <2>3, <2>6
      <4>3. token <= issued'[q]
        BY <2>1
      <4> QED
        BY <1>1, <2>4, <4>1, <4>2, <4>3 DEF Unseen
    <3> QED
      BY <3>1, <3>2 DEF Fresh
  <2>9. FileVersions'
    BY <1>1 DEF FileVersions
  <2>10. Kept'
    BY <1>1 DEF Kept, Clean, NoWriter, Writer, Copied, Replaced, Saves
  <2> QED
    BY <2>5, <2>7, <2>8, <2>9, <2>10
<1> QED
  BY <1>2, <1>3 DEF Granted

\* The command line takes a copy of the file, with its token in it.
LEMMA SaveKeeps ==
  ASSUME LoginRecord(login), FileInv, Save
  PROVE  FileInv'
<1> DEFINE q == SavedAs[login.flow]
           inFile == [Storage EXCEPT ![q] = login.token]
           copy == [stage |-> "saving", provider |-> q, seen |-> file.version,
                    storage |-> inFile]
           t == LoginTask
<1> USE DEF FileInv
<1>1. /\ login.phase = "granted" /\ tasks' = [tasks EXCEPT ![LoginTask] = copy]
      /\ Goes("saved") /\ UNCHANGED <<file, issued, spent, acked, stale>>
  BY DEF Save, SaveLogin
<1>2. login'.phase = "saved"
  BY <1>1, GoesFields
<1>3. t \in Tasks /\ t \notin Apps /\ tasks[t].stage = "idle" /\ q \in Providers
      /\ login.token \in Nat
  BY <1>1, CredentialFileAssumption DEF FileTyped, Tasks
<1>4. /\ inFile \in FileTokens /\ inFile[q] = login.token
      /\ \A p \in Providers \ {q} : inFile[p] = Storage[p]
  BY <1>3, Reads DEF FileTokens
<1> HIDE DEF inFile
<1>5. /\ copy \in Copies /\ copy.stage = "saving" /\ copy.provider = q
      /\ copy.seen = file.version /\ copy.storage = inFile
  BY <1>3, <1>4 DEF Copies, FileTyped
<1> HIDE DEF copy
<1>6. /\ tasks' \in [Tasks -> Copies] /\ tasks'[t] = copy
      /\ \A u \in Tasks \ {t} : tasks'[u] = tasks[u]
  BY <1>1, <1>3, <1>5, OneCopy
<1>7. FileTyped'
  BY <1>1, <1>2, <1>3, <1>5, <1>6 DEF FileTyped
<1>8. \A p \in Providers \ {q} : inFile[p] = 0 \/ inFile[p] = file.entries[p]
  BY <1>4, Reads, Empty
<1>9. Unseen(q, login.token, {})
  BY <1>1 DEF Fresh
<1>10. Numbered'
  <2>1. \A p \in Providers : inFile[p] <= issued[p]
    BY <1>3, <1>4, <1>8, <1>9 DEF Unseen, Numbered, FileTyped, FileTokens
  <2> QED
    BY <1>1, <1>5, <1>6, <2>1 DEF Numbered
<1>11. Fresh'
  <2>1. ASSUME NEW u \in Tasks \ {t}, Saves(u)'
        PROVE  Unseen(tasks[u].provider, Own(u), {u})'
    <3>1. Saves(u) /\ tasks'[u] = tasks[u]
      BY <1>6, <2>1 DEF Saves
    <3>2. /\ tasks[u].provider \in Providers /\ Own(u) \in Nat
          /\ Unseen(tasks[u].provider, Own(u), {u})
      BY <3>1 DEF Saves, FileTyped, Own, Copies, FileTokens, Fresh
    <3>3. inFile[tasks[u].provider] # Own(u)
      <4>1. CASE tasks[u].provider = q
        BY <1>4, <1>9, <4>1 DEF Unseen, Own
      <4>2. CASE tasks[u].provider # q
        BY <1>8, <3>2, <4>2 DEF Unseen
      <4> QED
        BY <4>1, <4>2
    <3> QED
      BY <1>1, <1>5, <1>6, <3>1, <3>2, <3>3 DEF Unseen, Own
  <2>2. Unseen(tasks[t].provider, Own(t), {t})'
    <3>1. Own(t)' = login.token /\ tasks'[t].provider = q
      BY <1>4, <1>5, <1>6 DEF Own
    <3> QED
      BY <1>1, <1>6, <1>9, <3>1 DEF Unseen
  <2> QED
    BY <1>2, <2>1, <2>2 DEF Fresh
<1>12. FileVersions'
  BY <1>1, <1>3, <1>5, <1>6 DEF FileVersions, FileTyped
<1>13. Kept'
  <2>1. \A u \in Tasks : Writer(u)' <=> Writer(u)
    BY <1>3, <1>5, <1>6 DEF Writer
  <2>2. Clean' => Clean
    BY <1>1, <1>3, <1>6 DEF Clean
  <2>3. ASSUME Clean', NoWriter' PROVE file'.text = "whole" /\ file'.entries = acked'
    BY <1>1, <2>1, <2>2, <2>3 DEF Kept, NoWriter
  <2>4. ASSUME Clean', NoWriter', NEW u \in Tasks, tasks'[u].seen = file'.version
        PROVE  /\ tasks'[u].stage = "refreshing" => tasks'[u].storage = acked'
               /\ tasks'[u].stage = "saving" => Copied(u)'
    <3>1. CASE u = t
      <4>1. Storage = acked
        BY <1>1, <2>3, <2>4 DEF Storage
      <4> QED
        BY <1>1, <1>4, <1>5, <1>6, <3>1, <4>1 DEF Copied
    <3>2. CASE u # t
      BY <1>1, <1>6, <2>1, <2>2, <2>4, <3>2 DEF Kept, NoWriter, Copied
    <3> QED
      BY <3>1, <3>2
  <2>5. ASSUME Clean', NEW u \in Tasks, Writer(u)'
        PROVE  file'.text = "empty" /\ Copied(u)'
    <3>1. u # t /\ Writer(u) /\ tasks'[u] = tasks[u]
      BY <1>5, <1>6, <2>5 DEF Writer
    <3> QED
      BY <1>1, <2>2, <2>5, <3>1 DEF Kept, Copied
  <2>6. ASSUME Clean', NEW p \in Providers,
               \A u \in Tasks : Writer(u)' => tasks'[u].provider # p
        PROVE  Replaced(p)'
    <3>1. \A u \in Tasks : Writer(u) => tasks[u].provider # p
      BY <1>3, <1>6, <2>6 DEF Writer
    <3>2. Replaced(p)
      BY <2>2, <2>6, <3>1 DEF Kept
    <3>3. \A u \in Apps : tasks'[u] = tasks[u]
      BY <1>3, <1>6 DEF Tasks
    <3> QED
      BY <1>1, <3>2, <3>3 DEF Replaced, Saves
  <2> QED
    BY <2>3, <2>4, <2>5, <2>6 DEF Kept
<1> QED
  BY <1>7, <1>10, <1>11, <1>12, <1>13

\* Every step keeps what is known of the file.
LEMMA FileInvStep ==
  ASSUME LoginRecord(login), FileInv, [Next]_vars
  PROVE  FileInv'
<1>1. CASE File
  <2>1. login' = login /\ FileNext
    BY <1>1 DEF File, loginVars
  <2>2. ASSUME NEW t \in Apps, RefreshFails(t) PROVE FileInv'
    BY <2>1, <2>2, GivesUpKeeps DEF RefreshFails, Tasks
  <2>3. ASSUME NEW t \in Tasks, SaveFails(t) PROVE FileInv'
    BY <2>1, <2>3, GivesUpKeeps DEF SaveFails
  <2>4. ASSUME NEW q \in Providers, Expire(q) PROVE FileInv'
    <3> USE <2>1, <2>4 DEF Expire, FileInv
    <3>1. FileTyped' /\ Numbered' /\ FileVersions'
      BY DEF FileTyped, Numbered, FileVersions
    <3>2. Fresh'
      BY DEF Fresh, Saves, Own, Unseen
    <3>3. Kept'
      BY DEF Kept, Clean, NoWriter, Writer, Copied, Replaced, Saves
    <3> QED
      BY <3>1, <3>2, <3>3
  <2> QED
    BY <2>1, <2>2, <2>3, <2>4, ResolveKeeps, RefreshedKeeps, RefreshLostKeeps,
       TruncateKeeps, WriteKeeps DEF FileNext
<1> QED
  BY <1>1, FileSteps, AsideKeeps, GrantedKeeps, SaveKeeps

\* Whatever the applications and the command line do at once, as long as nobody
\* wrote a stale copy and no save was lost, a file at rest has for every provider
\* what was last saved, and no spent refresh token but one whose successor an
\* application is about to save.
THEOREM OnlyStaleSavesLose == Spec => []LostOnlyByStaleSave
<1>1. Init => FileInv
  BY FileBegins
<1>2. LoginRecord(login) /\ FileInv /\ [Next]_vars => FileInv'
  BY FileInvStep
<1>3. FileInv => LostOnlyByStaleSave
  <2> SUFFICES ASSUME FileInv, ~stale, \A t \in Tasks : tasks[t].stage # "writing"
               PROVE  /\ Storage = acked
                      /\ \A q \in Providers : <<q, Storage[q]>> \in spent =>
                           \E t \in Apps : tasks[t].stage = "saving"
                                           /\ tasks[t].provider = q
    BY DEF LostOnlyByStaleSave
  <2>1. Clean /\ NoWriter
    BY DEF Clean, NoWriter, Writer
  <2>2. Storage = acked
    BY <2>1 DEF FileInv, Kept, Storage
  <2>3. \A q \in Providers : Replaced(q)
    BY <2>1 DEF FileInv, Kept, NoWriter
  <2> QED
    BY <2>2, <2>3 DEF Replaced, Saves, Tasks
<1> QED
  BY <1>1, <1>2, <1>3, LoginsAreRecords, PTL DEF Spec

================================================================================
