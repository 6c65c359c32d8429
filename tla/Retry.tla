---------------------------------- MODULE Retry --------------------------------
(***************************************************************************)
(* retry_assistant_call of crates/ri-llm-provider/src/retry.rs: one call   *)
(* that produces a reply, made again while its error looks transient and   *)
(* retries are left, and the callbacks told of it. The summaries pass no   *)
(* abort flag: nobody cuts the pause between two tries short.              *)
(***************************************************************************)
EXTENDS Naturals, Sequences

VARIABLES
  retries,  \* the policy's max_retries
  call,     \* "off", "produce", "sleep", or how the call ended
  attempt,  \* the retries scheduled so far
  told      \* the callbacks of the call, in order

Ends == {"reply", "aborted", "error", "broken"}

RetryInit == call = "off" /\ attempt = 0 /\ told = <<>>

StartCall == call' = "produce" /\ attempt' = 0 /\ told' = <<>>

HangUp == call' = "off" /\ attempt' = 0 /\ told' = <<>>

\* A mutation: the last error is returned without a word.
Unfinished == told

\* on_retry_finished, when a retry was scheduled.
Finished == IF attempt = 0 THEN told ELSE Append(told, "finished")

End(how) == call' = how /\ told' = Finished /\ UNCHANGED attempt

\* The reply, an abort or an error that is final.
Produced(how) ==
  /\ call = "produce"
  /\ \/ how \in {"reply", "aborted", "error"} /\ End(how)
     \/ how = "transient" /\ attempt >= retries /\ End("error")

\* produce itself fails: its error is passed on, and no callback is told.
ProduceFails ==
  /\ call = "produce"
  /\ call' = "broken"
  /\ UNCHANGED <<attempt, told>>

\* is_retryable_assistant_error: the next try follows a pause.
Schedule ==
  /\ call = "produce"
  /\ attempt < retries
  /\ attempt' = attempt + 1
  /\ told' = Append(told, "scheduled")
  /\ call' = "sleep"

\* retry_sleep is over.
Retried ==
  /\ call = "sleep"
  /\ call' = "produce"
  /\ told' = Append(told, "start")
  /\ UNCHANGED attempt

CallOver == call \in Ends

\* Every retry that was announced is started, and a call that was retried
\* is reported finished, once and last, unless producing it failed (retry.rs,
\* RetryCallbacks).
CallbacksPaired ==
  LET Places(name) == {k \in DOMAIN told : told[k] = name}
  IN /\ \A k \in Places("start") : k > 1 /\ told[k - 1] = "scheduled"
     /\ \A k \in Places("finished") : k = Len(told) /\ CallOver
     /\ call \in Ends \ {"broken"} /\ Places("scheduled") # {} =>
          Places("finished") # {}
==============================================================================
