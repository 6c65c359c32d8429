--------------------------------- MODULE Login ---------------------------------
(***************************************************************************)
(* A login with an OAuth provider, from the choice of the method to the    *)
(* credential: the browser logins race the callback server against a code  *)
(* the user pastes, the device logins poll                                 *)
(* (crates/ri-llm-provider/src/auth/interactive.rs, cli.rs, radius.rs,     *)
(* openai_codex_oauth.rs, github_copilot_oauth.rs, xai_oauth.rs). A login  *)
(* of the command line then saves its credential in the shared file, while *)
(* applications resolve theirs from it.                                    *)
(***************************************************************************)
EXTENDS CallbackServer, DevicePoll, CredentialFile, Sequences

CONSTANTS
  Flows,   \* the logins of this instance
  Inputs   \* what the user may answer to the prompt for a code

ASSUME LoginAssumption ==
  /\ Flows \subseteq {"anthropic", "codex", "radius",
                      "codexDevice", "copilot", "radiusDevice", "xai"}
  /\ Inputs \subseteq [kind : {"error", "empty", "text"},
                       code : {"none", "mine", "other"},
                       state : {"none", "mine", "other"}]

VARIABLES
  login,   \* [phase, flow, code, todo, token, busy]: the login
  prompt   \* the answer to the prompt for a code

loginVars == <<login, prompt>>
vars == <<serverVars, faults, poll, fileVars, loginVars>>

Device == {"codexDevice", "copilot", "radiusDevice", "xai"}

\* The browser logins that also ask for a code.
Asks == {"anthropic", "codex"}

\* Copilot and xAI sleep before they ask for the first time.
WaitsFirst == {"copilot", "xai"}

\* The logins of the command line, and whose entry they save.
SavedAs == [anthropic |-> "anthropic", codex |-> "openai-codex",
            copilot |-> "github-copilot"]

\* What is asked of the provider once it has authorized the login. A token that
\* came with the last poll needs nothing more.
AnthropicRequests == <<"token">>
CodexRequests == <<"token">>
RadiusRequests == <<"token">>
CopilotRequests == <<"token", "policies", "models">>

Requested(flow) ==
  CASE flow = "anthropic" -> AnthropicRequests
    [] flow \in {"codex", "codexDevice"} -> CodexRequests
    [] flow = "radius" -> RadiusRequests
    [] flow = "copilot" -> CopilotRequests
    [] flow \in {"radiusDevice", "xai"} -> <<>>

\* The providers of the device logins.
DeviceOf ==
  [copilot |-> CopilotDevice, codexDevice |-> CodexDevice,
   radiusDevice |-> RadiusDevice, xai |-> XaiDevice]
SlowDownsOf ==
  [copilot |-> CopilotSlowDowns, codexDevice |-> CodexSlowDowns,
   radiusDevice |-> RadiusSlowDowns, xai |-> XaiSlowDowns]

NoAnswer == [kind |-> "none", code |-> "none", state |-> "none"]
NoCode == [code |-> "none", state |-> "none"]

Init ==
  /\ ServerInit /\ faults = 0 /\ poll = NoPoll /\ FileInit
  /\ login = [phase |-> "idle", flow |-> "none", code |-> NoCode, todo |-> <<>>,
              token |-> NoToken, busy |-> FALSE]
  /\ prompt = NoAnswer

Goes(phase) == login' = [login EXCEPT !.phase = phase]

\* The provider is asked for the tokens of an authorization.
Exchanges(code) ==
  login' = [login EXCEPT !.phase = "exchanging", !.code = code,
                         !.todo = Requested(login.flow)]

-----------------------------------------------------------------------------
(* The beginning                                                           *)

\* The method is refused, the user leaves the choice, or the first request fails.
StartFails ==
  /\ login.phase = "idle"
  /\ Goes("failed")
  /\ UNCHANGED <<serverVars, faults, poll, fileVars, prompt>>

Waits(flow, busy) ==
  login' = [login EXCEPT !.phase = "waiting", !.flow = flow, !.busy = busy]

\* A browser login whose port is free, and one whose port is another program's,
\* which only the codex login survives.
Binds(flow) == Bound /\ Waits(flow, FALSE) /\ UNCHANGED faults
BindFails == Fault /\ Goes("failed") /\ UNCHANGED serverVars

\* start_anthropic_oauth_login_flow_with_pkce
AnthropicStarts ==
  /\ login.phase = "idle" /\ "anthropic" \in Flows
  /\ Binds("anthropic") \/ BindFails
  /\ UNCHANGED <<poll, fileVars, prompt>>

\* start_openai_codex_oauth_login_flow_with_pkce
CodexStarts ==
  /\ login.phase = "idle" /\ "codex" \in Flows
  /\ Binds("codex") \/ (Fault /\ Noop /\ Waits("codex", TRUE))
  /\ UNCHANGED <<poll, fileVars, prompt>>

\* login_radius_with_browser
RadiusStarts ==
  /\ login.phase = "idle" /\ "radius" \in Flows
  /\ Binds("radius") \/ BindFails
  /\ UNCHANGED <<poll, fileVars, prompt>>

DeviceStarts(flow) ==
  /\ login.phase = "idle"
  /\ \E d \in DeviceOf[flow] :
       poll' = NewPoll(d.interval, d.lifetime, flow \in WaitsFirst)
  /\ login' = [login EXCEPT !.phase = "polling", !.flow = flow]
  /\ UNCHANGED <<serverVars, faults, fileVars, prompt>>

-----------------------------------------------------------------------------
(* wait_for_callback_or_manual_code                                        *)

\* The user answers the prompt, with nothing, a code alone, or a code or an
\* address with its state.
Answer ==
  /\ login.phase \in {"waiting", "exchanging", "granted", "saved", "returned"}
  /\ login.flow \in Asks /\ prompt = NoAnswer
  /\ \E input \in Inputs : prompt' = input
  /\ UNCHANGED <<serverVars, faults, poll, fileVars, login>>

\* manual_to_code: a state that is given must be this login's.
Usable(input) ==
  input.state \in {"none", "mine"} /\ input.code # "none"

ManualToCode(input) ==
  IF Usable(input)
  THEN Exchanges([code |-> input.code, state |-> input.state])
  ELSE Goes("failed")

\* The channel has a value, and the task that sent it has ended.
CallbackReady == callback # Unsent /\ server.phase = "stopped"

\* callback_to_code
CallbackToCode ==
  IF callback = NoCallback
  THEN Goes("failed")
  ELSE Exchanges([code |-> callback, state |-> callback])

TakeCallback ==
  /\ login.phase \in {"waiting", "browserOnly"} /\ CallbackReady
  /\ CallbackToCode
  /\ Drops
  /\ UNCHANGED <<server, callback, faults, poll, fileVars, prompt>>

\* The answer comes first. When it is empty the browser is waited for, else the
\* wait is dropped, and the shutdown sender with it.
TakeManual ==
  /\ login.phase = "waiting" /\ prompt # NoAnswer
  /\ IF prompt.kind = "empty"
     THEN Goes("browserOnly") /\ UNCHANGED shutdown
     ELSE /\ IF prompt.kind = "error" THEN Goes("failed") ELSE ManualToCode(prompt)
          /\ Drops
  /\ UNCHANGED <<server, callback, faults, poll, fileVars, prompt>>

\* finish_anthropic_oauth_login_from_manual_input_at and its codex twin: the
\* server is told to stop, and waited for, before the input is looked at.
CancelWait ==
  /\ login.phase = "waiting" /\ login.flow \in Asks /\ prompt = NoAnswer
  /\ \E input \in Inputs :
       input.kind # "error" /\ prompt' = input
  /\ Goes("cancelling") /\ Drops
  /\ UNCHANGED <<server, callback, faults, poll, fileVars>>

FinishManual ==
  /\ login.phase = "cancelling" /\ CallbackReady
  /\ ManualToCode(prompt)
  /\ UNCHANGED <<serverVars, faults, poll, fileVars, prompt>>

-----------------------------------------------------------------------------
(* The device logins                                                       *)

\* What the poller's end means for the login.
Poll ==
  /\ login.phase = "polling" /\ PollStep(SlowDownsOf[login.flow])
  /\ CASE poll'.stage = "failed" -> Goes("failed")
       [] poll'.stage = "complete" ->
            Exchanges([code |-> "mine", state |-> "none"])
       [] poll'.stage \notin {"failed", "complete"} -> UNCHANGED login
  /\ UNCHANGED <<serverVars, faults, fileVars, prompt>>

CancelLogin ==
  /\ login.phase = "polling" /\ Cancel
  /\ UNCHANGED <<serverVars, faults, fileVars, loginVars>>

-----------------------------------------------------------------------------
(* The tokens                                                              *)

\* A request is answered, or fails within its timeout. The policies of the
\* models are asked for and the answers ignored.
Request ==
  /\ login.phase = "exchanging" /\ login.todo # <<>>
  /\ \/ login' = [login EXCEPT !.todo = Tail(@)]
     \/ Head(login.todo) # "policies" /\ Goes("failed")
  /\ UNCHANGED <<serverVars, faults, poll, fileVars, prompt>>

\* The login has its credential. The command line saves it; the other callers
\* are given it.
Granted ==
  LET flow == login.flow
  IN /\ login.phase = "exchanging" /\ login.todo = <<>>
     /\ \/ /\ flow \in DOMAIN SavedAs /\ SavedAs[flow] \in Providers
           /\ issued[SavedAs[flow]] < MaxIssued
           /\ issued' = [issued EXCEPT ![SavedAs[flow]] = @ + 1]
           /\ login' = [login EXCEPT !.phase = "granted",
                                     !.token = issued[SavedAs[flow]] + 1]
           /\ UNCHANGED tasks
        \/ Goes("returned") /\ UNCHANGED <<issued, tasks>>
     /\ UNCHANGED <<serverVars, faults, poll, prompt, file, expired, spent, acked,
                    fileFaults, resolves, stale>>

Save ==
  /\ login.phase = "granted" /\ SaveLogin(SavedAs[login.flow], login.token)
  /\ Goes("saved")
  /\ UNCHANGED <<serverVars, faults, poll, prompt, file, issued, expired, spent,
                 acked, fileFaults, resolves, stale>>

\* The command line's runtime waits for the thread that reads the prompt before
\* the process can end.
Exit ==
  /\ login.phase = "saved" /\ tasks[LoginTask].stage = "idle"
  /\ login.flow \in Asks => prompt # NoAnswer
  /\ Goes("exited")
  /\ UNCHANGED <<serverVars, faults, poll, fileVars, prompt>>

-----------------------------------------------------------------------------

\* The tasks of the program.
Server ==
  ServerNext /\ UNCHANGED <<poll, fileVars, loginVars>>

Starts ==
  \/ StartFails
  \/ AnthropicStarts \/ CodexStarts \/ RadiusStarts
  \/ \E f \in Flows \cap Device : DeviceStarts(f)

Proceeds ==
  \/ TakeCallback \/ TakeManual \/ FinishManual
  \/ Poll \/ Request \/ Granted \/ Save \/ Exit

File ==
  FileNext /\ UNCHANGED <<serverVars, faults, poll, loginVars>>

Next ==
  Starts \/ Answer \/ CancelWait \/ CancelLogin \/ Server \/ Proceeds \/ File

Spec == Init /\ [][Next]_vars

\* The tasks run; the provider answers or a timeout does. The user and the
\* browser need do nothing.
FairSpec ==
  /\ Spec
  /\ WF_vars((Handle \/ Stop) /\ UNCHANGED <<poll, fileVars, loginVars>>)
  /\ WF_vars(Proceeds)
  /\ WF_vars((Truncate(LoginTask) \/ Write(LoginTask))
             /\ UNCHANGED <<serverVars, faults, poll, loginVars>>)

-----------------------------------------------------------------------------
(* Properties                                                              *)

\* A code that is exchanged with this login's verifier was made for this login,
\* unless the user pasted it and left out the state that tells whose it is
\* (handle_oauth_callback_connection, manual_to_code).
CodeIsMine ==
  login.code.code = "other" => prompt # NoAnswer /\ login.code.state # "other"

\* The poller asks no sooner after the last time, or after the beginning when it
\* waits first, than the provider wants, and never at the end of the code's
\* lifetime or later: a wait that was cut short is never followed by a poll
\* (initial_wait_ms, should_poll, wait_after_poll_ms).
PollsSpaced ==
  [][poll.stage = "due" /\ poll'.stage = "asked" =>
       /\ poll.last # Never => poll.now - poll.last >= poll.asked
       /\ poll.now < poll.deadline /\ ~poll.cancelled]_vars

\* What the user still has to do.
UserOwes ==
  \/ login.phase = "idle"
  \/ /\ login.phase \in {"waiting", "browserOnly"}
     /\ login.phase = "waiting" => prompt = NoAnswer
     /\ server.phase \in {"listening", "handling"}
  \/ login.phase = "saved" /\ login.flow \in Asks /\ prompt = NoAnswer

Ended == login.phase \in {"failed", "returned", "exited"}

\* A login that waits for nobody ends, whichever of the callback, the answer and
\* the poller comes first (wait_for_callback_or_manual_code,
\* poll_device_code_flow_with_sleeper_and_abort), and frees its port, however it
\* ended and whatever the server was doing (OAuthCallbackServer's shutdown).
LoginEnds ==
  /\ []<>(Ended \/ UserOwes)
  /\ Ended ~> server.phase \in {"off", "stopped"}

\* A credential is lost from the file only through a copy that was stale or a
\* save that failed: otherwise the file, when nobody is writing it, has what was
\* last saved for every provider, and no refresh token that was used up but for
\* the one that its holder is about to replace.
LostOnlyByStaleSave ==
  (~stale /\ \A t \in Tasks : tasks[t].stage # "writing") =>
    /\ Storage = acked
    /\ \A q \in Providers : <<q, Storage[q]>> \in spent =>
         \E t \in Apps : tasks[t].stage = "saving" /\ tasks[t].provider = q

\* While the callback port is taken, the codex login falls back to the code the
\* user pastes.
BusyPortAsks == login.busy /\ login.phase = "failed" => prompt # NoAnswer
=============================================================================
