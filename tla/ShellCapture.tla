------------------------------ MODULE ShellCapture ------------------------------
(***************************************************************************)
(* A command of the bash tool: exec runs a shell in a process group of its *)
(* own, two threads read its pipes, the capture keeps the end of what they *)
(* read and, once that is too long, a file with all of it, and the loop of *)
(* exec ends the command on an abort, a failed callback or a timeout.      *)
(*                                                                         *)
(* Characters are "x", "n" for a newline and "b" for a control character   *)
(* that is not shown; each is a byte. The limits are scaled down, and what *)
(* one read brings stays well below them as it does in the code.           *)
(***************************************************************************)
EXTENDS Integers, Sequences, FiniteSets, SequencesExt

CONSTANTS
  Nowhere,     \* no file yet
  MaxBytes,    \* DEFAULT_MAX_BYTES
  MaxLines,    \* DEFAULT_MAX_LINES
  ReadBytes,   \* the buffer of read_pipe
  Writes,      \* what a process may write at once, per stream
  PipeBytes,   \* the bytes that are written and not read at most
  MaxWritten,  \* the bytes that are written at most
  MaxFaults    \* the writes to disk and callbacks that fail at most

Streams == {"stdout", "stderr"}

Characters == {"x", "n", "b"}

ASSUME ShellAssumption ==
  /\ Nowhere \notin Nat
  /\ MaxBytes \in Nat
  /\ MaxLines \in Nat \ {0}
  /\ ReadBytes \in 1 .. MaxBytes
  /\ \A s \in Streams : Writes[s] \subseteq Seq(Characters)

VARIABLES
  step,        \* where exec is: "start", "poll", "checks", "drain", "finish", "done"
  code,        \* how exec ends
  child,       \* the shell: "none", "running", "exited" or "killed"
  background,  \* a process the shell left: "none", "grouped" or "detached"
  pipe,        \* what has been written and not read, per stream
  reader,      \* the reader of a stream: "reading", "eof" or "failed"
  aborted,     \* the abort flag
  timer,       \* the timeout, which may never come: "set" or "over"
  capture,     \* ShellCaptureState
  shown,       \* ShellCaptureResult, or empty
  written,     \* the bytes that were written
  faults       \* the failures so far

shellVars == <<step, code, child, background, pipe, reader, aborted, timer,
               capture, shown, written, faults>>

CommandInit ==
  /\ step = "start" /\ code = "none" /\ child = "none" /\ background = "none"
  /\ pipe = [s \in Streams |-> <<>>]
  /\ reader = [s \in Streams |-> "reading"]
  /\ aborted = FALSE
  /\ timer = "set"
  /\ capture = [text |-> <<>>, ends |-> {0}, from |-> 0, total |-> 0, filed |-> Nowhere]
  /\ shown = <<>>
  /\ written = 0
  /\ faults = 0

After(text, start) == SubSeq(text, start + 1, Len(text))

-----------------------------------------------------------------------------
(* truncate.rs                                                             *)

\* The newline at the end is not one of a line.
Body(text) == IF text # <<>> /\ Last(text) = "n" THEN Front(text) ELSE text

LineStarts(text) == {k \in 1 .. Len(text) + 1 : k = 1 \/ text[k - 1] = "n"}
LineCount(text) == Cardinality(LineStarts(text))

\* truncate_tail: the lines at the end that fit, or the end of the last one.
TruncatedTail(text) ==
  LET body == Body(text)
      From(k) == SubSeq(body, k, Len(body))
      fits == {k \in LineStarts(body) :
                 LineCount(From(k)) <= MaxLines /\ Len(From(k)) <= MaxBytes}
      start == IF fits = {} THEN Len(body) - MaxBytes + 1 ELSE Min(fits)
  IN IF LineCount(body) <= MaxLines /\ Len(text) <= MaxBytes
     THEN [content |-> text, truncated |-> FALSE]
     ELSE [content |-> From(start), truncated |-> TRUE]

-----------------------------------------------------------------------------
(* shell_output.rs                                                         *)

\* sanitize_binary_output
Sanitized(chunk) ==
  LET kept == {k \in DOMAIN chunk : chunk[k] # "b"}
      Place(i) == CHOOSE k \in kept : Cardinality({l \in kept : l <= k}) = i
  IN [i \in 1 .. Cardinality(kept) |-> chunk[Place(i)]]

\* The capture is told by all its text: where chunks end in it, from where on they
\* are kept, and from where on the file has it. The chunks at the front go while
\* there are more than twice the bytes that can be shown; the last one stays.
KeptFrom(state, length) ==
  Min({end \in state.ends : state.from <= end /\ length - end <= 2 * MaxBytes}
        \cup {Len(state.text)})

\* A mutation: the file starts with the chunk that made it necessary.
FiledFromNow(state, long) ==
  IF state.filed = Nowhere /\ long THEN Len(state.text) ELSE state.filed

\* The file starts with what is kept when it becomes necessary, and goes on.
FiledFrom(state, long) ==
  IF state.filed = Nowhere /\ long THEN state.from ELSE state.filed

\* capture_chunk
Captured(state, chunk) ==
  LET text == state.text \o Sanitized(chunk)
      total == state.total + Len(chunk)
  IN [text |-> text, ends |-> state.ends \cup {Len(text)},
      from |-> KeptFrom(state, Len(text)), total |-> total,
      filed |-> FiledFrom(state, total > MaxBytes)]

-----------------------------------------------------------------------------
(* The processes                                                           *)

\* What the processes do once exec is done concerns nobody any more.
IsHeld == step # "done" /\ (child = "running" \/ background # "none")

Write ==
  /\ IsHeld
  /\ \E s \in Streams : \E text \in Writes[s] :
       /\ Len(pipe[s]) + Len(text) <= PipeBytes
       /\ written + Len(text) <= MaxWritten
       /\ pipe' = [pipe EXCEPT ![s] = @ \o text]
       /\ written' = written + Len(text)
       /\ reader[s] = "reading"
  /\ UNCHANGED <<step, code, child, background, reader, aborted, timer, capture,
                 shown, faults>>

Fork ==
  /\ IsHeld /\ child = "running" /\ background = "none"
  /\ background' \in {"grouped", "detached"}
  /\ UNCHANGED <<step, code, child, pipe, reader, aborted, timer, capture, shown,
                 written, faults>>

Exit ==
  /\ IsHeld
  /\ \/ child = "running" /\ child' = "exited" /\ UNCHANGED background
     \/ background # "none" /\ background' = "none" /\ UNCHANGED child
  /\ UNCHANGED <<step, code, pipe, reader, aborted, timer, capture, shown, written,
                 faults>>

AbortIsSet ==
  /\ ~aborted /\ step # "done"
  /\ aborted' = TRUE
  /\ UNCHANGED <<step, code, child, background, pipe, reader, timer, capture,
                 shown, written, faults>>

Expire ==
  /\ timer = "set" /\ step \in {"poll", "checks"}
  /\ timer' = "over"
  /\ UNCHANGED <<step, code, child, background, pipe, reader, aborted, capture,
                 shown, written, faults>>

-----------------------------------------------------------------------------
(* read_pipe                                                               *)

Fault == faults < MaxFaults /\ faults' = faults + 1

\* A chunk is captured and told to the caller; either may fail, and ends the reader.
ReadChunk(s) ==
  LET chunk == SubSeq(pipe[s], 1, Min({ReadBytes, Len(pipe[s])}))
      next == Captured(capture, chunk)
  IN /\ reader[s] = "reading" /\ pipe[s] # <<>>
     /\ pipe' = [pipe EXCEPT ![s] = SubSeq(@, Len(chunk) + 1, Len(@))]
     /\ \/ capture' = next /\ UNCHANGED <<reader, faults>>
        \/ /\ Fault
           /\ reader' = [reader EXCEPT ![s] = "failed"]
           /\ \/ capture' = next
              \/ /\ next.filed # Nowhere
                 /\ capture' = [capture EXCEPT !.total = next.total]
     /\ UNCHANGED <<step, code, child, background, aborted, timer, shown, written>>

ReadEnd(s) ==
  /\ reader[s] = "reading" /\ pipe[s] = <<>>
  /\ ~IsHeld /\ child # "none"
  /\ reader' = [reader EXCEPT ![s] = "eof"]
  /\ UNCHANGED <<step, code, child, background, pipe, aborted, timer, capture,
                 shown, written, faults>>

-----------------------------------------------------------------------------
(* exec                                                                    *)

Start ==
  /\ step = "start"
  /\ \/ aborted /\ step' = "finish" /\ code' = "aborted" /\ UNCHANGED child
     \/ ~aborted /\ step' = "poll" /\ child' = "running" /\ UNCHANGED code
  /\ UNCHANGED <<background, pipe, reader, aborted, timer, capture, shown, written,
                 faults>>

\* try_wait
Poll ==
  /\ step = "poll"
  /\ \/ child = "exited" /\ step' = "drain" /\ code' = "exited"
     \/ child = "running" /\ step' = "checks" /\ UNCHANGED code
  /\ UNCHANGED <<child, background, pipe, reader, aborted, timer, capture, shown,
                 written, faults>>

\* A mutation: what the shell has started lives on.
KillShell ==
  /\ child' = IF child = "running" THEN "killed" ELSE child
  /\ UNCHANGED background

\* kill_process_tree: all of the group, which a process may have left.
KillTree ==
  /\ child' = IF child = "running" THEN "killed" ELSE child
  /\ background' = IF background = "grouped" THEN "none" ELSE background

\* The three reasons to end the command, in the order they are looked at.
Checks ==
  /\ step = "checks"
  /\ LET failed == \E s \in Streams : reader[s] = "failed"
         reason == CASE aborted -> "aborted"
                     [] ~aborted /\ failed -> "callback"
                     [] ~aborted /\ ~failed /\ timer = "over" -> "timeout"
                     [] OTHER -> "none"
     IN /\ code' = reason
        /\ \/ reason = "none" /\ step' = "poll" /\ UNCHANGED <<child, background>>
           \/ reason # "none" /\ step' = "drain" /\ KillTree
  /\ UNCHANGED <<pipe, reader, aborted, timer, capture, shown, written, faults>>

\* The readers are joined, without a look at the flag or the clock any more.
Join ==
  /\ step = "drain"
  /\ \A s \in Streams : reader[s] # "reading"
  /\ code' = IF code = "exited" /\ \E s \in Streams : reader[s] = "failed"
             THEN "callback" ELSE code
  /\ step' = IF code' \in {"exited", "aborted"} THEN "finish" ELSE "done"
  /\ UNCHANGED <<child, background, pipe, reader, aborted, timer, capture, shown,
                 written, faults>>

\* finish_capture: an abort that comes after the shell's exit counts as one.
FinishCapture ==
  /\ step = "finish"
  /\ step' = "done"
  /\ \E tail \in {TruncatedTail(After(capture.text, capture.from))} :
       LET files == tail.truncated /\ capture.filed = Nowhere
       IN \/ /\ capture' = [capture EXCEPT !.filed = IF files THEN capture.from ELSE @]
             /\ shown' = <<[output |-> tail.content, truncated |-> tail.truncated,
                            cancelled |-> aborted]>>
             /\ UNCHANGED <<code, faults>>
          \/ files /\ Fault /\ code' = "file" /\ UNCHANGED <<capture, shown>>
  /\ UNCHANGED <<child, background, pipe, reader, aborted, timer, written>>

Exec == Start \/ Poll \/ Checks \/ Join \/ FinishCapture
Reader(s) == ReadChunk(s) \/ ReadEnd(s)

ShellNext ==
  \/ Write \/ Fork \/ Exit \/ AbortIsSet \/ Expire
  \/ \E s \in Streams : Reader(s)
  \/ Exec

ShellSpec == CommandInit /\ [][ShellNext]_shellVars

-----------------------------------------------------------------------------
(* Properties                                                              *)

\* What a command shows is all that was read of it or, told as such, the end of
\* that within the limits, with all of it in the file; and all that was written
\* has been read unless a callback failed.
OutputKept ==
  \A k \in DOMAIN shown :
    /\ ~shown[k].truncated => shown[k].output = capture.text
    /\ shown[k].truncated =>
         /\ capture.filed = 0
         /\ \/ IsSuffix(shown[k].output, capture.text)
            \/ IsSuffix(shown[k].output \o <<"n">>, capture.text)
         /\ Len(shown[k].output) <= MaxBytes
         /\ LineCount(shown[k].output) <= MaxLines
    /\ (\A s \in Streams : reader[s] # "failed") => capture.total = written

\* A process that outlives the shell and holds its pipes: one of the group is only
\* killed while the shell runs, one that has left it never.
OutlivesShell ==
  \/ background = "detached"
  \/ background = "grouped" /\ child = "exited"

\* A command that has exited, was aborted or took too long ends, unless a process
\* it has left holds its output open.
CommandEnds ==
  (step # "done" /\ (aborted \/ timer = "over" \/ child = "exited"))
    ~> (step = "done" \/ OutlivesShell)
===============================================================================
