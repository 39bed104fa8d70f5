---------------------------- MODULE CommandCapture ----------------------------
(***************************************************************************)
(* Executor._run and _capture (core/executor.py): the supervision of one   *)
(* command.  The harness reads two pipes, looks at the cancellation and at *)
(* the clock between reads, and ends the command when it is cancelled, too *)
(* slow or too loud.  The command is a leader in a process group of its    *)
(* own and the children it may have started, which share its pipes.        *)
(*                                                                         *)
(* TaskKernel has the whole of this as the step from a start event to a    *)
(* finish event.                                                           *)
(***************************************************************************)
EXTENDS Integers, FiniteSets

CONSTANTS
    Leader,         \* process.pid
    Children,       \* other processes of the group
    Limit,          \* max_output_bytes, in chunks
    PipeCapacity,
    MaxOutput       \* bound: chunks written to a pipe altogether

CaptureAssumption ==
    /\ Leader \notin Children
    /\ Limit \in Nat \ {0}
    /\ PipeCapacity \in Nat \ {0}
    /\ MaxOutput \in Nat

Streams == {"stdout", "stderr"}

Group == Children \cup {Leader}

Running == "running"

VARIABLES
    alive,          \* members of the group that run
    stubborn,       \* members that ignore SIGTERM
    piped,          \* members that have the pipes open while they run
    exit,           \* returncode of the leader: Running, "zero", "other"
    written,        \* chunks ever written, by stream
    unread,         \* chunks in the pipe, by stream
    buffers,        \* chunks kept, by stream
    registered,     \* streams in the selector
    ready,          \* streams select reported, not read yet
    cancelSet, late,    \* the cancellation is set; the timeout has passed
    cancelled, timedOut, truncated, requested,  \* locals of _capture
    status,         \* what _run makes of them
    at              \* where the loop of _capture is

env == <<alive, stubborn, piped, exit, written>>
flags == <<cancelled, timedOut, truncated, requested>>
captureVars ==
    <<env, unread, buffers, registered, ready, cancelSet, late, flags, status, at>>

CaptureInit ==
    /\ alive = Group
    /\ stubborn \in SUBSET Group
    /\ \E S \in SUBSET Children : piped = {Leader} \cup S
    /\ exit = Running
    /\ written = [s \in Streams |-> 0]
    /\ unread = [s \in Streams |-> 0]
    /\ buffers = [s \in Streams |-> 0]
    /\ registered = Streams
    /\ ready = {}
    /\ cancelSet = FALSE /\ late = FALSE
    /\ cancelled = FALSE /\ timedOut = FALSE
    /\ truncated = FALSE /\ requested = FALSE
    /\ status = "none"
    /\ at = "top"

----------------------------------------------------------------------------
(* The command *)

Holders == alive \cap piped

Output(s) ==
    /\ Holders # {}
    /\ unread[s] < PipeCapacity
    /\ written[s] < MaxOutput
    /\ written' = [written EXCEPT ![s] = @ + 1]
    /\ unread' = [unread EXCEPT ![s] = @ + 1]
    /\ UNCHANGED <<alive, stubborn, piped, exit, buffers, registered, ready,
                   cancelSet, late, flags, status, at>>

Exit(p) ==
    /\ p \in alive
    /\ alive' = alive \ {p}
    /\ exit' \in (IF p = Leader THEN {"zero", "other"} ELSE {exit})
    /\ UNCHANGED <<stubborn, piped, written, unread, buffers, registered, ready,
                   cancelSet, late, flags, status, at>>

Cancel ==
    /\ ~cancelSet
    /\ cancelSet' = TRUE
    /\ UNCHANGED <<env, unread, buffers, registered, ready, late, flags,
                   status, at>>

TimePasses ==
    /\ ~late
    /\ late' = TRUE
    /\ UNCHANGED <<env, unread, buffers, registered, ready, cancelSet, flags,
                   status, at>>

----------------------------------------------------------------------------
(* _terminate_process: nothing if the leader has exited; otherwise SIGTERM *)
(* to the group, and SIGKILL to it if the leader is still there after the  *)
(* grace period.                                                           *)

(* Among the streams that are ready, or to the loop condition; select is   *)
(* skipped once, which matters only to streams that are not ready.         *)
Resume == IF ready = {} THEN "top" ELSE "read"

LeaderIsGone ==
    /\ at = "terminate"
    /\ exit # Running
    /\ at' = Resume
    /\ UNCHANGED <<env, unread, buffers, registered, ready, cancelSet, late,
                   flags, status>>

(* A process that handles SIGTERM ends as it likes. *)
Term ==
    /\ at = "terminate"
    /\ exit = Running
    /\ alive' = alive \cap stubborn
    /\ exit' \in (IF Leader \in stubborn THEN {Running} ELSE {"zero", "other"})
    /\ at' = "grace"
    /\ UNCHANGED <<stubborn, piped, written, unread, buffers, registered, ready,
                   cancelSet, late, flags, status>>

GraceHelped ==
    /\ at = "grace"
    /\ exit # Running
    /\ at' = Resume
    /\ UNCHANGED <<env, unread, buffers, registered, ready, cancelSet, late,
                   flags, status>>

(* Mutant: the leader is waited for, and not killed. *)
WaitOn ==
    /\ at = "grace"
    /\ exit = Running
    /\ UNCHANGED captureVars

Kill ==
    /\ at = "grace"
    /\ exit = Running
    /\ alive' = {}
    /\ exit' = "other"
    /\ at' = Resume
    /\ UNCHANGED <<stubborn, piped, written, unread, buffers, registered, ready,
                   cancelSet, late, flags, status>>

----------------------------------------------------------------------------
(* _capture *)

(* Mutant: the leader has exited, whatever the pipes still hold. *)
OverAtExit == exit # Running

Over == registered = {} /\ exit # Running

NoticeCancel ==
    /\ at = "top"
    /\ ~Over /\ ~requested /\ cancelSet
    /\ cancelled' = TRUE /\ requested' = TRUE
    /\ at' = "terminate"
    /\ UNCHANGED <<env, unread, buffers, registered, ready, cancelSet, late,
                   timedOut, truncated, status>>

NoticeTimeout ==
    /\ at = "top"
    /\ ~Over /\ ~requested /\ ~cancelSet /\ late
    /\ timedOut' = TRUE /\ requested' = TRUE
    /\ at' = "terminate"
    /\ UNCHANGED <<env, unread, buffers, registered, ready, cancelSet, late,
                   cancelled, truncated, status>>

Readable == {s \in registered : unread[s] > 0 \/ Holders = {}}

(* select returns what is readable, or nothing after the poll interval. *)
Select ==
    /\ at = "top"
    /\ ~Over
    /\ requested \/ ~(cancelSet \/ late)
    /\ ready' = Readable
    /\ at' = IF Readable = {} THEN "top" ELSE "read"
    /\ UNCHANGED <<env, unread, buffers, registered, cancelSet, late, flags,
                   status>>

AfterRead(s) == IF ready \ {s} = {} THEN "top" ELSE "read"

EndOfFile(s) ==
    /\ at = "read" /\ s \in ready
    /\ unread[s] = 0
    /\ registered' = registered \ {s}
    /\ ready' = ready \ {s}
    /\ at' = AfterRead(s)
    /\ UNCHANGED <<env, unread, buffers, cancelSet, late, flags, status>>

Remaining(s) == Limit - (buffers["stdout"] + buffers["stderr"])

TooMuch(s) == unread[s] > Remaining(s)

Kept(s) == IF TooMuch(s) THEN Remaining(s) ELSE unread[s]

(* What fits is kept; the rest is read and dropped. *)
Read(s) ==
    /\ at = "read" /\ s \in ready
    /\ unread[s] > 0
    /\ unread' = [unread EXCEPT ![s] = 0]
    /\ ready' = ready \ {s}
    /\ buffers' = [buffers EXCEPT ![s] = @ + Kept(s)]
    /\ truncated' = (truncated \/ TooMuch(s))
    /\ requested' = (requested \/ TooMuch(s))
    /\ at' = IF TooMuch(s) /\ ~requested THEN "terminate" ELSE AfterRead(s)
    /\ UNCHANGED <<env, registered, cancelSet, late, cancelled, timedOut,
                   status>>

Status(tooLong) ==
    CASE cancelled -> "cancelled"
      [] ~cancelled /\ timedOut -> "timed_out"
      [] ~cancelled /\ ~timedOut /\ tooLong -> "output_limit_exceeded"
      [] ~cancelled /\ ~timedOut /\ ~tooLong ->
             IF exit = "zero" THEN "succeeded" ELSE "command_failure"

(* Redaction may make the text longer than the limit. *)
Finish ==
    /\ at = "top"
    /\ Over
    /\ \E redactedTooLong \in BOOLEAN : status' = Status(truncated \/ redactedTooLong)
    /\ at' = "done"
    /\ UNCHANGED <<env, unread, buffers, registered, ready, cancelSet, late, flags>>

Capture ==
    \/ LeaderIsGone \/ Term \/ GraceHelped \/ Kill
    \/ NoticeCancel \/ NoticeTimeout \/ Select \/ Finish
    \/ \E s \in Streams : EndOfFile(s) \/ Read(s)

CaptureNext ==
    \/ Capture
    \/ \E s \in Streams : Output(s)
    \/ \E p \in Group : Exit(p)
    \/ Cancel \/ TimePasses

CaptureSpec == CaptureInit /\ [][CaptureNext]_captureVars

(* The harness is scheduled and time passes; the command may do nothing.   *)
CaptureFairSpec == CaptureSpec /\ WF_captureVars(Capture) /\ WF_captureVars(TimePasses)
=============================================================================
