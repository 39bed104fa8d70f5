-------------------------- MODULE CaptureProperties --------------------------
(* What must hold of the supervision of a command.                         *)
EXTENDS CommandCapture

(* The supervision keeps its types; in particular a stream's buffer never  *)
(* holds more than the limit, and the loop never reads from nothing.       *)
TypeOK ==
    /\ alive \subseteq Group /\ stubborn \subseteq Group /\ piped \subseteq Group
    /\ exit \in {Running, "zero", "other"}
    /\ written \in [Streams -> 0..MaxOutput]
    /\ unread \in [Streams -> 0..PipeCapacity]
    /\ buffers \in [Streams -> 0..Limit]
    /\ registered \subseteq Streams /\ ready \subseteq registered
    /\ {cancelSet, late, cancelled, timedOut, truncated, requested} \subseteq BOOLEAN
    /\ status \in {"none", "cancelled", "timed_out", "output_limit_exceeded",
                   "succeeded", "command_failure"}
    /\ at \in {"top", "read", "terminate", "grace", "done"}
    /\ at = "read" => ready # {}
    /\ Leader \in alive <=> exit = Running

(* Evidence rests on the status: a command that is said to have succeeded  *)
(* did exit with zero, on its own, and everything it wrote is in the       *)
(* artifacts.                                                              *)
SuccessIsComplete ==
    status = "succeeded" =>
        /\ exit = "zero"
        /\ ~requested
        /\ \A s \in Streams : buffers[s] = written[s]

(* A command that takes too long is brought to an end, unless its leader   *)
(* is gone and a child keeps the pipes open.                               *)
TimeoutEnds ==
    late ~> \/ at = "done"
            \/ exit # Running /\ Holders # {}

(* The timeout bounds the capture of a command, whatever it has started.   *)
(* Not so: nothing terminates the children of a leader that has exited.    *)
TimeoutAlwaysEnds == late ~> at = "done"
=============================================================================
