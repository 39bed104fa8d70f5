---------------------------- MODULE ProgressProofs ----------------------------
(*****************************************************************************)
(* Commands and repository transactions. The supervision of a command,       *)
(* proved for every group of processes, any limit and any capacity of the    *)
(* pipes: its types, and that success is said only of a command that ended   *)
(* well and lost nothing. A repository transaction of an invocation that has *)
(* the repository to itself, proved for any files, contents and plans, over  *)
(* failures at any step, crashes and recoveries, crashes of recoveries, and  *)
(* users who edit what no transaction is at work on: it implements the       *)
(* reviewed update. Two overlapping transactions mix their files, so that    *)
(* this is the most the code promises: nothing locks the repository.         *)
(*****************************************************************************)
EXTENDS CaptureProperties, TransactionProperties, TLAPS

----------------------------------------------------------------------------
(* The supervision of a command: the parts of the inductive invariant      *)

(* Why the end of the command is asked for is recorded with the request.   *)
RequestHasReason == requested <=> (cancelled \/ timedOut \/ truncated)

(* What is written is kept or still in the pipe, until something is        *)
(* dropped, which truncated tells.                                         *)
NothingDropped ==
    ~truncated => \A s \in Streams : buffers[s] + unread[s] = written[s]

Room == buffers["stdout"] + buffers["stderr"] <= Limit

(* What select reported stays true until it is read: the pipe is emptied   *)
(* by the harness alone, and holders of a pipe only go.                    *)
ReadyHolds == \A s \in ready : unread[s] > 0 \/ Holders = {}

(* At the top of the loop everything reported has been read.               *)
AllRead == at = "top" => ready = {}

(* A stream that is closed is empty and nobody writes to it any more.      *)
ClosedIsEmpty == \A s \in Streams \ registered : unread[s] = 0 /\ Holders = {}

(* The status is given once, when both streams are closed and the leader   *)
(* has exited.                                                             *)
SaidAtTheEnd ==
    /\ at # "done" => status = "none"
    /\ at = "done" => Over

CaptureInv ==
    /\ TypeOK
    /\ RequestHasReason
    /\ NothingDropped
    /\ Room
    /\ ReadyHolds
    /\ AllRead
    /\ ClosedIsEmpty
    /\ SaidAtTheEnd
    /\ SuccessIsComplete

----------------------------------------------------------------------------
(* At the beginning *)

LEMMA CaptureStarts ==
    ASSUME CaptureAssumption, CaptureInit
    PROVE  CaptureInv
  <1>1. Limit \in Nat /\ PipeCapacity \in Nat /\ MaxOutput \in Nat
    BY DEF CaptureAssumption
  <1>2. \A s \in Streams : written[s] = 0 /\ unread[s] = 0 /\ buffers[s] = 0
    BY DEF CaptureInit
  <1>3. TypeOK
    <2>1. /\ written \in [Streams -> 0..MaxOutput]
          /\ unread \in [Streams -> 0..PipeCapacity]
          /\ buffers \in [Streams -> 0..Limit]
      BY <1>1 DEF CaptureInit
    <2>2. piped \subseteq Group
      BY DEF CaptureInit, Group
    <2>3. Leader \in alive /\ alive \subseteq Group /\ stubborn \subseteq Group
      BY DEF CaptureInit, Group
    <2>4. QED
      BY <2>1, <2>2, <2>3 DEF CaptureInit, TypeOK
  <1>4. Room
    BY <1>1, <1>2 DEF Room, Streams
  <1>5. NothingDropped
    BY <1>2 DEF NothingDropped
  <1>6. RequestHasReason /\ ReadyHolds /\ AllRead /\ ClosedIsEmpty /\ SaidAtTheEnd
    BY DEF CaptureInit, RequestHasReason, ReadyHolds, AllRead, ClosedIsEmpty,
           SaidAtTheEnd
  <1>7. SuccessIsComplete
    BY DEF CaptureInit, SuccessIsComplete
  <1>8. QED
    BY <1>3, <1>4, <1>5, <1>6, <1>7 DEF CaptureInv

----------------------------------------------------------------------------
(* The command and its surroundings *)

LEMMA OutputKeeps ==
    ASSUME CaptureAssumption, CaptureInv, NEW s \in Streams, Output(s)
    PROVE  CaptureInv'
  <1>1. Limit \in Nat /\ PipeCapacity \in Nat /\ MaxOutput \in Nat
    BY DEF CaptureAssumption
  <1>2. TypeOK
    BY DEF CaptureInv
  <1>3. /\ written[s] + 1 \in 0..MaxOutput /\ unread[s] + 1 \in 0..PipeCapacity
        /\ written[s] \in Nat /\ unread[s] \in Nat
    BY <1>1, <1>2 DEF TypeOK, Output
  <1>4. /\ written' = [written EXCEPT ![s] = written[s] + 1]
        /\ unread' = [unread EXCEPT ![s] = unread[s] + 1]
        /\ UNCHANGED <<alive, stubborn, piped, exit, buffers, registered, ready,
                       cancelSet, late, cancelled, timedOut, truncated,
                       requested, status, at>>
    BY DEF Output, flags
  <1>5. TypeOK'
    BY <1>2, <1>3, <1>4 DEF TypeOK
  <1>6. s \in registered
    BY DEF CaptureInv, ClosedIsEmpty, Output
  <1>7. /\ \A r \in Streams : r # s => unread'[r] = unread[r] /\ written'[r] = written[r]
        /\ unread'[s] = unread[s] + 1 /\ written'[s] = written[s] + 1
    BY <1>2, <1>4 DEF TypeOK
  <1>8. NothingDropped'
    <2>1. ASSUME ~truncated, NEW r \in Streams
          PROVE  buffers[r] + unread'[r] = written'[r]
      <3>1. buffers[r] + unread[r] = written[r]
        BY <2>1 DEF CaptureInv, NothingDropped
      <3>2. buffers[r] \in Nat /\ unread[r] \in Nat
        BY <1>1, <1>2 DEF TypeOK
      <3>3. QED
        BY <1>7, <3>1, <3>2
    <2>2. QED
      BY <1>4, <2>1 DEF NothingDropped
  <1>9. Holders' = Holders
    BY <1>4 DEF Holders
  <1>10. ReadyHolds'
    BY <1>2, <1>3, <1>4, <1>7, <1>9 DEF CaptureInv, ReadyHolds, TypeOK
  <1>11. ClosedIsEmpty'
    BY <1>4, <1>6, <1>7, <1>9 DEF CaptureInv, ClosedIsEmpty
  <1>12. at # "done"
    BY <1>6 DEF CaptureInv, SaidAtTheEnd, Over
  <1>13. RequestHasReason' /\ Room' /\ AllRead' /\ SaidAtTheEnd'
    BY <1>4 DEF CaptureInv, RequestHasReason, Room, AllRead, SaidAtTheEnd, Over
  <1>14. SuccessIsComplete'
    BY <1>4, <1>12 DEF CaptureInv, SaidAtTheEnd, SuccessIsComplete
  <1>15. QED
    BY <1>5, <1>8, <1>10, <1>11, <1>13, <1>14 DEF CaptureInv

(* Processes may end, and the harness may ask the group to end, without    *)
(* touching what was written and read.                                     *)
LEMMA EndingKeeps ==
    ASSUME CaptureAssumption, CaptureInv,
           alive' \subseteq alive, exit' \in {Running, "zero", "other"},
           exit # Running => exit' = exit,
           Leader \in alive' <=> exit' = Running,
           at' \in {"top", "read", "terminate", "grace", "done"},
           at' = "done" <=> at = "done", at' = "read" => ready # {},
           at' = "top" => ready = {},
           UNCHANGED <<stubborn, piped, written, unread, buffers, registered,
                       ready, cancelSet, late, flags, status>>
    PROVE  CaptureInv'
  <1>1. Holders' \subseteq Holders
    BY DEF Holders
  <1>2. TypeOK'
    BY DEF CaptureInv, TypeOK, flags
  <1>3. ReadyHolds' /\ ClosedIsEmpty'
    BY <1>1 DEF CaptureInv, ReadyHolds, ClosedIsEmpty
  <1>4. RequestHasReason' /\ NothingDropped' /\ Room' /\ AllRead'
    BY DEF CaptureInv, RequestHasReason, NothingDropped, Room, AllRead, flags
  <1>5. SaidAtTheEnd'
    BY DEF CaptureInv, SaidAtTheEnd, Over
  <1>6. status = "succeeded" => exit # Running
    BY DEF CaptureInv, SaidAtTheEnd, Over
  <1>7. SuccessIsComplete'
    BY <1>6 DEF CaptureInv, SuccessIsComplete, flags
  <1>8. QED
    BY <1>2, <1>3, <1>4, <1>5, <1>7 DEF CaptureInv

LEMMA ExitKeeps ==
    ASSUME CaptureAssumption, CaptureInv, NEW p \in Group, Exit(p)
    PROVE  CaptureInv'
  <1>1. Leader \in alive <=> exit = Running
    BY DEF CaptureInv, TypeOK
  <1>2. /\ p \in alive /\ alive' = alive \ {p}
        /\ p = Leader => exit' \in {"zero", "other"}
        /\ p # Leader => exit' = exit
        /\ UNCHANGED <<stubborn, piped, written, unread, buffers, registered,
                       ready, cancelSet, late, flags, status, at>>
    BY DEF Exit
  <1>3. /\ alive' \subseteq alive
        /\ exit # Running => exit' = exit
        /\ Leader \in alive' <=> exit' = Running
    BY <1>1, <1>2 DEF Running
  <1>4. exit' \in {Running, "zero", "other"}
    BY <1>2 DEF CaptureInv, TypeOK
  <1>5. /\ at \in {"top", "read", "terminate", "grace", "done"}
        /\ at = "read" => ready # {}
        /\ at = "top" => ready = {}
    BY DEF CaptureInv, TypeOK, AllRead
  <1>6. QED
    BY <1>2, <1>3, <1>4, <1>5, EndingKeeps

LEMMA SignalKeeps ==
    ASSUME CaptureAssumption, CaptureInv, Cancel \/ TimePasses
    PROVE  CaptureInv'
  <1>1. /\ cancelSet' \in BOOLEAN /\ late' \in BOOLEAN
        /\ UNCHANGED <<alive, stubborn, piped, exit, written, unread, buffers,
                       registered, ready, cancelled, timedOut, truncated,
                       requested, status, at>>
    BY DEF Cancel, TimePasses, CaptureInv, TypeOK, env, flags
  <1>2. Holders' = Holders
    BY <1>1 DEF Holders
  <1>3. TypeOK'
    BY <1>1 DEF CaptureInv, TypeOK
  <1>4. ReadyHolds' /\ ClosedIsEmpty' /\ SaidAtTheEnd'
    BY <1>1, <1>2 DEF CaptureInv, ReadyHolds, ClosedIsEmpty, SaidAtTheEnd, Over
  <1>5. RequestHasReason' /\ NothingDropped' /\ Room' /\ AllRead'
    BY <1>1 DEF CaptureInv, RequestHasReason, NothingDropped, Room, AllRead
  <1>6. SuccessIsComplete'
    BY <1>1 DEF CaptureInv, SuccessIsComplete
  <1>7. QED
    BY <1>3, <1>4, <1>5, <1>6 DEF CaptureInv

----------------------------------------------------------------------------
(* _terminate_process *)

LEMMA TerminationKeeps ==
    ASSUME CaptureAssumption, CaptureInv,
           LeaderIsGone \/ Term \/ GraceHelped \/ Kill
    PROVE  CaptureInv'
  <1>1. /\ Leader \in alive <=> exit = Running
        /\ exit \in {Running, "zero", "other"}
    BY DEF CaptureInv, TypeOK
  <1>2. /\ Resume \in {"top", "read"}
        /\ Resume = "read" => ready # {}
        /\ Resume = "top" => ready = {}
    BY DEF Resume
  <1>3. CASE LeaderIsGone \/ GraceHelped
    <2>1. /\ at \in {"terminate", "grace"} /\ at' = Resume
          /\ alive' = alive /\ exit' = exit
          /\ UNCHANGED <<stubborn, piped, written, unread, buffers, registered,
                         ready, cancelSet, late, flags, status>>
      BY <1>3 DEF LeaderIsGone, GraceHelped, env
    <2>2. QED
      BY <1>1, <1>2, <2>1, EndingKeeps
  <1>4. CASE Term
    <2>1. /\ at = "terminate" /\ at' = "grace" /\ exit = Running
          /\ alive' = alive \cap stubborn
          /\ Leader \in stubborn => exit' = Running
          /\ Leader \notin stubborn => exit' \in {"zero", "other"}
          /\ UNCHANGED <<stubborn, piped, written, unread, buffers, registered,
                         ready, cancelSet, late, flags, status>>
      BY <1>4 DEF Term
    <2>2. /\ Leader \in alive' <=> exit' = Running
          /\ exit' \in {Running, "zero", "other"}
      BY <1>1, <2>1 DEF Running
    <2>3. QED
      BY <2>1, <2>2, EndingKeeps
  <1>5. CASE Kill
    <2>1. /\ at = "grace" /\ at' = Resume /\ exit = Running
          /\ alive' = {} /\ exit' = "other"
          /\ UNCHANGED <<stubborn, piped, written, unread, buffers, registered,
                         ready, cancelSet, late, flags, status>>
      BY <1>5 DEF Kill
    <2>2. Leader \in alive' <=> exit' = Running
      BY <2>1 DEF Running
    <2>3. QED
      BY <1>2, <2>1, <2>2, EndingKeeps
  <1>6. QED
    BY <1>3, <1>4, <1>5

----------------------------------------------------------------------------
(* _capture *)

LEMMA NoticeKeeps ==
    ASSUME CaptureAssumption, CaptureInv, NoticeCancel \/ NoticeTimeout
    PROVE  CaptureInv'
  <1>1. /\ at = "top" /\ at' = "terminate" /\ ~requested /\ requested'
        /\ cancelled' \in BOOLEAN /\ timedOut' \in BOOLEAN
        /\ cancelled' \/ timedOut'
        /\ UNCHANGED <<alive, stubborn, piped, exit, written, unread, buffers,
                       registered, ready, cancelSet, late, truncated, status>>
        /\ requested' \in BOOLEAN
    BY DEF NoticeCancel, NoticeTimeout, CaptureInv, TypeOK, env
  <1>2. Holders' = Holders
    BY <1>1 DEF Holders
  <1>3. TypeOK'
    BY <1>1 DEF CaptureInv, TypeOK
  <1>4. RequestHasReason'
    BY <1>1 DEF RequestHasReason
  <1>5. ReadyHolds' /\ ClosedIsEmpty'
    BY <1>1, <1>2 DEF CaptureInv, ReadyHolds, ClosedIsEmpty
  <1>6. NothingDropped' /\ Room' /\ AllRead'
    BY <1>1 DEF CaptureInv, NothingDropped, Room, AllRead
  <1>7. SaidAtTheEnd' /\ SuccessIsComplete'
    BY <1>1 DEF CaptureInv, SaidAtTheEnd, SuccessIsComplete
  <1>8. QED
    BY <1>3, <1>4, <1>5, <1>6, <1>7 DEF CaptureInv

LEMMA SelectKeeps ==
    ASSUME CaptureAssumption, CaptureInv, Select
    PROVE  CaptureInv'
  <1>1. /\ at = "top" /\ ready' = Readable
        /\ at' = IF Readable = {} THEN "top" ELSE "read"
        /\ UNCHANGED <<alive, stubborn, piped, exit, written, unread, buffers,
                       registered, cancelSet, late, cancelled, timedOut,
                       truncated, requested, status>>
    BY DEF Select, env, flags
  <1>2. /\ Readable \subseteq registered
        /\ \A s \in Readable : unread[s] > 0 \/ Holders = {}
    BY DEF Readable
  <1>3. Holders' = Holders
    BY <1>1 DEF Holders
  <1>4. TypeOK'
    BY <1>1, <1>2 DEF CaptureInv, TypeOK
  <1>5. ReadyHolds' /\ AllRead'
    BY <1>1, <1>2, <1>3 DEF ReadyHolds, AllRead
  <1>6. ClosedIsEmpty'
    BY <1>1, <1>3 DEF CaptureInv, ClosedIsEmpty
  <1>7. RequestHasReason' /\ NothingDropped' /\ Room'
    BY <1>1 DEF CaptureInv, RequestHasReason, NothingDropped, Room
  <1>8. SaidAtTheEnd' /\ SuccessIsComplete'
    BY <1>1 DEF CaptureInv, SaidAtTheEnd, SuccessIsComplete
  <1>9. QED
    BY <1>4, <1>5, <1>6, <1>7, <1>8 DEF CaptureInv

LEMMA EndOfFileKeeps ==
    ASSUME CaptureAssumption, CaptureInv, NEW s \in Streams, EndOfFile(s)
    PROVE  CaptureInv'
  <1>1. /\ at = "read" /\ s \in ready /\ unread[s] = 0
        /\ registered' = registered \ {s} /\ ready' = ready \ {s}
        /\ at' = IF ready \ {s} = {} THEN "top" ELSE "read"
        /\ UNCHANGED <<alive, stubborn, piped, exit, written, unread, buffers,
                       cancelSet, late, cancelled, timedOut, truncated,
                       requested, status>>
    BY DEF EndOfFile, AfterRead, env, flags
  <1>2. Holders' = Holders
    BY <1>1 DEF Holders
  <1>3. Holders = {}
    BY <1>1 DEF CaptureInv, ReadyHolds
  <1>4. TypeOK'
    BY <1>1 DEF CaptureInv, TypeOK
  <1>5. ReadyHolds' /\ AllRead'
    BY <1>1, <1>2 DEF CaptureInv, ReadyHolds, AllRead
  <1>6. ClosedIsEmpty'
    BY <1>1, <1>2, <1>3 DEF CaptureInv, ClosedIsEmpty
  <1>7. RequestHasReason' /\ NothingDropped' /\ Room'
    BY <1>1 DEF CaptureInv, RequestHasReason, NothingDropped, Room
  <1>8. SaidAtTheEnd' /\ SuccessIsComplete'
    BY <1>1 DEF CaptureInv, SaidAtTheEnd, SuccessIsComplete
  <1>9. QED
    BY <1>4, <1>5, <1>6, <1>7, <1>8 DEF CaptureInv

(* Both buffers together never outgrow the limit, and what is cut off is   *)
(* remembered.                                                             *)
LEMMA KeptFits ==
    ASSUME CaptureAssumption, TypeOK, Room, NEW s \in Streams
    PROVE  /\ Kept(s) \in Nat /\ Remaining(s) \in Nat
           /\ Kept(s) <= Remaining(s)
           /\ ~TooMuch(s) => Kept(s) = unread[s]
           /\ TooMuch(s) \in BOOLEAN
  <1>1. Limit \in Nat /\ PipeCapacity \in Nat
    BY DEF CaptureAssumption
  <1>2. /\ buffers["stdout"] \in Nat /\ buffers["stderr"] \in Nat
        /\ unread[s] \in Nat
    BY <1>1 DEF TypeOK, Streams
  <1>3. Remaining(s) \in Nat
    BY <1>1, <1>2 DEF Room, Remaining
  <1>4. QED
    BY <1>2, <1>3 DEF Kept, TooMuch

LEMMA ReadKeeps ==
    ASSUME CaptureAssumption, CaptureInv, NEW s \in Streams, Read(s)
    PROVE  CaptureInv'
  <1>1. /\ at = "read" /\ s \in ready /\ unread[s] > 0
        /\ unread' = [unread EXCEPT ![s] = 0]
        /\ ready' = ready \ {s}
        /\ buffers' = [buffers EXCEPT ![s] = buffers[s] + Kept(s)]
        /\ truncated' = (truncated \/ TooMuch(s))
        /\ requested' = (requested \/ TooMuch(s))
        /\ at' = IF TooMuch(s) /\ ~requested THEN "terminate"
                 ELSE IF ready \ {s} = {} THEN "top" ELSE "read"
        /\ UNCHANGED <<alive, stubborn, piped, exit, written, registered,
                       cancelSet, late, cancelled, timedOut, status>>
    BY DEF Read, AfterRead, env
  <1>2. TypeOK /\ Room
    BY DEF CaptureInv
  <1>3. Limit \in Nat /\ PipeCapacity \in Nat /\ MaxOutput \in Nat
    BY DEF CaptureAssumption
  <1>4. /\ Kept(s) \in Nat /\ Kept(s) <= Remaining(s)
        /\ ~TooMuch(s) => Kept(s) = unread[s]
        /\ TooMuch(s) \in BOOLEAN
    BY <1>2, KeptFits
  <1>5. /\ buffers'[s] = buffers[s] + Kept(s) /\ unread'[s] = 0
        /\ \A r \in Streams : r # s => buffers'[r] = buffers[r] /\ unread'[r] = unread[r]
    BY <1>1, <1>2 DEF TypeOK
  <1>6. \A r \in Streams : /\ buffers[r] \in Nat /\ unread[r] \in Nat
                            /\ written[r] \in Nat
    BY <1>2, <1>3 DEF TypeOK
  <1>7. Room'
    <2>1. Remaining(s) = Limit - (buffers["stdout"] + buffers["stderr"])
      BY DEF Remaining
    <2>2. CASE s = "stdout"
      BY <1>3, <1>4, <1>5, <1>6, <2>1, <2>2 DEF Room, Streams
    <2>3. CASE s = "stderr"
      BY <1>3, <1>4, <1>5, <1>6, <2>1, <2>3 DEF Room, Streams
    <2>4. QED
      BY <2>2, <2>3 DEF Streams
  <1>8. TypeOK'
    <2>1. buffers[s] + Kept(s) \in 0..Limit
      <3>1. /\ buffers["stdout"] \in Nat /\ buffers["stderr"] \in Nat
            /\ s = "stdout" \/ s = "stderr"
        BY <1>6 DEF Streams
      <3>2. QED
        BY <1>3, <1>4, <3>1 DEF Remaining
    <2>2. buffers' \in [Streams -> 0..Limit] /\ unread' \in [Streams -> 0..PipeCapacity]
      BY <1>1, <1>2, <1>3, <2>1 DEF TypeOK
    <2>3. /\ truncated' \in BOOLEAN /\ requested' \in BOOLEAN
          /\ truncated \in BOOLEAN /\ requested \in BOOLEAN
      BY <1>1, <1>2, <1>4 DEF TypeOK
    <2>4. /\ at' \in {"top", "read", "terminate", "grace", "done"}
          /\ at' = "read" => ready' # {}
      BY <1>1
    <2>5. QED
      BY <1>1, <1>2, <2>2, <2>3, <2>4 DEF TypeOK
  <1>9. RequestHasReason'
    BY <1>1 DEF CaptureInv, RequestHasReason
  <1>10. NothingDropped'
    <2>1. ASSUME ~truncated', NEW r \in Streams
          PROVE  buffers'[r] + unread'[r] = written[r]
      <3>1. ~truncated /\ ~TooMuch(s)
        BY <1>1, <2>1
      <3>2. buffers[r] + unread[r] = written[r] /\ Kept(s) = unread[s]
        BY <1>4, <3>1 DEF CaptureInv, NothingDropped
      <3>3. QED
        BY <1>5, <1>6, <3>2
    <2>2. QED
      BY <1>1, <2>1 DEF NothingDropped
  <1>11. Holders' = Holders
    BY <1>1 DEF Holders
  <1>12. ReadyHolds' /\ AllRead'
    BY <1>1, <1>2, <1>5, <1>11 DEF CaptureInv, ReadyHolds, AllRead, TypeOK
  <1>13. ClosedIsEmpty'
    BY <1>1, <1>2, <1>5, <1>11 DEF CaptureInv, ClosedIsEmpty, TypeOK
  <1>14. SaidAtTheEnd' /\ SuccessIsComplete'
    BY <1>1 DEF CaptureInv, SaidAtTheEnd, SuccessIsComplete
  <1>15. QED
    BY <1>7, <1>8, <1>9, <1>10, <1>12, <1>13, <1>14 DEF CaptureInv

LEMMA FinishKeeps ==
    ASSUME CaptureAssumption, CaptureInv, Finish
    PROVE  CaptureInv'
  <1>1. PICK long \in BOOLEAN : status' = Status(truncated \/ long)
    BY DEF Finish
  <1>2. /\ at = "top" /\ Over /\ at' = "done"
        /\ UNCHANGED <<alive, stubborn, piped, exit, written, unread, buffers,
                       registered, ready, cancelSet, late, cancelled, timedOut,
                       truncated, requested>>
    BY DEF Finish, env, flags
  <1>3. {cancelled, timedOut, truncated} \subseteq BOOLEAN
    BY DEF CaptureInv, TypeOK
  <1>4. /\ status' \in {"cancelled", "timed_out", "output_limit_exceeded",
                         "succeeded", "command_failure"}
        /\ status' = "succeeded" =>
              ~cancelled /\ ~timedOut /\ ~truncated /\ exit = "zero"
    BY <1>1, <1>3 DEF Status
  <1>5. TypeOK'
    BY <1>2, <1>4 DEF CaptureInv, TypeOK
  <1>6. SuccessIsComplete'
    <2>1. ASSUME status' = "succeeded"
          PROVE  exit = "zero" /\ ~requested /\ \A s \in Streams : buffers[s] = written[s]
      <3>1. exit = "zero" /\ ~truncated /\ ~requested
        BY <1>4, <2>1 DEF CaptureInv, RequestHasReason
      <3>2. \A s \in Streams : unread[s] = 0 /\ buffers[s] + unread[s] = written[s]
        BY <1>2, <3>1 DEF CaptureInv, NothingDropped, ClosedIsEmpty, Over
      <3>3. \A s \in Streams : buffers[s] \in Nat
        BY DEF CaptureInv, TypeOK, CaptureAssumption
      <3>4. QED
        BY <3>1, <3>2, <3>3
    <2>2. QED
      BY <1>2, <2>1 DEF SuccessIsComplete
  <1>7. Holders' = Holders
    BY <1>2 DEF Holders
  <1>8. ReadyHolds' /\ ClosedIsEmpty' /\ AllRead'
    BY <1>2, <1>7 DEF CaptureInv, ReadyHolds, ClosedIsEmpty, AllRead
  <1>9. RequestHasReason' /\ NothingDropped' /\ Room' /\ SaidAtTheEnd'
    BY <1>2 DEF CaptureInv, RequestHasReason, NothingDropped, Room, SaidAtTheEnd, Over
  <1>10. QED
    BY <1>5, <1>6, <1>8, <1>9 DEF CaptureInv

----------------------------------------------------------------------------

LEMMA CaptureStep ==
    ASSUME CaptureAssumption, CaptureInv, [CaptureNext]_captureVars
    PROVE  CaptureInv'
  <1>1. CASE Capture
    BY <1>1, TerminationKeeps, NoticeKeeps, SelectKeeps, FinishKeeps,
       EndOfFileKeeps, ReadKeeps DEF Capture
  <1>2. CASE \E s \in Streams : Output(s)
    BY <1>2, OutputKeeps
  <1>3. CASE \E p \in Group : Exit(p)
    BY <1>3, ExitKeeps
  <1>4. CASE Cancel \/ TimePasses
    BY <1>4, SignalKeeps
  <1>5. CASE UNCHANGED captureVars
    BY <1>5 DEF CaptureInv, TypeOK, RequestHasReason, NothingDropped, Room,
       ReadyHolds, AllRead, ClosedIsEmpty, SaidAtTheEnd, SuccessIsComplete,
       Holders, Over, captureVars, env, flags
  <1>6. QED
    BY <1>1, <1>2, <1>3, <1>4, <1>5 DEF CaptureNext

LEMMA CaptureInvariant == CaptureAssumption => (CaptureSpec => []CaptureInv)
  <1> SUFFICES ASSUME CaptureAssumption
               PROVE  CaptureSpec => []CaptureInv
    OBVIOUS
  <1>1. QED
    BY CaptureStarts, CaptureStep, PTL DEF CaptureSpec

(* The supervision keeps its types: what is kept of the output stays       *)
(* within the limit whatever the command writes, and the leader is alive   *)
(* exactly as long as it has no return code.                               *)
THEOREM CaptureTypeCorrect == CaptureAssumption => (CaptureSpec => []TypeOK)
  <1>1. CaptureInv => TypeOK
    BY DEF CaptureInv
  <1>2. QED
    BY <1>1, CaptureInvariant, PTL

(* Evidence rests on this: a command is said to have succeeded only when   *)
(* its leader exited with zero, nobody asked for its end, and everything   *)
(* that it and its children wrote was kept.                                *)
THEOREM SuccessMeansComplete ==
    CaptureAssumption => (CaptureSpec => []SuccessIsComplete)
  <1>1. CaptureInv => SuccessIsComplete
    BY DEF CaptureInv
  <1>2. QED
    BY <1>1, CaptureInvariant, PTL

----------------------------------------------------------------------------
Journals == [id : Nat, before : PartialContents, after : PartialContents]

(* One invocation, and a user who keeps off unfinished transactions.       *)
Undisturbed ==
    /\ TransactionAssumption
    /\ \A p, q \in Procs : p = q
    /\ "meddle" \notin Disturbances

TransactionTypeOK ==
    /\ files \in [Paths -> Contents0]
    /\ journal \in Journals \cup {NoJournal}
    /\ pc \in [Procs -> Points]
    /\ loc \in [Procs -> Locals]
    /\ begun \in Nat

(* Before the journal is written.                                          *)
Early(p) == pc[p] \in {"idle", "planned", "validate"}

(* The journal is what the invocation works from.                          *)
JournalIsOwn(p) ==
    /\ pc[p] = "validate" => ~Pending
    /\ ~Early(p) =>
           /\ Pending
           /\ journal.before = loc[p].before

WithinReview(p) ==
    /\ ~loc[p].undo => DOMAIN loc[p].after = Targets(p)
    /\ loc[p].todo \subseteq Targets(p)
    /\ pc[p] = "idle" => loc[p] = NoLocals
    /\ pc[p] \notin {"idle", "restore", "sweep", "unlink"} => ~loc[p].undo
    /\ pc[p] = "restore" => loc[p].undo
    /\ pc[p] # "idle" /\ ~loc[p].undo => Targets(p) # {}

(* What lies at the paths of the transaction, as far as it has come.       *)
Lies(p, path) ==
    CASE pc[p] = "validate" -> path \notin loc[p].todo => files[path] = loc[p].before[path]
      [] pc[p] = "stage" -> files[path] = loc[p].before[path]
      [] pc[p] = "commit" ->
             files[path] = IF path \in loc[p].todo THEN loc[p].before[path]
                           ELSE loc[p].after[path]
      [] pc[p] = "restore" -> path \notin loc[p].todo => files[path] = loc[p].before[path]
      [] pc[p] \in {"sweep", "unlink"} ->
             files[path] = IF loc[p].undo THEN loc[p].before[path]
                           ELSE loc[p].after[path]
      [] OTHER -> TRUE

TransactionInv ==
    /\ TransactionTypeOK
    /\ \A p \in Procs :
           /\ JournalIsOwn(p)
           /\ WithinReview(p)
           /\ \A path \in Targets(p) : Lies(p, path)

----------------------------------------------------------------------------
(* Contents by path *)

LEMMA PartialOn ==
    ASSUME NEW D \in SUBSET Paths, NEW f \in [D -> Contents0]
    PROVE  f \in PartialContents
  BY DEF PartialContents

LEMMA PartialAt ==
    ASSUME NEW f \in PartialContents
    PROVE  /\ DOMAIN f \subseteq Paths
           /\ f \in [DOMAIN f -> Contents0]
  <1>1. PICK D \in SUBSET Paths : f \in [D -> Contents0]
    BY DEF PartialContents
  <1>2. DOMAIN f = D
    BY <1>1
  <1>3. QED
    BY <1>1, <1>2

LEMMA RestrictIs ==
    ASSUME NEW f, NEW S
    PROVE  /\ DOMAIN Restrict(f, S) = S
           /\ \A x \in S : Restrict(f, S)[x] = f[x]
  BY DEF Restrict

LEMMA RestrictPartial ==
    ASSUME NEW D \in SUBSET Paths, NEW f, \A x \in D : f[x] \in Contents0
    PROVE  Restrict(f, D) \in PartialContents
  <1>1. Restrict(f, D) \in [D -> Contents0]
    BY DEF Restrict
  <1>2. QED
    BY <1>1, PartialOn

LEMMA NoLocalsType ==
    /\ NoLocals \in Locals /\ NoLocals.undo = FALSE /\ NoLocals.todo = {}
    /\ DOMAIN NoLocals.before = {} /\ DOMAIN NoLocals.after = {}
  <1>1. Empty \in [{} -> Contents0] /\ DOMAIN Empty = {}
    BY DEF Empty
  <1>2. Empty \in PartialContents
    BY <1>1, PartialOn
  <1>3. QED
    BY <1>1, <1>2 DEF NoLocals, Locals

----------------------------------------------------------------------------
(* The invocation moves alone *)

LEMMA SoleMoves ==
    ASSUME Undisturbed, TransactionInv, NEW p \in Procs,
           NEW x \in Points, NEW l \in Locals,
           pc' = [pc EXCEPT ![p] = x], loc' = [loc EXCEPT ![p] = l],
           files' \in [Paths -> Contents0], journal' \in Journals \cup {NoJournal},
           begun' \in Nat,
           JournalIsOwn(p)', WithinReview(p)', \A path \in Targets(p)' : Lies(p, path)'
    PROVE  TransactionInv'
  <1>1. TransactionTypeOK'
    BY DEF TransactionInv, TransactionTypeOK
  <1>2. \A q \in Procs : q = p
    BY DEF Undisturbed
  <1>3. QED
    BY <1>1, <1>2 DEF TransactionInv

(* What the sole invocation has, in the terms a step is written in.        *)
Has(p) ==
    /\ files \in [Paths -> Contents0]
    /\ journal \in Journals \cup {NoJournal}
    /\ begun \in Nat
    /\ pc \in [Procs -> Points] /\ loc \in [Procs -> Locals]
    /\ pc[p] \in Points /\ loc[p] \in Locals
    /\ loc[p].id \in Nat /\ loc[p].undo \in BOOLEAN
    /\ loc[p].before \in PartialContents /\ loc[p].after \in PartialContents
    /\ Targets(p) \in SUBSET Paths /\ loc[p].todo \in SUBSET Paths
    /\ \A path \in Targets(p) : loc[p].before[path] \in Contents0
    /\ \A path \in DOMAIN loc[p].after : loc[p].after[path] \in Contents0
    /\ JournalIsOwn(p) /\ WithinReview(p) /\ \A path \in Targets(p) : Lies(p, path)

LEMMA InvocationHas ==
    ASSUME TransactionInv, NEW p \in Procs
    PROVE  Has(p)
  <1>1. /\ files \in [Paths -> Contents0] /\ journal \in Journals \cup {NoJournal}
        /\ begun \in Nat /\ pc \in [Procs -> Points] /\ loc \in [Procs -> Locals]
    BY DEF TransactionInv, TransactionTypeOK
  <1>2. /\ pc[p] \in Points /\ loc[p] \in Locals
    BY <1>1
  <1>3. /\ loc[p].id \in Nat /\ loc[p].undo \in BOOLEAN
        /\ loc[p].before \in PartialContents /\ loc[p].after \in PartialContents
        /\ loc[p].todo \in SUBSET Paths
    BY <1>2 DEF Locals
  <1>4. /\ Targets(p) \in SUBSET Paths
        /\ \A path \in Targets(p) : loc[p].before[path] \in Contents0
        /\ \A path \in DOMAIN loc[p].after : loc[p].after[path] \in Contents0
    BY <1>3, PartialAt DEF Targets
  <1>5. /\ JournalIsOwn(p) /\ WithinReview(p)
        /\ \A path \in Targets(p) : Lies(p, path)
    BY DEF TransactionInv
  <1>6. QED
    BY <1>1, <1>2, <1>3, <1>4, <1>5 DEF Has

(* Whatever ends, the files stay as they are.                              *)
LEMMA EndMoves ==
    ASSUME Undisturbed, TransactionInv, NEW p \in Procs, End(p), files' = files,
           journal' \in {journal, NoJournal}, begun' = begun
    PROVE  TransactionInv'
  <1>1. Has(p)
    BY InvocationHas
  <1>2. pc' = [pc EXCEPT ![p] = "idle"] /\ loc' = [loc EXCEPT ![p] = NoLocals]
    BY DEF End, Goto
  <1>3. pc'[p] = "idle" /\ loc'[p] = NoLocals
    BY <1>1, <1>2 DEF Has
  <1>4. JournalIsOwn(p)' /\ WithinReview(p)' /\ \A path \in Targets(p)' : Lies(p, path)'
    BY <1>3, NoLocalsType DEF JournalIsOwn, Early, WithinReview, Targets, Lies
  <1>5. "idle" \in Points
    BY DEF Points
  <1>6. files' \in [Paths -> Contents0] /\ journal' \in Journals \cup {NoJournal} /\ begun' \in Nat
    BY <1>1 DEF Has
  <1>7. QED
    BY <1>2, <1>4, <1>5, <1>6, NoLocalsType, SoleMoves

LEMMA InvocationEndKeeps ==
    ASSUME Undisturbed, TransactionInv, NEW p \in Procs,
           \/ Decline(p) \/ RefusePending(p) \/ Unlink(p) \/ Crash(p)
           \/ \E path \in Paths : Drifted(p, path)
    PROVE  TransactionInv'
  BY EndMoves DEF Decline, RefusePending, Unlink, Crash, Drifted

LEMMA TransactionInit ==
    ASSUME Undisturbed, Init
    PROVE  TransactionInv
  <1>1. files \in [Paths -> Contents0]
    BY DEF Init, Undisturbed, TransactionAssumption
  <1>2. /\ journal = NoJournal /\ begun = 0
        /\ pc \in [Procs -> Points] /\ loc \in [Procs -> Locals]
    BY NoLocalsType DEF Init, Points
  <1>3. ASSUME NEW p \in Procs
        PROVE  /\ JournalIsOwn(p) /\ WithinReview(p)
               /\ \A path \in Targets(p) : Lies(p, path)
    <2>1. pc[p] = "idle" /\ loc[p] = NoLocals
      BY DEF Init
    <2>2. QED
      BY <2>1, NoLocalsType DEF JournalIsOwn, Early, WithinReview, Targets, Lies
  <1>4. QED
    BY <1>1, <1>2, <1>3 DEF TransactionInv, TransactionTypeOK

----------------------------------------------------------------------------
(* apply *)

(* A step that changes where the invocation is and what is left to do.     *)
LEMMA TodoMoves ==
    ASSUME Undisturbed, TransactionInv, NEW p \in Procs,
           NEW x \in Points, pc' = [pc EXCEPT ![p] = x],
           NEW T \in SUBSET Paths, loc' = [loc EXCEPT ![p].todo = T]
    PROVE  /\ pc'[p] = x /\ loc'[p].todo = T
           /\ loc'[p].id = loc[p].id /\ loc'[p].undo = loc[p].undo
           /\ loc'[p].before = loc[p].before /\ loc'[p].after = loc[p].after
           /\ Targets(p)' = Targets(p)
           /\ (/\ files' \in [Paths -> Contents0]
               /\ journal' \in Journals \cup {NoJournal} /\ begun' \in Nat
               /\ JournalIsOwn(p)' /\ WithinReview(p)'
               /\ \A path \in Targets(p) : Lies(p, path)')
                 => TransactionInv'
  <1> DEFINE l == [loc[p] EXCEPT !.todo = T]
  <1>1. Has(p)
    BY InvocationHas
  <1>2. loc' = [loc EXCEPT ![p] = l]
    BY <1>1 DEF Has, Locals
  <1>3. /\ l \in Locals /\ l.todo = T /\ l.id = loc[p].id /\ l.undo = loc[p].undo
        /\ l.before = loc[p].before /\ l.after = loc[p].after
    BY <1>1 DEF Has, Locals
  <1> HIDE DEF l
  <1>4. pc'[p] = x /\ loc'[p] = l
    BY <1>1, <1>2 DEF Has
  <1>5. Targets(p)' = Targets(p)
    BY <1>3, <1>4 DEF Targets
  <1>6. ASSUME files' \in [Paths -> Contents0],
               journal' \in Journals \cup {NoJournal}, begun' \in Nat,
               JournalIsOwn(p)', WithinReview(p)',
               \A path \in Targets(p) : Lies(p, path)'
        PROVE  TransactionInv'
    <2>1. \A path \in Targets(p)' : Lies(p, path)'
      BY <1>5, <1>6
    <2>2. QED
      BY <1>2, <1>3, <1>6, <2>1, SoleMoves
  <1>7. QED
    BY <1>3, <1>4, <1>5, <1>6

LEMMA PlanKeeps ==
    ASSUME Undisturbed, TransactionInv, NEW p \in Procs, NEW wanted \in Plans,
           Plan(p, wanted)
    PROVE  TransactionInv'
  <1> DEFINE D == {path \in DOMAIN wanted : wanted[path] # files[path]}
             l == [NoLocals EXCEPT !.before = Restrict(files, D),
                                   !.after = Restrict(wanted, D)]
  <1>1. /\ pc[p] = "idle" /\ D # {} /\ pc' = [pc EXCEPT ![p] = "planned"]
        /\ loc' = [loc EXCEPT ![p] = l]
        /\ UNCHANGED <<files, journal, staged, begun>>
    BY DEF Plan, Goto
  <1>2. Has(p)
    BY InvocationHas
  <1>3. /\ D \in SUBSET Paths
        /\ \A path \in D : wanted[path] \in Contents0 /\ files[path] \in Contents0
    <2>1. PICK E \in SUBSET Paths : wanted \in [E -> Contents]
      BY DEF Undisturbed, TransactionAssumption
    <2>2. QED
      BY <1>2, <2>1 DEF Contents0, Has
  <1> HIDE DEF D
  <1>4. Restrict(files, D) \in PartialContents /\ Restrict(wanted, D) \in PartialContents
    BY <1>3, RestrictPartial
  <1>5. DOMAIN Restrict(files, D) = D /\ DOMAIN Restrict(wanted, D) = D
    BY RestrictIs
  <1>6. /\ l \in Locals /\ l.before = Restrict(files, D) /\ l.after = Restrict(wanted, D)
        /\ l.todo = {} /\ l.undo = FALSE
    BY <1>4 DEF NoLocals, Locals
  <1> HIDE DEF l
  <1>7. pc'[p] = "planned" /\ loc'[p] = l
    BY <1>1, <1>2 DEF Has
  <1>8. JournalIsOwn(p)' /\ \A path \in Targets(p)' : Lies(p, path)'
    BY <1>7 DEF JournalIsOwn, Early, Lies
  <1>9. WithinReview(p)'
    BY <1>1, <1>5, <1>6, <1>7 DEF WithinReview, Targets
  <1>10. "planned" \in Points
    BY DEF Points
  <1>11. QED
    BY <1>1, <1>2, <1>6, <1>8, <1>9, <1>10, SoleMoves DEF Has

LEMMA CheckPendingKeeps ==
    ASSUME Undisturbed, TransactionInv, NEW p \in Procs, CheckPending(p)
    PROVE  TransactionInv'
  <1>1. /\ pc[p] = "planned" /\ ~Pending /\ pc' = [pc EXCEPT ![p] = "validate"]
        /\ loc' = [loc EXCEPT ![p].todo = Targets(p)]
        /\ UNCHANGED <<files, journal, staged, begun>>
    BY DEF CheckPending, Goto
  <1>2. Has(p) /\ "validate" \in Points
    BY InvocationHas DEF Points
  <1>3. Targets(p) \in SUBSET Paths
    BY <1>2 DEF Has
  <1>4. /\ pc'[p] = "validate" /\ loc'[p].todo = Targets(p)
        /\ loc'[p].undo = loc[p].undo /\ loc'[p].before = loc[p].before
        /\ loc'[p].after = loc[p].after /\ Targets(p)' = Targets(p)
    BY <1>1, <1>2, <1>3, TodoMoves
  <1>5. JournalIsOwn(p)' /\ WithinReview(p)' /\ \A path \in Targets(p) : Lies(p, path)'
    BY <1>1, <1>2, <1>4 DEF Has, JournalIsOwn, Early, WithinReview, Lies, Pending
  <1>6. /\ files' \in [Paths -> Contents0] /\ journal' \in Journals \cup {NoJournal}
        /\ begun' \in Nat
    BY <1>1, <1>2 DEF Has
  <1>7. QED
    BY <1>1, <1>2, <1>3, <1>5, <1>6, TodoMoves

(* Going through the paths one by one.                                     *)
LEMMA ValidateKeeps ==
    ASSUME Undisturbed, TransactionInv, NEW p \in Procs, NEW path \in Paths,
           Validate(p, path) \/ Stage(p, path)
    PROVE  TransactionInv'
  <1> DEFINE T == loc[p].todo \ {path}
  <1>1. Has(p)
    BY InvocationHas
  <1>2. /\ pc[p] \in {"validate", "stage"} /\ path \in loc[p].todo /\ pc' = pc
        /\ pc[p] = "validate" => files[path] = loc[p].before[path]
        /\ loc' = [loc EXCEPT ![p].todo = loc[p].todo \ {path}]
        /\ UNCHANGED <<files, journal, begun>>
    BY <1>1 DEF Validate, Stage, Done, Has, Locals
  <1>3. T \in SUBSET Paths /\ pc' = [pc EXCEPT ![p] = pc[p]] /\ pc[p] \in Points
    BY <1>1, <1>2 DEF Has
  <1>4. loc' = [loc EXCEPT ![p].todo = T]
    BY <1>2
  <1>5. T \subseteq loc[p].todo /\ \A q \in Paths : q \notin T => q \notin loc[p].todo \/ q = path
    OBVIOUS
  <1> HIDE DEF T
  <1>6. /\ pc'[p] = pc[p] /\ loc'[p].todo = T
        /\ loc'[p].undo = loc[p].undo /\ loc'[p].before = loc[p].before
        /\ loc'[p].after = loc[p].after /\ Targets(p)' = Targets(p)
    BY <1>3, <1>4, TodoMoves
  <1>7. JournalIsOwn(p)'
    BY <1>1, <1>2, <1>6 DEF Has, JournalIsOwn, Early, Pending
  <1>8. WithinReview(p)'
    BY <1>1, <1>2, <1>5, <1>6 DEF Has, WithinReview
  <1>9. ASSUME NEW q \in Targets(p)
        PROVE  Lies(p, q)'
    <2>1. q \in Paths /\ Lies(p, q)
      BY <1>1 DEF Has
    <2>2. QED
      BY <1>2, <1>5, <1>6, <2>1 DEF Lies
  <1>10. /\ files' \in [Paths -> Contents0] /\ journal' \in Journals \cup {NoJournal}
         /\ begun' \in Nat
    BY <1>1, <1>2 DEF Has
  <1>11. QED
    BY <1>3, <1>4, <1>7, <1>8, <1>9, <1>10, TodoMoves

(* The journal of a transaction is never NoJournal.                        *)
LEMMA JournalOfIs ==
    ASSUME Undisturbed, NEW p \in Procs, Has(p), NEW id \in Nat
    PROVE  /\ JournalOf(p, id) \in Journals
           /\ JournalOf(p, id) # NoJournal
           /\ JournalOf(p, id).before = loc[p].before
  <1>1. JournalOf(p, id) \in Journals
    BY DEF JournalOf, Backup, Journals, Has
  <1>2. QED
    BY <1>1 DEF JournalOf, Backup, Undisturbed, TransactionAssumption, Journals

LEMMA PrepareKeeps ==
    ASSUME Undisturbed, TransactionInv, NEW p \in Procs, Prepare(p)
    PROVE  TransactionInv'
  <1> DEFINE l == [loc[p] EXCEPT !.id = begun + 1, !.todo = Targets(p)]
  <1>1. /\ pc[p] = "validate" /\ loc[p].todo = {} /\ begun' = begun + 1
        /\ journal' = JournalOf(p, begun + 1) /\ pc' = [pc EXCEPT ![p] = "stage"]
        /\ files' = files
    BY DEF Prepare, Goto
  <1>2. Has(p) /\ "stage" \in Points
    BY InvocationHas DEF Points
  <1>3. begun + 1 \in Nat
    BY <1>2 DEF Has
  <1>4. loc' = [loc EXCEPT ![p] = l]
    BY <1>2 DEF Prepare, Has, Locals
  <1>5. /\ l \in Locals /\ l.todo = Targets(p) /\ l.undo = loc[p].undo
        /\ l.before = loc[p].before /\ l.after = loc[p].after
    BY <1>2, <1>3 DEF Has, Locals
  <1> HIDE DEF l
  <1>6. pc'[p] = "stage" /\ loc'[p] = l /\ Targets(p)' = Targets(p)
    BY <1>1, <1>2, <1>4, <1>5 DEF Has, Targets
  <1>7. journal' \in Journals /\ journal' # NoJournal /\ journal'.before = loc[p].before
    BY <1>1, <1>2, <1>3, JournalOfIs
  <1>8. JournalIsOwn(p)'
    BY <1>5, <1>6, <1>7 DEF JournalIsOwn, Early, Pending
  <1>9. WithinReview(p)'
    BY <1>1, <1>2, <1>5, <1>6 DEF Has, WithinReview
  <1>10. ASSUME NEW path \in Targets(p)'
         PROVE  Lies(p, path)'
    BY <1>1, <1>2, <1>5, <1>6, <1>10 DEF Has, Lies
  <1>11. files' \in [Paths -> Contents0] /\ begun' \in Nat
    BY <1>1, <1>2, <1>3 DEF Has
  <1>12. QED
    BY <1>1, <1>2, <1>4, <1>5, <1>7, <1>8, <1>9, <1>10, <1>11, SoleMoves

LEMMA MarkStagedKeeps ==
    ASSUME Undisturbed, TransactionInv, NEW p \in Procs, MarkStaged(p)
    PROVE  TransactionInv'
  <1>1. /\ pc[p] = "stage" /\ journal' = JournalOf(p, loc[p].id)
        /\ pc' = [pc EXCEPT ![p] = "commit"]
        /\ loc' = [loc EXCEPT ![p].todo = Targets(p)]
        /\ files' = files /\ begun' = begun
    BY DEF MarkStaged, Goto
  <1>2. Has(p) /\ "commit" \in Points
    BY InvocationHas DEF Points
  <1>3. Targets(p) \in SUBSET Paths /\ loc[p].id \in Nat
    BY <1>2 DEF Has
  <1>4. /\ pc'[p] = "commit" /\ loc'[p].todo = Targets(p)
        /\ loc'[p].undo = loc[p].undo /\ loc'[p].before = loc[p].before
        /\ loc'[p].after = loc[p].after /\ Targets(p)' = Targets(p)
    BY <1>1, <1>2, <1>3, TodoMoves
  <1>5. journal' \in Journals /\ journal' # NoJournal /\ journal'.before = loc[p].before
    BY <1>1, <1>2, <1>3, JournalOfIs
  <1>6. JournalIsOwn(p)' /\ WithinReview(p)' /\ \A path \in Targets(p) : Lies(p, path)'
    BY <1>1, <1>2, <1>4, <1>5 DEF Has, JournalIsOwn, Early, WithinReview, Lies, Pending
  <1>7. files' \in [Paths -> Contents0] /\ begun' \in Nat
    BY <1>1, <1>2 DEF Has
  <1>8. QED
    BY <1>1, <1>2, <1>3, <1>5, <1>6, <1>7, TodoMoves

(* A file is put into place, or put back.                                  *)
LEMMA ReplaceKeeps ==
    ASSUME Undisturbed, TransactionInv, NEW p \in Procs, NEW path \in Paths,
           Commit(p, path) \/ Restore(p, path)
    PROVE  TransactionInv'
  <1> DEFINE T == loc[p].todo \ {path}
  <1>1. Has(p)
    BY InvocationHas
  <1>2. /\ pc[p] \in {"commit", "restore"} /\ path \in loc[p].todo /\ pc' = pc
        /\ loc' = [loc EXCEPT ![p].todo = loc[p].todo \ {path}]
        /\ UNCHANGED <<journal, begun>>
        /\ pc[p] = "commit" => files' = [files EXCEPT ![path] = loc[p].after[path]]
        /\ pc[p] = "restore" => files' = [files EXCEPT ![path] = loc[p].before[path]]
    BY <1>1 DEF Commit, Restore, Done, Has, Locals
  <1>3. T \in SUBSET Paths /\ pc' = [pc EXCEPT ![p] = pc[p]] /\ pc[p] \in Points
    BY <1>1, <1>2 DEF Has
  <1>4. loc' = [loc EXCEPT ![p].todo = T]
    BY <1>2
  <1>5. T \subseteq loc[p].todo /\ path \notin T
        /\ \A q \in Paths : q \notin T => q \notin loc[p].todo \/ q = path
    OBVIOUS
  <1> HIDE DEF T
  <1>6. /\ pc'[p] = pc[p] /\ loc'[p].todo = T
        /\ loc'[p].undo = loc[p].undo /\ loc'[p].before = loc[p].before
        /\ loc'[p].after = loc[p].after /\ Targets(p)' = Targets(p)
    BY <1>3, <1>4, TodoMoves
  <1>7. /\ path \in Targets(p)
        /\ pc[p] = "commit" => path \in DOMAIN loc[p].after
    BY <1>1, <1>2 DEF Has, WithinReview
  <1>8. /\ files' \in [Paths -> Contents0]
        /\ \A q \in Paths : q # path => files'[q] = files[q]
        /\ pc[p] = "commit" => files'[path] = loc[p].after[path]
        /\ pc[p] = "restore" => files'[path] = loc[p].before[path]
    BY <1>1, <1>2, <1>7 DEF Has
  <1>9. JournalIsOwn(p)'
    BY <1>1, <1>2, <1>6 DEF Has, JournalIsOwn, Early, Pending
  <1>10. WithinReview(p)'
    BY <1>1, <1>2, <1>5, <1>6 DEF Has, WithinReview
  <1>11. ASSUME NEW q \in Targets(p)
         PROVE  Lies(p, q)'
    <2>1. q \in Paths /\ Lies(p, q)
      BY <1>1 DEF Has
    <2>2. QED
      BY <1>2, <1>5, <1>6, <1>8, <2>1 DEF Lies
  <1>12. journal' \in Journals \cup {NoJournal} /\ begun' \in Nat
    BY <1>1, <1>2 DEF Has
  <1>13. QED
    BY <1>3, <1>4, <1>8, <1>9, <1>10, <1>11, <1>12, TodoMoves

(* From one loop to the next.                                              *)
LEMMA LoopKeeps ==
    ASSUME Undisturbed, TransactionInv, NEW p \in Procs,
           AllCommitted(p) \/ Restored(p) \/ Sweep(p)
    PROVE  TransactionInv'
  <1>1. Has(p) /\ {"sweep", "unlink"} \subseteq Points
    BY InvocationHas DEF Points
  <1>2. PICK x \in {"sweep", "unlink"} : pc' = [pc EXCEPT ![p] = x]
    BY DEF AllCommitted, Restored, Sweep, Goto
  <1>3. /\ pc[p] \in {"commit", "restore", "sweep"}
        /\ pc[p] \in {"commit", "restore"} => loc[p].todo = {}
        /\ UNCHANGED <<files, journal, loc, begun>>
    BY DEF AllCommitted, Restored, Sweep
  <1>4. pc'[p] = x /\ Targets(p)' = Targets(p) /\ loc' = [loc EXCEPT ![p] = loc[p]]
    BY <1>1, <1>2, <1>3 DEF Has, Targets
  <1>5. JournalIsOwn(p)' /\ WithinReview(p)'
    BY <1>1, <1>3, <1>4 DEF Has, JournalIsOwn, Early, Pending, WithinReview
  <1>6. ASSUME NEW path \in Targets(p)'
        PROVE  Lies(p, path)'
    <2>1. Lies(p, path)
      BY <1>1, <1>4, <1>6 DEF Has
    <2>2. QED
      BY <1>1, <1>3, <1>4, <2>1 DEF Lies, Has, WithinReview
  <1>7. /\ files' \in [Paths -> Contents0] /\ journal' \in Journals \cup {NoJournal}
        /\ begun' \in Nat /\ loc[p] \in Locals /\ x \in Points
    BY <1>1, <1>3 DEF Has
  <1>8. QED
    BY <1>2, <1>4, <1>5, <1>6, <1>7, SoleMoves

----------------------------------------------------------------------------
(* Failures, recoveries and users *)

LEMMA FailKeeps ==
    ASSUME Undisturbed, TransactionInv, NEW p \in Procs, Fail(p)
    PROVE  TransactionInv'
  <1> DEFINE l == [loc[p] EXCEPT !.todo = DOMAIN loc[p].before, !.undo = TRUE]
  <1>1. /\ pc[p] \in {"stage", "commit", "sweep", "unlink"}
        /\ pc' = [pc EXCEPT ![p] = "restore"]
        /\ UNCHANGED <<files, journal, begun>>
    BY DEF Fail, Goto
  <1>2. Has(p) /\ "restore" \in Points
    BY InvocationHas DEF Points
  <1>3. loc' = [loc EXCEPT ![p] = l]
    BY <1>2 DEF Fail, Backup, Has, Locals
  <1>4. /\ l \in Locals /\ l.todo = Targets(p) /\ l.undo
        /\ l.before = loc[p].before
    BY <1>2 DEF Has, Locals, Targets
  <1> HIDE DEF l
  <1>5. pc'[p] = "restore" /\ loc'[p] = l /\ Targets(p)' = Targets(p)
    BY <1>1, <1>2, <1>3, <1>4 DEF Has, Targets
  <1>6. JournalIsOwn(p)' /\ WithinReview(p)'
    BY <1>1, <1>2, <1>4, <1>5 DEF Has, JournalIsOwn, Early, Pending, WithinReview
  <1>7. \A path \in Targets(p)' : Lies(p, path)'
    BY <1>4, <1>5 DEF Lies
  <1>8. /\ files' \in [Paths -> Contents0] /\ journal' \in Journals \cup {NoJournal}
        /\ begun' \in Nat
    BY <1>1, <1>2 DEF Has
  <1>9. QED
    BY <1>1, <1>2, <1>3, <1>4, <1>6, <1>7, <1>8, SoleMoves

LEMMA RecoverKeeps ==
    ASSUME Undisturbed, TransactionInv, NEW p \in Procs, Recover(p)
    PROVE  TransactionInv'
  <1> DEFINE l == [id |-> journal.id, before |-> journal.before,
                   after |-> journal.after, todo |-> DOMAIN journal.before,
                   undo |-> TRUE]
  <1>1. /\ pc[p] = "idle" /\ Pending /\ pc' = [pc EXCEPT ![p] = "restore"]
        /\ loc' = [loc EXCEPT ![p] = l]
        /\ UNCHANGED <<files, journal, begun>>
    BY DEF Recover, Goto
  <1>2. Has(p) /\ "restore" \in Points
    BY InvocationHas DEF Points
  <1>3. journal \in Journals
    BY <1>1, <1>2 DEF Has, Pending
  <1>4. /\ journal.id \in Nat /\ journal.before \in PartialContents
        /\ journal.after \in PartialContents
    BY <1>3 DEF Journals
  <1>5. DOMAIN journal.before \subseteq Paths
    BY <1>4, PartialAt
  <1>6. /\ l \in Locals /\ l.todo = DOMAIN l.before /\ l.undo
        /\ l.before = journal.before
    BY <1>4, <1>5 DEF Locals
  <1> HIDE DEF l
  <1>7. pc'[p] = "restore" /\ loc'[p] = l
    BY <1>1, <1>2 DEF Has
  <1>8. JournalIsOwn(p)' /\ WithinReview(p)'
    BY <1>1, <1>6, <1>7 DEF JournalIsOwn, Early, Pending, WithinReview, Targets
  <1>9. \A path \in Targets(p)' : Lies(p, path)'
    BY <1>6, <1>7 DEF Lies, Targets
  <1>10. /\ files' \in [Paths -> Contents0] /\ journal' \in Journals \cup {NoJournal}
         /\ begun' \in Nat
    BY <1>1, <1>2 DEF Has
  <1>11. QED
    BY <1>1, <1>2, <1>6, <1>8, <1>9, <1>10, SoleMoves

(* The user keeps off the paths of the invocation at work.                 *)
LEMMA EditKeeps ==
    ASSUME Undisturbed, TransactionInv, NEW path \in Paths,
           NEW content \in Contents0, Edit(path, content)
    PROVE  TransactionInv'
  <1>1. /\ path \notin InTransaction /\ files' = [files EXCEPT ![path] = content]
        /\ UNCHANGED <<journal, staged, pc, loc, begun>>
    BY DEF Edit, Undisturbed
  <1>2. TransactionTypeOK'
    BY <1>1 DEF TransactionInv, TransactionTypeOK
  <1>3. ASSUME NEW p \in Procs
        PROVE  /\ JournalIsOwn(p)' /\ WithinReview(p)'
               /\ \A q \in Targets(p)' : Lies(p, q)'
    <2>1. Has(p) /\ Targets(p)' = Targets(p)
      BY <1>1, InvocationHas DEF Targets
    <2>2. JournalIsOwn(p)' /\ WithinReview(p)'
      BY <1>1, <2>1 DEF Has, JournalIsOwn, Early, Pending, WithinReview, Targets
    <2>3. ASSUME NEW q \in Targets(p)
          PROVE  Lies(p, q)'
      <3>1. Lies(p, q) /\ q \in Paths /\ files \in [Paths -> Contents0]
        BY <2>1 DEF Has
      <3>2. CASE pc[p] \in {"idle", "planned"}
        BY <1>1, <3>2 DEF Lies
      <3>3. CASE pc[p] \notin {"idle", "planned"}
        <4>1. q # path
          BY <1>1, <3>3 DEF InTransaction
        <4>2. files'[q] = files[q]
          BY <1>1, <3>1, <4>1
        <4>3. QED
          BY <1>1, <3>1, <4>2 DEF Lies
      <3>4. QED
        BY <3>2, <3>3
    <2>4. QED
      BY <2>1, <2>2, <2>3
  <1>4. QED
    BY <1>2, <1>3 DEF TransactionInv

----------------------------------------------------------------------------

LEMMA TransactionStep ==
    ASSUME Undisturbed, TransactionInv, [Next]_vars
    PROVE  TransactionInv'
  <1>1. ASSUME NEW p \in Procs, Advance(p)
        PROVE  TransactionInv'
    BY <1>1, CheckPendingKeeps, InvocationEndKeeps, PrepareKeeps, MarkStagedKeeps,
       LoopKeeps, FailKeeps, ValidateKeeps, ReplaceKeeps DEF Advance
  <1>2. ASSUME NEW p \in Procs,
               \/ \E wanted \in Plans : Plan(p, wanted)
               \/ Decline(p) \/ Recover(p) \/ Crash(p)
        PROVE  TransactionInv'
    BY <1>2, PlanKeeps, InvocationEndKeeps, RecoverKeeps
  <1>3. CASE \E path \in Paths, content \in Contents0 : Edit(path, content)
    BY <1>3, EditKeeps
  <1>4. CASE UNCHANGED vars
    <2>1. UNCHANGED <<files, journal, staged, pc, loc, begun>>
      BY <1>4 DEF vars
    <2>2. TransactionTypeOK'
      BY <2>1 DEF TransactionInv, TransactionTypeOK
    <2>3. \A p \in Procs : /\ JournalIsOwn(p)' /\ WithinReview(p)'
                           /\ Targets(p)' = Targets(p)
                           /\ \A path \in Targets(p) : Lies(p, path)'
      BY <2>1 DEF TransactionInv, JournalIsOwn, Early, Pending, WithinReview, Targets, Lies
    <2>4. QED
      BY <2>2, <2>3 DEF TransactionInv
  <1>5. QED
    BY <1>1, <1>2, <1>3, <1>4 DEF Next

LEMMA TransactionInvariant == Undisturbed => (Spec => []TransactionInv)
  <1> SUFFICES ASSUME Undisturbed
               PROVE  Spec => []TransactionInv
    OBVIOUS
  <1>1. QED
    BY TransactionInit, TransactionStep, PTL DEF Spec

----------------------------------------------------------------------------
(* The reviewed update *)

Reviews == [p \in Procs |-> ReviewedBy(p)]

LEMMA NothingIs == [before |-> Empty, after |-> Empty] = Update!Nothing
  <1>1. Empty = [path \in {} |-> {}]
    BY DEF Empty
  <1>2. QED
    BY <1>1 DEF Update!Nothing

LEMMA SoleReview ==
    ASSUME Undisturbed, NEW p \in Procs
    PROVE  /\ Reviews[p] = ReviewedBy(p)
           /\ Reviews' = [Reviews EXCEPT ![p] = ReviewedBy(p)']
  <1>1. \A q \in Procs : q = p
    BY DEF Undisturbed
  <1>2. QED
    BY <1>1 DEF Reviews

LEMMA SameEffective ==
    ASSUME \A path \in Paths : Effective'[path] = Effective[path]
    PROVE  Effective' = Effective
  BY DEF Effective

(* The steps of the reviewed update, in these terms.                       *)
LEMMA StaysOrWithdraws ==
    ASSUME Undisturbed, NEW p \in Procs, Effective' = Effective,
           ReviewedBy(p)' \in {ReviewedBy(p), Update!Nothing}
    PROVE  [Update!Next]_Update!vars
  <1>1. Reviews' = [Reviews EXCEPT ![p] = ReviewedBy(p)'] /\ Reviews[p] = ReviewedBy(p)
    BY SoleReview
  <1>2. CASE ReviewedBy(p)' = ReviewedBy(p)
    <2>1. Reviews' = Reviews
      BY <1>1, <1>2 DEF Reviews
    <2>2. QED
      BY <2>1 DEF Update!vars, Reviews
  <1>3. CASE ReviewedBy(p)' = Update!Nothing
    <2>1. Update!Withdraw(p)
      BY <1>1, <1>3 DEF Update!Withdraw, Reviews
    <2>2. QED
      BY <2>1 DEF Update!Next
  <1>4. QED
    BY <1>2, <1>3

LEMMA PlanImplements ==
    ASSUME Undisturbed, TransactionInv, NEW p \in Procs, NEW wanted \in Plans,
           Plan(p, wanted)
    PROVE  [Update!Next]_Update!vars
  <1> DEFINE D == {path \in DOMAIN wanted : wanted[path] # files[path]}
             old == Restrict(files, D)
             new == Restrict(wanted, D)
  <1>1. /\ pc[p] = "idle" /\ D # {} /\ pc' = [pc EXCEPT ![p] = "planned"]
        /\ loc' = [loc EXCEPT ![p] = [NoLocals EXCEPT !.before = old, !.after = new]]
        /\ UNCHANGED <<files, journal>>
    BY DEF Plan, Goto
  <1>2. Has(p)
    BY InvocationHas
  <1>3. /\ D \in SUBSET Paths
        /\ \A path \in D : wanted[path] \in Contents0 /\ files[path] \in Contents0
    <2>1. PICK E \in SUBSET Paths : wanted \in [E -> Contents]
      BY DEF Undisturbed, TransactionAssumption
    <2>2. QED
      BY <1>2, <2>1 DEF Contents0, Has
  <1> HIDE DEF D
  <1>4. old \in [D -> Contents0] /\ new \in [D -> Contents0]
    BY <1>3 DEF Restrict
  <1> HIDE DEF old, new
  <1>5. /\ pc'[p] = "planned" /\ loc'[p].before = old /\ loc'[p].after = new
        /\ loc'[p].undo = FALSE
    BY <1>1, <1>2 DEF Has, NoLocals
  <1>6. ReviewedBy(p) = Update!Nothing
    BY <1>1, NothingIs DEF ReviewedBy
  <1>7. ReviewedBy(p)' = [before |-> old, after |-> new]
    BY <1>5 DEF ReviewedBy
  <1>8. Effective' = Effective
    BY <1>1 DEF Effective, Pending
  <1>9. /\ Reviews[p] = Update!Nothing
        /\ Reviews' = [Reviews EXCEPT ![p] = [before |-> old, after |-> new]]
    BY <1>6, <1>7, SoleReview
  <1>10. Update!Review(p)
    BY <1>1, <1>3, <1>4, <1>8, <1>9 DEF Update!Review, Reviews
  <1>11. QED
    BY <1>10 DEF Update!Next

(* What ends without having unlinked its journal has changed nothing.      *)
LEMMA GiveUpImplements ==
    ASSUME Undisturbed, TransactionInv, NEW p \in Procs,
           \/ Decline(p) \/ RefusePending(p) \/ Crash(p) \/ Fail(p)
           \/ \E path \in Paths : Drifted(p, path)
    PROVE  [Update!Next]_Update!vars
  <1>1. Has(p)
    BY InvocationHas
  <1>2. files' = files /\ journal' = journal
    BY DEF Decline, RefusePending, Crash, Fail, Drifted
  <1>3. Effective' = Effective
    BY <1>2 DEF Effective, Pending
  <1>4. pc'[p] = "idle" \/ loc'[p].undo
    <2>1. CASE Fail(p)
      BY <1>1, <2>1 DEF Fail, Has, Locals
    <2>2. CASE ~Fail(p)
      BY <1>1, <2>2 DEF Decline, RefusePending, Crash, Drifted, End, Goto, Has
    <2>3. QED
      BY <2>1, <2>2
  <1>5. ReviewedBy(p)' = Update!Nothing
    BY <1>4, NothingIs DEF ReviewedBy
  <1>6. QED
    BY <1>3, <1>5, StaysOrWithdraws

(* On the way the files change only where the journal speaks for them.     *)
LEMMA WorkImplements ==
    ASSUME Undisturbed, TransactionInv, NEW p \in Procs,
           \/ CheckPending(p) \/ Prepare(p) \/ MarkStaged(p) \/ AllCommitted(p)
           \/ Restored(p) \/ Sweep(p)
           \/ \E path \in Paths : \/ Validate(p, path) \/ Stage(p, path)
                                  \/ Commit(p, path) \/ Restore(p, path)
    PROVE  [Update!Next]_Update!vars
  <1>1. Has(p)
    BY InvocationHas
  <1>2. /\ pc[p] # "idle" /\ pc'[p] # "idle"
        /\ loc'[p].undo = loc[p].undo /\ loc'[p].before = loc[p].before
        /\ loc'[p].after = loc[p].after
    <2>1. CASE \E path \in Paths : \/ Validate(p, path) \/ Stage(p, path)
                                   \/ Commit(p, path) \/ Restore(p, path)
      <3>1. /\ pc[p] # "idle" /\ pc' = pc
            /\ \E T : loc' = [loc EXCEPT ![p].todo = T]
        BY <2>1 DEF Validate, Stage, Commit, Restore, Done
      <3>2. QED
        BY <1>1, <3>1 DEF Has, Locals
    <2>2. CASE CheckPending(p) \/ MarkStaged(p)
      <3>1. /\ pc[p] # "idle" /\ \E x \in {"validate", "commit"} : pc' = [pc EXCEPT ![p] = x]
            /\ \E T : loc' = [loc EXCEPT ![p].todo = T]
        BY <2>2 DEF CheckPending, MarkStaged, Goto
      <3>2. QED
        BY <1>1, <3>1 DEF Has, Locals
    <2>3. CASE Prepare(p)
      BY <1>1, <2>3 DEF Prepare, Goto, Has, Locals
    <2>4. CASE AllCommitted(p) \/ Restored(p) \/ Sweep(p)
      <3>1. /\ pc[p] # "idle" /\ \E x \in {"sweep", "unlink"} : pc' = [pc EXCEPT ![p] = x]
            /\ loc' = loc
        BY <2>4 DEF AllCommitted, Restored, Sweep, Goto
      <3>2. QED
        BY <1>1, <3>1 DEF Has
    <2>5. QED
      BY <2>1, <2>2, <2>3, <2>4
  <1>3. ReviewedBy(p)' = ReviewedBy(p)
    BY <1>2 DEF ReviewedBy
  <1>4. Effective' = Effective
    <2>1. CASE Prepare(p)
      <3>1. /\ pc[p] = "validate" /\ loc[p].todo = {} /\ files' = files
            /\ journal' = JournalOf(p, begun + 1)
        BY <2>1 DEF Prepare
      <3>2. ~Pending /\ \A path \in Targets(p) : files[path] = loc[p].before[path]
        BY <1>1, <3>1 DEF Has, JournalIsOwn, Lies
      <3>3. journal' # NoJournal /\ journal'.before = loc[p].before
        BY <1>1, <3>1, JournalOfIs DEF Has
      <3>4. \A path \in Paths : Effective'[path] = Effective[path]
        BY <3>1, <3>2, <3>3 DEF Effective, Pending, Targets
      <3>5. QED
        BY <3>4, SameEffective
    <2>2. CASE MarkStaged(p)
      <3>1. /\ pc[p] = "stage" /\ files' = files
            /\ journal' = JournalOf(p, loc[p].id)
        BY <2>2 DEF MarkStaged
      <3>2. Pending /\ journal.before = loc[p].before
        BY <1>1, <3>1 DEF Has, JournalIsOwn, Early
      <3>3. journal' # NoJournal /\ journal'.before = loc[p].before
        BY <1>1, <3>1, JournalOfIs DEF Has
      <3>4. \A path \in Paths : Effective'[path] = Effective[path]
        BY <3>1, <3>2, <3>3 DEF Effective, Pending
      <3>5. QED
        BY <3>4, SameEffective
    <2>3. ASSUME NEW path \in Paths, Commit(p, path) \/ Restore(p, path)
          PROVE  Effective' = Effective
      <3>1. /\ pc[p] \in {"commit", "restore"} /\ path \in loc[p].todo
            /\ journal' = journal
            /\ \E content : files' = [files EXCEPT ![path] = content]
        BY <2>3 DEF Commit, Restore
      <3>2. \A q \in Paths \ {path} : files'[q] = files[q]
        BY <1>1, <3>1 DEF Has
      <3>3. /\ Pending /\ journal.before = loc[p].before
            /\ path \in DOMAIN journal.before
        BY <1>1, <3>1 DEF Has, JournalIsOwn, Early, WithinReview, Targets
      <3>4. \A q \in Paths : Effective'[q] = Effective[q]
        BY <3>1, <3>2, <3>3 DEF Effective, Pending
      <3>5. QED
        BY <3>4, SameEffective
    <2>4. CASE \/ CheckPending(p) \/ AllCommitted(p) \/ Restored(p) \/ Sweep(p)
               \/ \E path \in Paths : Validate(p, path) \/ Stage(p, path)
      <3>1. files' = files /\ journal' = journal
        BY <2>4 DEF CheckPending, AllCommitted, Restored, Sweep, Validate, Stage
      <3>2. QED
        BY <3>1 DEF Effective, Pending
    <2>5. QED
      BY <2>1, <2>2, <2>3, <2>4
  <1>5. QED
    BY <1>3, <1>4, StaysOrWithdraws

LEMMA RecoverImplements ==
    ASSUME Undisturbed, TransactionInv, NEW p \in Procs, Recover(p)
    PROVE  [Update!Next]_Update!vars
  <1>1. Has(p)
    BY InvocationHas
  <1>2. /\ pc[p] = "idle" /\ loc'[p].undo
        /\ files' = files /\ journal' = journal
    BY <1>1 DEF Recover, Has
  <1>3. ReviewedBy(p) = ReviewedBy(p)'
    BY <1>2 DEF ReviewedBy
  <1>4. Effective' = Effective
    BY <1>2 DEF Effective, Pending
  <1>5. QED
    BY <1>3, <1>4, StaysOrWithdraws

(* The removal of the journal makes the change, or ends what undid it.     *)
LEMMA UnlinkImplements ==
    ASSUME Undisturbed, TransactionInv, NEW p \in Procs, Unlink(p)
    PROVE  [Update!Next]_Update!vars
  <1>1. Has(p)
    BY InvocationHas
  <1>2. /\ pc[p] = "unlink" /\ journal' = NoJournal /\ files' = files
        /\ pc'[p] = "idle"
    BY <1>1 DEF Unlink, End, Goto, Has
  <1>3. Pending /\ journal.before = loc[p].before
    BY <1>1, <1>2 DEF Has, JournalIsOwn, Early
  <1>4. ReviewedBy(p)' = Update!Nothing
    BY <1>2, NothingIs DEF ReviewedBy
  <1>5. \A path \in Paths :
            /\ Effective'[path] = files[path]
            /\ path \in Targets(p) => Effective[path] = loc[p].before[path]
            /\ path \notin Targets(p) => Effective[path] = files[path]
    BY <1>2, <1>3 DEF Effective, Pending, Targets
  <1>6. CASE loc[p].undo
    <2>1. \A path \in Targets(p) : files[path] = loc[p].before[path]
      BY <1>1, <1>2, <1>6 DEF Has, Lies
    <2>2. Effective' = Effective
      BY <1>5, <2>1, SameEffective
    <2>3. QED
      BY <1>4, <2>2, StaysOrWithdraws
  <1>7. CASE ~loc[p].undo
    <2> DEFINE old == loc[p].before
               new == loc[p].after
    <2>1. /\ \A path \in Targets(p) : files[path] = new[path]
          /\ DOMAIN new = Targets(p) /\ Targets(p) # {} /\ Targets(p) \subseteq Paths
          /\ DOMAIN old = Targets(p)
      BY <1>1, <1>2, <1>7 DEF Has, Lies, WithinReview, Targets
    <2>2. ReviewedBy(p) = [before |-> old, after |-> new]
      BY <1>2, <1>7 DEF ReviewedBy
    <2> HIDE DEF old, new
    <2>3. ReviewedBy(p) # Update!Nothing
      <3>1. DOMAIN (Update!Nothing.before) = {} /\ DOMAIN (ReviewedBy(p).before) # {}
        BY <2>1, <2>2 DEF Update!Nothing
      <3>2. QED
        BY <3>1
    <2>4. Effective' = [path \in Paths |->
                            IF path \in DOMAIN new THEN new[path] ELSE Effective[path]]
      <3>1. \A path \in Paths :
                Effective'[path] = IF path \in DOMAIN new THEN new[path] ELSE Effective[path]
        BY <1>5, <2>1
      <3>2. QED
        BY <3>1 DEF Effective
    <2>5. \A path \in DOMAIN old : Effective[path] = old[path]
      BY <1>5, <2>1 DEF old
    <2>6. /\ Reviews[p] = [before |-> old, after |-> new]
          /\ Reviews[p] # Update!Nothing
          /\ Reviews' = [Reviews EXCEPT ![p] = Update!Nothing]
      BY <1>4, <2>2, <2>3, SoleReview
    <2>7. Update!Apply(p)
      BY <2>4, <2>5, <2>6 DEF Update!Apply, Reviews
    <2>8. QED
      BY <2>7 DEF Update!Next
  <1>8. QED
    BY <1>6, <1>7

LEMMA EditImplements ==
    ASSUME Undisturbed, TransactionInv, NEW path \in Paths,
           NEW content \in Contents0, Edit(path, content)
    PROVE  [Update!Next]_Update!vars
  <1>1. /\ path \notin InTransaction /\ files' = [files EXCEPT ![path] = content]
        /\ UNCHANGED <<journal, pc, loc>>
    BY DEF Edit, Undisturbed
  <1>2. ~(Pending /\ path \in DOMAIN journal.before)
    BY <1>1 DEF InTransaction
  <1>3. files \in [Paths -> Contents0]
    BY DEF TransactionInv, TransactionTypeOK
  <1>4. \A q \in Paths : Effective'[q] = IF q = path THEN content ELSE Effective[q]
    BY <1>1, <1>2, <1>3 DEF Effective, Pending
  <1>5. Effective' = [Effective EXCEPT ![path] = content]
    BY <1>4 DEF Effective
  <1>6. Reviews' = Reviews
    BY <1>1 DEF Reviews, ReviewedBy
  <1>7. Update!Edit(path)
    BY <1>5, <1>6 DEF Update!Edit, Reviews
  <1>8. QED
    BY <1>7 DEF Update!Next

LEMMA TransactionImplements ==
    ASSUME Undisturbed, TransactionInv, [Next]_vars
    PROVE  ImplementsReviewedUpdateStep
  <1>1. ASSUME NEW p \in Procs,
               \/ \E wanted \in Plans : Plan(p, wanted)
               \/ Decline(p) \/ Advance(p) \/ Recover(p) \/ Crash(p)
        PROVE  [Update!Next]_Update!vars
    BY <1>1, PlanImplements, GiveUpImplements, WorkImplements, RecoverImplements,
       UnlinkImplements DEF Advance
  <1>2. ASSUME NEW path \in Paths, NEW content \in Contents0, Edit(path, content)
        PROVE  [Update!Next]_Update!vars
    BY <1>2, EditImplements
  <1>3. CASE UNCHANGED vars
    <2>1. Effective' = Effective /\ Reviews' = Reviews
      BY <1>3 DEF vars, Effective, Pending, Reviews, ReviewedBy
    <2>2. QED
      BY <2>1 DEF ImplementsReviewedUpdateStep, Update!vars, Reviews
  <1>4. QED
    BY <1>1, <1>2, <1>3 DEF Next, ImplementsReviewedUpdateStep

LEMMA InitReviews == Undisturbed /\ Init => Update!Init
  <1> SUFFICES ASSUME Undisturbed, Init
               PROVE  Update!Init
    OBVIOUS
  <1>1. files \in [Paths -> Contents0] /\ journal = NoJournal
    BY DEF Init, Undisturbed, TransactionAssumption
  <1>2. Effective \in [Paths -> Contents0]
    BY <1>1 DEF Effective, Pending
  <1>3. Reviews = [p \in Procs |-> Update!Nothing]
    BY NothingIs DEF Init, Reviews, ReviewedBy
  <1>4. QED
    BY <1>2, <1>3 DEF Update!Init, Reviews

(* A transaction that has the repository to itself changes all of its      *)
(* files from exactly what was reviewed, or none of them, over failures,   *)
(* crashes and recoveries that crash in their turn.                        *)
THEOREM TransactionImplementsReviewed ==
    Undisturbed => (Spec => ImplementsReviewedUpdate)
  <1> SUFFICES ASSUME Undisturbed
               PROVE  Spec => ImplementsReviewedUpdate
    OBVIOUS
  <1>1. TransactionInv /\ [Next]_vars => ImplementsReviewedUpdateStep
    BY TransactionImplements
  <1>2. Init => Update!Init
    BY InitReviews
  <1>3. QED
    BY <1>1, <1>2, TransactionInvariant, PTL DEF Spec, ImplementsReviewedUpdate
===============================================================================
