---------------------------- MODULE ProgramChain ----------------------------
(***************************************************************************)
(* What a pipeline of programs promises, with no descriptors: program k    *)
(* reads what program k - 1 wrote and nothing else, it sees the end of     *)
(* its input only when program k - 1 has ended and everything is read, it  *)
(* is stopped for writing in vain only when nobody can read any more, and  *)
(* the pipeline is over when every program has ended.  Pipeline is shown   *)
(* to implement this specification.                                        *)
(***************************************************************************)
EXTENDS Naturals

CONSTANTS MaxPrograms,  \* the longest pipeline
          PipeSize      \* what a pipe holds before a writer must wait

VARIABLES length,   \* how many programs the pipeline has
          stage,    \* stage[k]: where program k is
          flow,     \* flow[k]: what program k wrote and k + 1 has not read
          result    \* what became of the pipeline

vars == <<length, stage, flow, result>>

Programs == 1..length
Ended    == {"done", "eof", "broken"}
Over(k)  == k \in Programs /\ stage[k] \in Ended

Init ==
  /\ length \in 1..MaxPrograms
  /\ stage = [k \in 1..MaxPrograms |-> "unstarted"]
  /\ flow = [k \in 1..MaxPrograms |-> 0]
  /\ result = "running"

\* Programs are started from the first to the last.
Start(k) ==
  /\ k \in Programs /\ result = "running"
  /\ stage[k] = "unstarted" /\ (k > 1 => stage[k - 1] # "unstarted")
  /\ stage' = [stage EXCEPT ![k] = "working"]
  /\ UNCHANGED <<length, flow, result>>

\* The last program writes to the terminal: that is no step here.
Put(k) ==
  /\ k < length /\ stage[k] = "working"
  /\ flow[k] < PipeSize
  /\ flow' = [flow EXCEPT ![k] = @ + 1]
  /\ UNCHANGED <<length, stage, result>>

Take(k) ==
  /\ k > 1 /\ k \in Programs /\ stage[k] = "working"
  /\ flow[k - 1] > 0
  /\ flow' = [flow EXCEPT ![k - 1] = @ - 1]
  /\ UNCHANGED <<length, stage, result>>

EndsBy(k, why) == stage[k] = "working" /\ stage' = [stage EXCEPT ![k] = why]

Finish(k) == k \in Programs /\ EndsBy(k, "done") /\ UNCHANGED <<length, flow, result>>

EndOfInput(k) ==
  /\ k > 1 /\ Over(k - 1) /\ flow[k - 1] = 0
  /\ EndsBy(k, "eof")
  /\ UNCHANGED <<length, flow, result>>

\* The reader has ended, or the shell died before it could start one.
WriteInVain(k) ==
  /\ k < length
  /\ Over(k + 1) \/ (stage[k + 1] = "unstarted" /\ result = "died")
  /\ EndsBy(k, "broken")
  /\ UNCHANGED <<length, flow, result>>

Return ==
  /\ result = "running"
  /\ \A k \in Programs : Over(k)
  /\ result' = "returned"
  /\ UNCHANGED <<length, stage, flow>>

\* The shell could not make a pipe or a process.
Die ==
  /\ result = "running"
  /\ \E k \in Programs : stage[k] = "unstarted"
  /\ result' = "died"
  /\ UNCHANGED <<length, stage, flow>>

Next ==
  \/ \E k \in 1..MaxPrograms :
       Start(k) \/ Put(k) \/ Take(k) \/ Finish(k) \/ EndOfInput(k) \/ WriteInVain(k)
  \/ Return
  \/ Die

Spec == Init /\ [][Next]_vars
=============================================================================
