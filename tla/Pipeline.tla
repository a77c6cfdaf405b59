------------------------------ MODULE Pipeline ------------------------------
(***************************************************************************)
(* A pipeline as the shell runs it: programs side by side, each reading    *)
(* what the one before has written to a pipe that holds little, and the    *)
(* last writing to a file.  A program that dies loses what its stdio still *)
(* buffers; its reader sees an end of its input like any other, and its    *)
(* writer dies of the next write.  The status of the last program is that  *)
(* of the whole (fhat.sh does not set pipefail).                           *)
(***************************************************************************)
EXTENDS Programs

CONSTANTS
  Capacity,      \* what a pipe holds
  Buffered,      \* what stdio holds back, of what a program has written
  MaxKills       \* programs killed from outside

ASSUME PipeAssumption == Capacity \in Nat \ {0} /\ Buffered \in Nat /\ MaxKills \in Nat

VARIABLES
  programs,      \* the programs of the pipeline
  read,          \* how much each has read of what is written before it
  written,       \* what each has written
  status,        \* "running", "ended", or "dead" of a signal or an assertion
  kills

streams == <<read, written>>
pipeVars == <<programs, streams, status, kills>>

Stages == DOMAIN programs
Final == Len(programs)

(* unzip writes to files: its reader waits, and reads nothing.             *)
Piped(p) == IF programs[p].does = "unzip" THEN << >> ELSE written[p]

Before(p) == IF p = 1 THEN << >> ELSE Piped(p - 1)
Input(p) == SubSeq(Before(p), 1, read[p])

Gone(p) == status[p] # "running"
AtEof(p) == (p > 1 => Gone(p - 1)) /\ read[p] = Len(Before(p))

Result(p) == Results(programs[p], Input(p), AtEof(p))
Failing(p) == Fails(programs[p], Input(p), AtEof(p))

(* A program goes on reading while stdio takes what it writes.             *)
InBuffer(p) == Len(Result(p)) <= Len(written[p]) + Buffered

ToFile(p) == p = Final \/ programs[p].does = "unzip"

Dies(p) == status' = [status EXCEPT ![p] = "dead"]

Read(p) ==
  /\ ~ Gone(p) /\ ~ Failing(p) /\ ~ HasEnough(programs[p], Input(p))
  /\ InBuffer(p)
  /\ read[p] < Len(Before(p))
  /\ read' = [read EXCEPT ![p] = @ + 1]
  /\ UNCHANGED <<programs, written, status, kills>>

Room(p) == ~ ToFile(p) => Len(written[p]) - read[p + 1] < Capacity

Write(p) ==
  /\ ~ Gone(p)
  /\ Len(written[p]) < Len(Result(p))
  /\ ~ ToFile(p) => ~ Gone(p + 1)
  /\ Room(p)
  /\ written' = [written EXCEPT ![p] = Append(@, Result(p)[Len(@) + 1])]
  /\ UNCHANGED <<programs, read, status, kills>>

(* SIGPIPE *)
WriteToNobody_Waits(p) == FALSE

WriteToNobody(p) ==
  /\ ~ Gone(p)
  /\ Len(written[p]) < Len(Result(p))
  /\ ~ ToFile(p) /\ Gone(p + 1)
  /\ Dies(p)
  /\ UNCHANGED <<programs, streams, kills>>

(* Whatever a program could not write is lost.                             *)
Fail(p) ==
  /\ ~ Gone(p) /\ Failing(p) /\ InBuffer(p)
  /\ Dies(p)
  /\ UNCHANGED <<programs, streams, kills>>

End(p) ==
  /\ ~ Gone(p) /\ ~ Failing(p)
  /\ AtEof(p) \/ HasEnough(programs[p], Input(p))
  /\ written[p] = Result(p)
  /\ status' = [status EXCEPT ![p] = "ended"]
  /\ UNCHANGED <<programs, streams, kills>>

Kill(p) ==
  /\ ~ Gone(p)
  /\ kills < MaxKills
  /\ kills' = kills + 1
  /\ Dies(p)
  /\ UNCHANGED <<programs, streams>>

Step(p) == Read(p) \/ Write(p) \/ WriteToNobody(p) \/ Fail(p) \/ End(p)

(* The pipeline starts with nothing read or written.                       *)
Started(ps, r, w, s) ==
  /\ r = [p \in DOMAIN ps |-> 0]
  /\ w = [p \in DOMAIN ps |-> << >>]
  /\ s = [p \in DOMAIN ps |-> "running"]

(* The shell waits for all of the programs.                                *)
Over == \A p \in Stages : Gone(p)
Succeeded == status[Final] = "ended"

==============================================================================
