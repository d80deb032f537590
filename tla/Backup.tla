------------------------------- MODULE Backup -------------------------------
(***************************************************************************)
(* Database snapshots: backup.service.ts and its history table.  Requests  *)
(* for a snapshot queue up in one process; a snapshot is named after the   *)
(* second it starts in, made by VACUUM INTO, verified, and recorded.       *)
(*                                                                         *)
(* The wall clock runs in a circle: the local time that names a file may   *)
(* come round again (end of summer time), and a bounded model needs it to. *)
(***************************************************************************)
EXTENDS Naturals, Sequences, FiniteSets

CONSTANTS
  Requests,  \* requests for a snapshot, each runs once
  Seconds,   \* length of the clock's circle
  Failures   \* awaited calls that may fail

FailurePoints == {"vacuum", "stat", "record", "remove", "recordFailed", "audit"}

ASSUME BackupAssumption == Seconds \in Nat \ {0} /\ Failures \subseteq FailurePoints

VARIABLES
  clock,    \* the second that names a file now
  queue,    \* snapshotQueue: the requests whose turn is to come, in order
  place,    \* where a request is
  path,     \* the name it chose
  files,    \* the backup directory
  history,  \* backup_history: which request wrote a row, and its status
  signalled, \* the requests whose failure was signalled to the owner
  stuck     \* history: the files whose removal failed

vars == <<clock, queue, place, path, files, history, signalled, stuck>>

Stamps == 0 .. Seconds - 1

InTurn   == {"making", "verifying", "recording", "removing", "recordingFailure", "signalling"}
InFlight == {"queued", "auditing"} \cup InTurn

\* How a request may end: answered, with its failure on record, with a failure
\* that could not be recorded, with a backup that could not be audited, or with
\* the server.
Ended == {"done", "failed", "unrecorded", "unaudited", "lost"}

TypeOK ==
  /\ clock \in Stamps
  /\ queue \in Seq(Requests)
  /\ place \in [Requests -> {"unsent"} \cup InFlight \cup Ended]
  /\ path \in [Requests -> Stamps]
  /\ files \in [Stamps -> {"none", "corrupt", "whole"}]
  /\ history \subseteq [by: Requests, file: Stamps, status: {"success", "failed"}]
  /\ signalled \subseteq Requests
  /\ stuck \subseteq Stamps

Init ==
  /\ clock = 0
  /\ queue = <<>>
  /\ place = [r \in Requests |-> "unsent"]
  /\ path = [r \in Requests |-> 0]
  /\ files = [s \in Stamps |-> "none"]
  /\ history = {}
  /\ signalled = {}
  /\ stuck = {}

-----------------------------------------------------------------------------
Goto(r, where) == place' = [place EXCEPT ![r] = where]

\* Mutation: a failed run is not caught and nothing runs behind it.
SettleUnlessFailed(r) ==
  queue' = IF place[r] \in {"recordingFailure", "signalling"} THEN queue ELSE Tail(queue)

\* The run has settled, well or not: the next one's turn.
Settle(r) == queue' = Tail(queue)

\* Time passes, also for a run that waits for a free name.
Tick ==
  /\ clock' = (clock + 1) % Seconds
  /\ UNCHANGED <<queue, place, path, files, history, signalled, stuck>>

\* createSnapshot chains the run behind whatever is there.
Enqueue(r) ==
  /\ place[r] = "unsent"
  /\ Goto(r, "queued")
  /\ queue' = Append(queue, r)
  /\ UNCHANGED <<clock, path, files, history, signalled, stuck>>

MyTurn(r) == r = Head(queue)

NameIsFree(s) == files[s] = "none"

\* nextAvailableSnapshotPath: until this second's name is free, wait.
ChooseName(r) ==
  /\ place[r] = "queued" /\ MyTurn(r) /\ NameIsFree(clock)
  /\ path' = [path EXCEPT ![r] = clock]
  /\ Goto(r, "making")
  /\ UNCHANGED <<clock, queue, files, history, signalled, stuck>>

\* VACUUM INTO: a file, whole or not, or an error; it never overwrites.
Vacuum(r) ==
  /\ place[r] = "making"
  /\ \/ /\ files[path[r]] = "none"
        /\ \E content \in {"whole", "corrupt"} : files' = [files EXCEPT ![path[r]] = content]
        /\ Goto(r, "verifying")
     \/ /\ files[path[r]] = "none" /\ "vacuum" \in Failures
        /\ \E content \in {"none", "corrupt"} : files' = [files EXCEPT ![path[r]] = content]
        /\ Goto(r, "removing")
     \/ /\ files[path[r]] # "none"
        /\ Goto(r, "removing") /\ UNCHANGED files
  /\ UNCHANGED <<clock, queue, path, history, signalled, stuck>>

\* Mutation: any file that can be opened passes.
Opens(s) == files[s] # "none"

\* integrity_check of the new file.
Verified(s) == files[s] = "whole"

VerifySnapshot(r) ==
  /\ place[r] = "verifying"
  /\ \/ Verified(path[r]) /\ Goto(r, "recording")
     \/ (~Verified(path[r]) \/ "stat" \in Failures) /\ Goto(r, "removing")
  /\ UNCHANGED <<clock, queue, path, files, history, signalled, stuck>>

\* Mutation: a failure is recorded as the backup that was asked for.
RowAsHoped(r, status) == [by |-> r, file |-> path[r], status |-> "success"]

Row(r, status) == [by |-> r, file |-> path[r], status |-> status]

RecordSuccess(r) ==
  /\ place[r] = "recording"
  /\ \/ /\ history' = history \cup {Row(r, "success")}
        /\ Goto(r, "auditing") /\ Settle(r)
     \/ /\ "record" \in Failures
        /\ Goto(r, "removing") /\ UNCHANGED <<history, queue>>
  /\ UNCHANGED <<clock, path, files, signalled, stuck>>

\* Mutation: the partial file is left.
LeaveFile(s) == UNCHANGED files

RemoveFile(s) == files' = [files EXCEPT ![s] = "none"]

\* D13: a failed artifact is never left restorable, unless the removal fails
\* too: its error is swallowed.
Discard(r) ==
  /\ place[r] = "removing"
  /\ \/ RemoveFile(path[r]) /\ UNCHANGED stuck
     \/ "remove" \in Failures /\ stuck' = stuck \cup {path[r]} /\ UNCHANGED files
  /\ Goto(r, "recordingFailure")
  /\ UNCHANGED <<clock, queue, path, history, signalled>>

\* The failure's own row; if that cannot be written either, its error ends the
\* run.
RecordFailure(r) ==
  /\ place[r] = "recordingFailure"
  /\ \/ /\ history' = history \cup {Row(r, "failed")}
        /\ Goto(r, "signalling") /\ UNCHANGED queue
     \/ /\ "recordFailed" \in Failures
        /\ Goto(r, "unrecorded") /\ Settle(r) /\ UNCHANGED history
  /\ UNCHANGED <<clock, path, files, signalled, stuck>>

\* backup.failed, then the error is rethrown; the chain goes on after it.
Signal(r) ==
  /\ place[r] = "signalling"
  /\ signalled' = signalled \cup {r}
  /\ Goto(r, "failed") /\ Settle(r)
  /\ UNCHANGED <<clock, path, files, history, stuck>>

\* createManualBackup: the export is audited, outside the chain.
Audit(r) ==
  /\ place[r] = "auditing"
  /\ \/ Goto(r, "done")
     \/ "audit" \in Failures /\ Goto(r, "unaudited")
  /\ UNCHANGED <<clock, queue, path, files, history, signalled, stuck>>

\* A restart: files and rows stay, the chain does not.
Crash ==
  /\ \E r \in Requests : place[r] \in InFlight
  /\ place' = [r \in Requests |-> IF place[r] \in InFlight THEN "lost" ELSE place[r]]
  /\ queue' = <<>>
  /\ UNCHANGED <<clock, path, files, history, signalled, stuck>>

-----------------------------------------------------------------------------
Run(r) ==
  \/ Vacuum(r) \/ VerifySnapshot(r) \/ RecordSuccess(r)
  \/ Discard(r) \/ RecordFailure(r) \/ Signal(r) \/ Audit(r)

Next ==
  \/ \E r \in Requests : Enqueue(r) \/ ChooseName(r) \/ Run(r)
  \/ Tick \/ Crash

Spec == Init /\ [][Next]_vars

\* Time passes and the event loop goes on.  A waiting run wakes after every
\* boundary of a second and looks: a name that is free again and again is found.
FairSpec ==
  /\ Spec /\ WF_vars(Tick)
  /\ \A r \in Requests : SF_vars(ChooseName(r)) /\ WF_vars(Run(r))

-----------------------------------------------------------------------------
\* A backup the history calls a success can be restored: its file is there, is
\* its own, and passed its check; no later failure or name clash removes it.
SuccessesAreRestorable ==
  \A g \in history :
    g.status = "success" =>
      /\ files[g.file] = "whole"
      /\ \A h \in history : h.status = "success" /\ h.file = g.file => h = g

\* D13: whatever lies in the directory is a recorded success, or could not be
\* removed, or is the file of a run that is not finished, or that a restart cut
\* off.
NoStrayFiles ==
  \A s \in Stamps :
    files[s] # "none" =>
      \/ s \in stuck \/ \E h \in history : h.status = "success" /\ h.file = s
      \/ \E r \in Requests : path[r] = s /\ place[r] \in InTurn \cup {"lost"}

OnRecord(r, status) == \E h \in history : h.by = r /\ h.status = status

\* A row is written on both outcomes, and one only: a request that was answered
\* has its success, one that failed its failed row, and the owner is told of it
\* and of nothing that is not on record.
OutcomesAreRecorded ==
  /\ \A g, h \in history : g.by = h.by => g = h
  /\ \A r \in Requests :
       /\ place[r] \in {"auditing", "done", "unaudited"} => OnRecord(r, "success")
       /\ place[r] = "failed" => r \in signalled
       /\ r \in signalled => OnRecord(r, "failed")

\* Every request comes to its end: a failed run does not break the chain, and
\* one that waits for a name gets it.
EveryRequestEnds ==
  \A r \in Requests : place[r] = "queued" ~> place[r] \in Ended
=============================================================================
