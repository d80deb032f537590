---------------------------- MODULE BackupProofs ----------------------------
(***************************************************************************)
(* Proofs about Backup, for any set of requests and any clock: the queue   *)
(* lets one run at a time near the files, and so a success stays           *)
(* restorable.                                                             *)
(***************************************************************************)
EXTENDS Backup, TLAPS

Waiting == {"queued"} \cup InTurn

\* The queue holds the runs that are not settled, once each, and only the first
\* one is under way.
QueueRows ==
  /\ \A i, j \in 1 .. Len(queue) : queue[i] = queue[j] => i = j
  /\ \A r \in Requests : place[r] \in Waiting => \E i \in 1 .. Len(queue) : queue[i] = r
  /\ \A i \in 1 .. Len(queue) : place[queue[i]] \in Waiting
  /\ \A i \in 2 .. Len(queue) : place[queue[i]] = "queued"

\* What a run under way may believe of the file it has named.
FileRows ==
  \A r \in Requests :
    /\ place[r] \in InTurn => \A h \in history : h.status = "success" => h.file # path[r]
    /\ place[r] = "recording" => files[path[r]] = "whole"
    /\ place[r] \in {"recordingFailure", "signalling"} =>
         files[path[r]] = "none" \/ path[r] \in stuck

\* How far a request is that has a row in the history.
HistoryRows ==
  /\ \A h \in history :
       /\ h.status = "success" => place[h.by] \in {"auditing", "done", "unaudited", "lost"}
       /\ h.status = "failed" => place[h.by] \in {"signalling", "failed", "lost"}
  /\ \A r \in Requests :
       /\ r \in signalled => place[r] = "failed"
       /\ place[r] = "signalling" => OnRecord(r, "failed")

Records ==
  /\ FileRows /\ HistoryRows
  /\ SuccessesAreRestorable /\ NoStrayFiles /\ OutcomesAreRecorded

BackupInv == TypeOK /\ QueueRows /\ Records

LEMMA InitBackupInv == Init => BackupInv
  BY BackupAssumption
  DEF Init, BackupInv, Records, TypeOK, QueueRows, FileRows, HistoryRows, SuccessesAreRestorable,
      NoStrayFiles, OutcomesAreRecorded, OnRecord, Waiting, InTurn, InFlight, Ended, Stamps

-----------------------------------------------------------------------------
\* Of the runs under way there is one, and it heads the queue.
LEMMA OneInTurn ==
  ASSUME TypeOK, QueueRows, NEW r \in Requests, place[r] \in InTurn
  PROVE  /\ Len(queue) > 0 /\ queue[1] = r
         /\ \A s \in Requests : place[s] \in InTurn => s = r
  <1>1. ASSUME NEW s \in Requests, place[s] \in InTurn PROVE Len(queue) > 0 /\ queue[1] = s
    <2>1. PICK i \in 1 .. Len(queue) : queue[i] = s
      BY <1>1 DEF QueueRows, Waiting
    <2>2. ~(i \in 2 .. Len(queue))
      BY <2>1, <1>1 DEF QueueRows, InTurn
    <2>3. Len(queue) \in Nat
      BY DEF TypeOK
    <2> QED BY <2>1, <2>2, <2>3
  <1> QED BY <1>1

\* When the head of the queue settles, the others move up.
LEMMA MovedUp ==
  ASSUME queue \in Seq(Requests), Len(queue) > 0
  PROVE  /\ Tail(queue) \in Seq(Requests)
         /\ Len(Tail(queue)) = Len(queue) - 1
         /\ \A i \in 1 .. Len(queue) - 1 : Tail(queue)[i] = queue[i + 1]
  OBVIOUS

\* A step leaves every variable in its type.
LEMMA TypeStep == ASSUME TypeOK, QueueRows, [Next]_vars PROVE TypeOK'
  <1> USE DEF TypeOK, Goto
  <1>1. CASE Tick
    BY <1>1, BackupAssumption DEF Tick, Stamps
  <1>2. ASSUME NEW r \in Requests, Enqueue(r) PROVE TypeOK'
    BY <1>2 DEF Enqueue, InFlight
  <1>3. ASSUME NEW r \in Requests, ChooseName(r) PROVE TypeOK'
    BY <1>3 DEF ChooseName, InFlight, InTurn
  <1>4. ASSUME NEW r \in Requests, Vacuum(r) PROVE TypeOK'
    BY <1>4 DEF Vacuum, InFlight, InTurn
  <1>5. ASSUME NEW r \in Requests, VerifySnapshot(r) PROVE TypeOK'
    BY <1>5 DEF VerifySnapshot, InFlight, InTurn
  <1>6. ASSUME NEW r \in Requests, RecordSuccess(r) PROVE TypeOK'
    <2>1. Len(queue) > 0
      BY <1>6, OneInTurn DEF RecordSuccess, InTurn
    <2>2. queue' \in Seq(Requests)
      BY <1>6, <2>1, MovedUp DEF RecordSuccess, Settle
    <2>3. history' \subseteq [by: Requests, file: Stamps, status: {"success", "failed"}]
      BY <1>6 DEF RecordSuccess, Row
    <2>4. place' \in [Requests -> {"unsent"} \cup InFlight \cup Ended]
      BY <1>6 DEF RecordSuccess, InFlight, InTurn
    <2> QED BY <1>6, <2>2, <2>3, <2>4 DEF RecordSuccess
  <1>7. ASSUME NEW r \in Requests, Discard(r) PROVE TypeOK'
    BY <1>7 DEF Discard, RemoveFile, InFlight, InTurn
  <1>8. ASSUME NEW r \in Requests, RecordFailure(r) PROVE TypeOK'
    <2>1. Len(queue) > 0
      BY <1>8, OneInTurn DEF RecordFailure, InTurn
    <2> QED BY <1>8, <2>1, MovedUp DEF RecordFailure, Settle, Row, InFlight, InTurn, Ended
  <1>9. ASSUME NEW r \in Requests, Signal(r) PROVE TypeOK'
    <2>1. Len(queue) > 0
      BY <1>9, OneInTurn DEF Signal, InTurn
    <2> QED BY <1>9, <2>1, MovedUp DEF Signal, Settle, Ended
  <1>10. ASSUME NEW r \in Requests, Audit(r) PROVE TypeOK'
    BY <1>10 DEF Audit, Ended
  <1>11. CASE Crash
    BY <1>11 DEF Crash, Ended
  <1>12. CASE UNCHANGED vars
    BY <1>12 DEF vars
  <1> QED
    BY <1>1, <1>2, <1>3, <1>4, <1>5, <1>6, <1>7, <1>8, <1>9, <1>10, <1>11, <1>12
    DEF Next, Run

\* A step keeps the order of the queue: who joins, joins behind, and who
\* settles is the first.
LEMMA QueueStep == ASSUME TypeOK, QueueRows, [Next]_vars PROVE QueueRows'
  <1> USE DEF TypeOK, QueueRows, Goto
  <1> DEFINE Stays(r) == queue' = queue /\ place[r] \in InTurn
                         /\ \E p \in InTurn : place' = [place EXCEPT ![r] = p]
             Leaves(r) == queue' = Tail(queue) /\ place[r] \in InTurn
                         /\ \E p : p \notin Waiting /\ place' = [place EXCEPT ![r] = p]
  <1>1. ASSUME NEW r \in Requests, Stays(r) PROVE QueueRows'
    <2>1. queue[1] = r
      BY <1>1, OneInTurn
    <2>2. \A i \in 2 .. Len(queue) : queue[i] # r
      BY <2>1, <1>1, OneInTurn
    <2>3. \A i \in 1 .. Len(queue) : queue[i] \in Requests
      OBVIOUS
    <2> QED BY <1>1, <2>1, <2>2, <2>3 DEF Waiting
  <1>2. ASSUME NEW r \in Requests, Leaves(r) PROVE QueueRows'
    <2>1. Len(queue) > 0 /\ queue[1] = r
      BY <1>2, OneInTurn
    <2>2. /\ queue' \in Seq(Requests) /\ Len(queue') = Len(queue) - 1
          /\ \A i \in 1 .. Len(queue') : queue'[i] = queue[i + 1]
      BY <1>2, <2>1, MovedUp
    <2>3. Len(queue) \in Nat
      OBVIOUS
    <2>4. \A i \in 1 .. Len(queue') : queue'[i] # r /\ queue'[i] \in Requests
      BY <2>1, <2>2, <2>3
    <2>5. \A i, j \in 1 .. Len(queue') : queue'[i] = queue'[j] => i = j
      BY <2>2, <2>3
    <2>6. ASSUME NEW s \in Requests, place'[s] \in Waiting
          PROVE \E i \in 1 .. Len(queue') : queue'[i] = s
      <3>1. s # r /\ place[s] \in Waiting
        BY <1>2, <2>6
      <3>2. PICK i \in 1 .. Len(queue) : queue[i] = s
        BY <3>1
      <3>3. i # 1 /\ i - 1 \in 1 .. Len(queue')
        BY <3>1, <3>2, <2>1, <2>2, <2>3
      <3>4. queue'[i - 1] = queue[(i - 1) + 1] /\ (i - 1) + 1 = i
        BY <3>3, <2>2, <2>3
      <3> QED BY <3>2, <3>3, <3>4
    <2>7. \A i \in 1 .. Len(queue') : place'[queue'[i]] = "queued"
      <3>1. ASSUME NEW i \in 1 .. Len(queue') PROVE place'[queue'[i]] = "queued"
        <4>1. i + 1 \in 2 .. Len(queue)
          BY <2>2, <2>3
        <4>2. queue'[i] = queue[i + 1]
          BY <2>2
        <4>3. place[queue'[i]] = "queued"
          BY <4>1, <4>2
        <4> QED BY <4>3, <2>4, <1>2
      <3> QED BY <3>1
    <2> QED BY <2>2, <2>3, <2>5, <2>6, <2>7 DEF Waiting
  <1>3. ASSUME NEW r \in Requests, Enqueue(r) PROVE QueueRows'
    <2>1. \A i \in 1 .. Len(queue) : queue[i] # r /\ queue[i] \in Requests
      BY <1>3 DEF Enqueue, Waiting, InTurn
    <2>2. /\ Len(queue) \in Nat /\ Len(queue') = Len(queue) + 1
          /\ queue'[Len(queue) + 1] = r
          /\ \A i \in 1 .. Len(queue) : queue'[i] = queue[i]
      BY <1>3 DEF Enqueue
    <2>3. place' = [place EXCEPT ![r] = "queued"]
      BY <1>3 DEF Enqueue
    <2>4. \A i, j \in 1 .. Len(queue') : queue'[i] = queue'[j] => i = j
      BY <2>1, <2>2
    <2>5. \A s \in Requests : place'[s] \in Waiting => \E i \in 1 .. Len(queue') : queue'[i] = s
      BY <2>2, <2>3
    <2>6. \A i \in 1 .. Len(queue') : place'[queue'[i]] \in Waiting
      <3>1. ASSUME NEW i \in 1 .. Len(queue) PROVE place'[queue'[i]] \in Waiting
        BY <2>1, <2>2, <2>3 DEF Waiting
      <3>2. place'[queue'[Len(queue) + 1]] \in Waiting
        BY <2>2, <2>3 DEF Waiting
      <3>3. \A i \in 1 .. Len(queue') : i \in 1 .. Len(queue) \/ i = Len(queue) + 1
        BY <2>2
      <3> QED BY <3>1, <3>2, <3>3
    <2>7. \A i \in 2 .. Len(queue') : place'[queue'[i]] = "queued"
      BY <2>1, <2>2, <2>3
    <2> QED BY <2>4, <2>5, <2>6, <2>7
  <1>4. ASSUME NEW r \in Requests, ChooseName(r) PROVE QueueRows'
    <2>1. PICK i \in 1 .. Len(queue) : queue[i] = r
      BY <1>4 DEF ChooseName, Waiting
    <2>2. Len(queue) \in Nat /\ queue[1] = r
      BY <2>1, <1>4 DEF ChooseName, MyTurn
    <2>3. place' = [place EXCEPT ![r] = "making"] /\ queue' = queue
      BY <1>4 DEF ChooseName
    <2>4. \A k \in 2 .. Len(queue) : queue[k] # r
      BY <2>2
    <2>5. \A k \in 1 .. Len(queue) : queue[k] \in Requests
      OBVIOUS
    <2> QED BY <2>2, <2>3, <2>4, <2>5 DEF Waiting, InTurn
  <1>5. ASSUME NEW r \in Requests, Vacuum(r) \/ VerifySnapshot(r) \/ Discard(r) PROVE QueueRows'
    BY <1>1, <1>5 DEF Vacuum, VerifySnapshot, Discard, InTurn
  <1>6. ASSUME NEW r \in Requests, RecordSuccess(r) PROVE QueueRows'
    BY <1>1, <1>2, <1>6 DEF RecordSuccess, Settle, InTurn, Waiting
  <1>7. ASSUME NEW r \in Requests, RecordFailure(r) PROVE QueueRows'
    BY <1>1, <1>2, <1>7 DEF RecordFailure, Settle, InTurn, Waiting
  <1>8. ASSUME NEW r \in Requests, Signal(r) PROVE QueueRows'
    BY <1>2, <1>8 DEF Signal, Settle, InTurn, Waiting
  <1>9. ASSUME NEW r \in Requests, Audit(r) PROVE QueueRows'
    BY <1>9 DEF Audit, Waiting, InTurn
  <1>10. CASE Crash
    <2>1. Len(queue') = 0 /\ \A r \in Requests : place'[r] \notin Waiting
      BY <1>10 DEF Crash, Waiting, InFlight, InTurn
    <2> QED BY <2>1
  <1>11. CASE Tick \/ UNCHANGED vars
    BY <1>11 DEF Tick, vars
  <1> QED
    BY <1>3, <1>4, <1>5, <1>6, <1>7, <1>8, <1>9, <1>10, <1>11 DEF Next, Run
-----------------------------------------------------------------------------
\* A run that moves on leaves what the history says of the others: the facts of
\* one action each.
LEMMA NameStep ==
  ASSUME TypeOK, QueueRows, Records, NEW r \in Requests, ChooseName(r)
  PROVE  Records'
  <1> USE DEF TypeOK, Records, ChooseName, Goto
  <1>1. FileRows'
    BY DEF FileRows, SuccessesAreRestorable, NameIsFree, InTurn
  <1>2. HistoryRows'
    BY DEF HistoryRows, OnRecord
  <1>3. SuccessesAreRestorable'
    BY DEF SuccessesAreRestorable
  <1>4. NoStrayFiles'
    BY DEF NoStrayFiles, InTurn
  <1>5. OutcomesAreRecorded'
    BY DEF OutcomesAreRecorded, OnRecord
  <1> QED BY <1>1, <1>2, <1>3, <1>4, <1>5

LEMMA VacuumStep ==
  ASSUME TypeOK, QueueRows, Records, NEW r \in Requests, Vacuum(r)
  PROVE  Records'
  <1> USE DEF TypeOK, Records, Vacuum, Goto
  <1>1. place[r] \in InTurn /\ \A s \in Requests : place[s] \in InTurn => s = r
    BY OneInTurn DEF InTurn
  <1>2. FileRows'
    BY <1>1 DEF FileRows, InTurn
  <1>3. HistoryRows'
    BY DEF HistoryRows, OnRecord
  <1>4. SuccessesAreRestorable'
    BY <1>1 DEF SuccessesAreRestorable, FileRows
  <1>5. NoStrayFiles'
    BY <1>1 DEF NoStrayFiles, InTurn
  <1>6. OutcomesAreRecorded'
    BY DEF OutcomesAreRecorded, OnRecord
  <1> QED BY <1>2, <1>3, <1>4, <1>5, <1>6

LEMMA VerifyStep ==
  ASSUME TypeOK, QueueRows, Records, NEW r \in Requests, VerifySnapshot(r)
  PROVE  Records'
  <1> USE DEF TypeOK, Records, VerifySnapshot, Goto
  <1>1. FileRows'
    BY DEF FileRows, InTurn, Verified
  <1>2. HistoryRows'
    BY DEF HistoryRows, OnRecord
  <1>3. SuccessesAreRestorable'
    BY DEF SuccessesAreRestorable
  <1>4. NoStrayFiles'
    BY DEF NoStrayFiles, InTurn
  <1>5. OutcomesAreRecorded'
    BY DEF OutcomesAreRecorded, OnRecord
  <1> QED BY <1>1, <1>2, <1>3, <1>4, <1>5

LEMMA DiscardStep ==
  ASSUME TypeOK, QueueRows, Records, NEW r \in Requests, Discard(r)
  PROVE  Records'
  <1> USE DEF TypeOK, Records, Discard, Goto
  <1>1. place[r] \in InTurn /\ \A s \in Requests : place[s] \in InTurn => s = r
    BY OneInTurn DEF InTurn
  <1>2. FileRows'
    BY <1>1 DEF FileRows, InTurn, RemoveFile
  <1>3. HistoryRows'
    BY DEF HistoryRows, OnRecord
  <1>4. SuccessesAreRestorable'
    BY <1>1 DEF SuccessesAreRestorable, FileRows, RemoveFile
  <1>5. NoStrayFiles'
    BY <1>1 DEF NoStrayFiles, InTurn, RemoveFile
  <1>6. OutcomesAreRecorded'
    BY DEF OutcomesAreRecorded, OnRecord
  <1> QED BY <1>2, <1>3, <1>4, <1>5, <1>6

LEMMA SuccessStep ==
  ASSUME TypeOK, QueueRows, Records, NEW r \in Requests, RecordSuccess(r)
  PROVE  Records'
  <1> USE DEF TypeOK, Records, RecordSuccess, Goto
  <1>1. place[r] \in InTurn /\ \A s \in Requests : place[s] \in InTurn => s = r
    BY OneInTurn DEF InTurn
  <1>2. CASE history' = history /\ place' = [place EXCEPT ![r] = "removing"]
    <2>1. FileRows' /\ HistoryRows'
      BY <1>2 DEF FileRows, HistoryRows, OnRecord, InTurn
    <2>2. SuccessesAreRestorable' /\ NoStrayFiles'
      BY <1>2 DEF SuccessesAreRestorable, NoStrayFiles, InTurn
    <2>3. OutcomesAreRecorded'
      BY <1>2 DEF OutcomesAreRecorded, OnRecord
    <2> QED BY <2>1, <2>2, <2>3
  <1>3. CASE history' = history \cup {Row(r, "success")} /\ place' = [place EXCEPT ![r] = "auditing"]
    <2>0. PICK row : row.by = r /\ row.file = path[r] /\ row.status = "success"
                     /\ history' = history \cup {row}
      BY <1>3 DEF Row
    <2>1. FileRows'
      BY <1>1, <1>3 DEF FileRows, InTurn
    <2>2. \A h \in history : h.by # r
      BY DEF HistoryRows
    <2>3. HistoryRows'
      BY <1>3, <2>0, <2>2 DEF HistoryRows, OnRecord
    <2>4. SuccessesAreRestorable'
      BY <1>1, <1>3, <2>0 DEF SuccessesAreRestorable, FileRows
    <2>5. NoStrayFiles'
      BY <1>3, <2>0 DEF NoStrayFiles, InTurn
    <2>6. OutcomesAreRecorded'
      BY <1>3, <2>0, <2>2 DEF OutcomesAreRecorded, OnRecord
    <2> QED BY <2>1, <2>3, <2>4, <2>5, <2>6
  <1> QED BY <1>2, <1>3

LEMMA FailureStep ==
  ASSUME TypeOK, QueueRows, Records, NEW r \in Requests, RecordFailure(r)
  PROVE  Records'
  <1> USE DEF TypeOK, Records, RecordFailure, Goto
  <1>1. \A h \in history : h.by # r
    BY DEF HistoryRows
  <1>2. CASE history' = history /\ place' = [place EXCEPT ![r] = "unrecorded"]
    <2>1. FileRows' /\ HistoryRows'
      BY <1>2 DEF FileRows, HistoryRows, OnRecord, InTurn
    <2>2. SuccessesAreRestorable'
      BY <1>2 DEF SuccessesAreRestorable
    <2>3. NoStrayFiles'
      BY <1>2 DEF NoStrayFiles, FileRows, InTurn
    <2>4. OutcomesAreRecorded'
      BY <1>2 DEF OutcomesAreRecorded, OnRecord
    <2> QED BY <2>1, <2>2, <2>3, <2>4
  <1>3. CASE history' = history \cup {Row(r, "failed")} /\ place' = [place EXCEPT ![r] = "signalling"]
    <2>0. PICK row : row.by = r /\ row.file = path[r] /\ row.status = "failed"
                     /\ history' = history \cup {row}
      BY <1>3 DEF Row
    <2>1. FileRows'
      BY <1>3, <2>0 DEF FileRows, InTurn
    <2>2. HistoryRows'
      BY <1>1, <1>3, <2>0 DEF HistoryRows, OnRecord
    <2>3. SuccessesAreRestorable'
      BY <1>3, <2>0 DEF SuccessesAreRestorable
    <2>4. NoStrayFiles'
      BY <1>3, <2>0 DEF NoStrayFiles, InTurn
    <2>5. OutcomesAreRecorded'
      BY <1>1, <1>3, <2>0 DEF OutcomesAreRecorded, OnRecord
    <2> QED BY <2>1, <2>2, <2>3, <2>4, <2>5
  <1> QED BY <1>2, <1>3

LEMMA SignalStep ==
  ASSUME TypeOK, QueueRows, Records, NEW r \in Requests, Signal(r)
  PROVE  Records'
  <1> USE DEF TypeOK, Records, Signal, Goto
  <1>1. FileRows'
    BY DEF FileRows, InTurn
  <1>2. HistoryRows'
    BY DEF HistoryRows, OnRecord
  <1>3. SuccessesAreRestorable'
    BY DEF SuccessesAreRestorable
  <1>4. NoStrayFiles'
    BY DEF NoStrayFiles, FileRows, InTurn
  <1>5. OutcomesAreRecorded'
    BY DEF OutcomesAreRecorded, HistoryRows, OnRecord
  <1> QED BY <1>1, <1>2, <1>3, <1>4, <1>5

LEMMA CrashStep ==
  ASSUME TypeOK, QueueRows, Records, Crash
  PROVE  Records'
  <1> USE DEF TypeOK, Records, Crash
  <1>1. FileRows'
    BY DEF FileRows, InTurn, InFlight
  <1>2. HistoryRows'
    BY DEF HistoryRows, OnRecord, InTurn, InFlight
  <1>3. SuccessesAreRestorable'
    BY DEF SuccessesAreRestorable
  <1>4. NoStrayFiles'
    BY DEF NoStrayFiles, InTurn, InFlight
  <1>5. OutcomesAreRecorded'
    BY DEF OutcomesAreRecorded, OnRecord, InTurn, InFlight
  <1> QED BY <1>1, <1>2, <1>3, <1>4, <1>5

\* Joining the queue, auditing an export, and time touch neither files nor rows.
LEMMA OtherSteps ==
  ASSUME TypeOK, QueueRows, Records,
         (\E r \in Requests : Enqueue(r) \/ Audit(r)) \/ Tick \/ UNCHANGED vars
  PROVE  Records'
  <1> USE DEF TypeOK, Records, Goto
  <1>1. ASSUME NEW r \in Requests, Enqueue(r) PROVE Records'
    <2>1. FileRows' /\ HistoryRows'
      BY <1>1 DEF Enqueue, FileRows, HistoryRows, OnRecord, InTurn
    <2>2. SuccessesAreRestorable' /\ NoStrayFiles'
      BY <1>1 DEF Enqueue, SuccessesAreRestorable, NoStrayFiles, InTurn
    <2>3. OutcomesAreRecorded'
      BY <1>1 DEF Enqueue, OutcomesAreRecorded, OnRecord
    <2> QED BY <2>1, <2>2, <2>3
  <1>2. ASSUME NEW r \in Requests, Audit(r) PROVE Records'
    <2>1. FileRows' /\ HistoryRows'
      BY <1>2 DEF Audit, FileRows, HistoryRows, OnRecord, InTurn
    <2>2. SuccessesAreRestorable' /\ NoStrayFiles'
      BY <1>2 DEF Audit, SuccessesAreRestorable, NoStrayFiles, InTurn
    <2>3. OutcomesAreRecorded'
      BY <1>2 DEF Audit, OutcomesAreRecorded, OnRecord
    <2> QED BY <2>1, <2>2, <2>3
  <1>3. CASE Tick \/ UNCHANGED vars
    BY <1>3 DEF Tick, vars, FileRows, HistoryRows, SuccessesAreRestorable, NoStrayFiles,
                OutcomesAreRecorded, OnRecord
  <1> QED BY <1>1, <1>2, <1>3

\* The steps together.
LEMMA NextBackupInv == BackupInv /\ [Next]_vars => BackupInv'
  <1> SUFFICES ASSUME BackupInv, [Next]_vars PROVE BackupInv'
    OBVIOUS
  <1>1. TypeOK' /\ QueueRows'
    BY TypeStep, QueueStep DEF BackupInv
  <1>2. Records'
    BY NameStep, VacuumStep, VerifyStep, DiscardStep, SuccessStep, FailureStep, SignalStep,
       CrashStep, OtherSteps
    DEF BackupInv, Next, Run
  <1> QED BY <1>1, <1>2 DEF BackupInv

THEOREM BackupInvariant == Spec => []BackupInv
  BY InitBackupInv, NextBackupInv, PTL DEF Spec

\* For any number of requests, any failures and any clock, a backup the history
\* calls a success keeps its verified file, and no other success names it.
THEOREM SuccessesStayRestorable == Spec => []SuccessesAreRestorable
  BY BackupInvariant, PTL DEF BackupInv, Records

\* For any number of requests, the directory holds recorded successes, what could
\* not be removed, and the file of one run that is under way or was cut off.
THEOREM StraysAreAccountedFor == Spec => []NoStrayFiles
  BY BackupInvariant, PTL DEF BackupInv, Records

\* For any number of requests, a request has one row, the one its answer says, and
\* the owner is told of recorded failures only.
THEOREM OutcomesStayRecorded == Spec => []OutcomesAreRecorded
  BY BackupInvariant, PTL DEF BackupInv, Records
=============================================================================
