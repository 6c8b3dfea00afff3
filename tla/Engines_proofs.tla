---------------------------- MODULE Engines_proofs ----------------------------
(***************************************************************************)
(* Proofs of the safety properties of the engines, for every set of        *)
(* objects and values and for every number of what others do.              *)
(***************************************************************************)
EXTENDS Engines, SequenceTheorems, FiniteSetTheorems, TLAPS

-----------------------------------------------------------------------------
(* Streams.                                                                *)

Data == Seq(Octets \cup {0})

LEMMA WrittenIsData ==
  ASSUME NEW data \in Data, NEW new \in Data, NEW start \in Nat
  PROVE  write_stream(data, start, new) \in Data
<1>. DEFINE n == IF start > Len(data) THEN start - Len(data) ELSE 0
            padded == data \o Padding(n)
<1>1. n \in Nat /\ Padding(n) \in Data
  BY DEF Padding, Data
<1>2. padded \in Data /\ Len(padded) = Len(data) + n /\ Len(data) \in Nat /\ start <= Len(padded)
  BY <1>1, ConcatProperties DEF Data, Padding
<1>. HIDE DEF padded, n
<1>3. SubSeq(padded, 1, start) \in Data
  BY <1>2, SubSeqProperties, ElementOfSeq DEF Data
<1>4. Len(new) \in Nat /\ SubSeq(padded, start + Len(new) + 1, Len(padded)) \in Data
  BY <1>2, SubSeqProperties, ElementOfSeq DEF Data
<1>5. SubSeq(padded, 1, start) \o new \in Data
  BY <1>3, ConcatProperties DEF Data
<1>6. (SubSeq(padded, 1, start) \o new) \o SubSeq(padded, start + Len(new) + 1, Len(padded)) \in Data
  BY <1>4, <1>5, ConcatProperties DEF Data
<1>. QED  BY <1>6 DEF write_stream, padded, n

\* A file that is written from its start has the new octets, and what was
\* there after them.
LEMMA WrittenFromStart ==
  ASSUME NEW data \in Data, NEW new \in Data
  PROVE  write_stream(data, 0, new) = new \o SubSeq(data, Len(new) + 1, Len(data))
<1>1. Len(data) \in Nat /\ ~(0 > Len(data)) /\ Padding(0) = <<>>
  BY DEF Data, Padding
<1>2. data \o <<>> = data
  BY ConcatEmptySeq DEF Data
<1>3. SubSeq(data, 1, 0) = <<>>
  BY SubSeqEmpty
<1>4. <<>> \o new = new
  BY ConcatEmptySeq DEF Data
<1>5. 0 + Len(new) + 1 = Len(new) + 1
  BY DEF Data
<1>. QED  BY <1>1, <1>2, <1>3, <1>4, <1>5 DEF write_stream

\* Reading on where a prefix ends gives a longer one, and the whole at last.
LEMMA ReadOn ==
  ASSUME NEW data \in Data, NEW start \in 0 .. Len(data),
         NEW ack, ack = read_stream(data, start, ChunkSize)
  PROVE  /\ ack.data \in Data
         /\ \E n \in 0 .. Len(data) :
              SubSeq(data, 1, start) \o ack.data = SubSeq(data, 1, n) /\ Len(SubSeq(data, 1, n)) = n
         /\ ack.end_of_file => SubSeq(data, 1, start) \o ack.data = data
<1>. DEFINE n == IF start + ChunkSize < Len(data) THEN start + ChunkSize ELSE Len(data)
<1>1. n \in start .. Len(data) /\ Len(data) \in Nat /\ start \in Nat
  BY MaintenanceAssumption DEF Data
<1>2. ack.data = SubSeq(data, start + 1, n) /\ (ack.end_of_file <=> start + ChunkSize >= Len(data))
  BY Zenon DEF read_stream
<1>3. SubSeq(data, 1, start) \o SubSeq(data, start + 1, n) = SubSeq(data, 1, n)
  <2>. HIDE DEF n
  <2>1. 1 \in 1 .. Len(data) + 1 /\ start \in 1 - 1 .. Len(data) /\ n \in start .. Len(data)
    BY <1>1
  <2>. QED  BY <2>1, ConcatAdjacentSubSeq DEF Data
<1>4. start + ChunkSize >= Len(data) => n = Len(data)
  BY <1>1, MaintenanceAssumption
<1>. HIDE DEF n
<1>5. SubSeq(data, start + 1, n) \in Data
  BY <1>1, SubSeqProperties, ElementOfSeq DEF Data
<1>6. Len(SubSeq(data, 1, n)) = n
  BY <1>1, SubSeqProperties, ElementOfSeq DEF Data
<1>7. SubSeq(data, 1, Len(data)) = data
  BY SubSeqFull DEF Data
<1>8. ack.data \in Data
  BY <1>2, <1>5
<1>9. n \in 0 .. Len(data)
  BY <1>1
<1>10. SubSeq(data, 1, start) \o ack.data = SubSeq(data, 1, n)
  BY <1>2, <1>3, Zenon
<1>11. ack.end_of_file => SubSeq(data, 1, n) = data
  BY <1>2, <1>4, <1>7
<1>. QED  BY <1>6, <1>8, <1>9, <1>10, <1>11, Zenon

-----------------------------------------------------------------------------
(* Procedures.                                                             *)

Preparing(procedure) ==
  IF procedure = "backup" THEN Reinitialized.START_BACKUP ELSE Reinitialized.START_RESTORE

DeviceStates == {Operational, Reinitialized.START_BACKUP, Reinitialized.START_RESTORE}

FileStates == [Files -> FileRecords]

Works ==
  [at : {"idle", "polling", "listing", "downloading", "uploading", "done", "failed"},
   procedure : {"none", "backup", "restore"}, contents : Seq(BackupFiles), next : Nat \ {0},
   buf : Data, before : FileStates \cup {<<>>}, crossed : BOOLEAN]

\* What a client has got so far follows from where it is.
WorkOK(w) ==
  /\ w \in Works /\ w.next <= Len(w.contents) + 1
  /\ w.at # "idle" => w.before \in FileStates /\ w.procedure # "none"
  /\ w.at \in {"polling", "listing"} => w.next = 1 /\ w.buf = <<>>
  /\ w.at \in {"listing", "downloading"} => w.procedure = "backup"
  /\ w.at = "uploading" => w.procedure = "restore"
  /\ w.at \in {"polling", "uploading"} /\ w.procedure = "restore" =>
       w.contents \in maintained.archive

\* The file a backup has in place i, as it was when the procedure started.
Original(w, i) == w.before[maintained.configuration[i]].data

\* The files before the one that is read are there, and of that a prefix.
Fetched(w) ==
  /\ Len(w.contents) = Len(maintained.configuration)
  /\ \A i \in DOMAIN w.contents :
       /\ w.contents[i].file = maintained.configuration[i]
       /\ i < w.next => w.contents[i].data = Original(w, i)
  /\ w.next <= Len(w.contents) =>
       \E n \in 0 .. Len(Original(w, w.next)) :
         w.buf = SubSeq(Original(w, w.next), 1, n) /\ Len(w.buf) = n

\* The files before the one that is written next are as they should be, and
\* the others as they were.
Restored(w) ==
  /\ \A i \in DOMAIN w.contents : i < w.next =>
       LET old == Before(w, w.contents[i].file)
           new == w.contents[i].data
       IN files[w.contents[i].file].data = new \o SubSeq(old, Len(new) + 1, Len(old))
  /\ \A f \in Files :
       (\A i \in DOMAIN w.contents : i < w.next => w.contents[i].file # f)
         => files[f].data = Before(w, f)

Snapshot(w) ==
  w.contents = [i \in DOMAIN maintained.configuration |->
                  [file |-> maintained.configuration[i],
                   data |-> Before(w, maintained.configuration[i])]]

\* What others have not crossed follows the files and the device.
Follows(w) ==
  /\ w.at \notin Resting => device = Preparing(w.procedure)
  /\ w.at \in {"polling", "listing", "downloading"} => files = w.before
  /\ w.at = "downloading" => Fetched(w)
  /\ w.at = "uploading" => Restored(w)
  /\ w.at = "done" /\ w.procedure = "backup" => Snapshot(w)

Undisturbed(c) ==
  ~worker[c].crossed => Follows(worker[c]) /\ (c \in AtWork => AtWork = {c})

TransferOK ==
  /\ maintained \in MaintenanceSettings /\ device \in DeviceStates /\ files \in FileStates
  /\ DOMAIN worker = Clients /\ worker = [c \in Clients |-> worker[c]]
  /\ \A c \in Clients : WorkOK(worker[c]) /\ Undisturbed(c)
  /\ SomebodyIsToBlame

LEMMA InitTransfer == MaintenanceInit => TransferOK
<1>. SUFFICES ASSUME MaintenanceInit PROVE TransferOK
  OBVIOUS
<1>1. \A c \in Clients : worker[c] = NoWork
  BY DEF MaintenanceInit
<1>2. WorkOK(NoWork) /\ ~NoWork.crossed /\ NoWork.at = "idle"
  BY EmptySeq DEF NoWork, WorkOK, Works, Data
<1>3. AtWork = {}
  BY <1>1, <1>2 DEF AtWork, Resting
<1>4. \A c \in Clients : Undisturbed(c)
  BY <1>1, <1>2, <1>3 DEF Undisturbed, Follows, Resting
<1>5. maintained \in MaintenanceSettings /\ files \in FileStates /\ device = Operational
  BY MaintenanceAssumption DEF MaintenanceInit, FileStates
<1>. QED
  BY <1>1, <1>2, <1>4, <1>5 DEF TransferOK, SomebodyIsToBlame, DeviceStates, MaintenanceInit

\* The client c, and no other that is at work undisturbed, takes a step.
LEMMA OneWorker ==
  ASSUME TransferOK, NEW c \in Clients, NEW x, worker' = [worker EXCEPT ![c] = x],
         UNCHANGED maintained, device' \in DeviceStates, files' \in FileStates,
         WorkOK(x), x.at \in {"idle", "done"} => device' = Operational,
         ~x.crossed => Follows(x)',
         ~x.crossed /\ x.at \notin Resting => AtWork \subseteq {c},
         \A d \in AtWork \ {c} :
           worker[d].crossed \/ (x.at \in Resting /\ UNCHANGED <<device, files>>)
  PROVE  TransferOK'
<1>1. /\ DOMAIN worker' = Clients /\ worker' = [d \in Clients |-> worker'[d]]
      /\ worker'[c] = x /\ \A d \in Clients \ {c} : worker'[d] = worker[d]
  BY DEF TransferOK
<1>2. /\ AtWork' \subseteq AtWork \cup {c} /\ AtWork \ {c} \subseteq AtWork'
      /\ c \in AtWork' <=> x.at \notin Resting
  BY <1>1 DEF AtWork
<1>3. \A d \in Clients : WorkOK(worker[d])'
  <2>1. \A w : WorkOK(w) => WorkOK(w)'
    BY DEF WorkOK
  <2>2. \A d \in Clients : WorkOK(worker'[d])
    BY <1>1 DEF TransferOK
  <2>. QED  BY <2>1, <2>2
<1>4. Undisturbed(c)'
  BY <1>1, <1>2 DEF Undisturbed
<1>5. ASSUME NEW d \in Clients \ {c}
      PROVE  Undisturbed(d)'
  <2>1. PICK w : w = worker[d] /\ w = worker'[d]
    BY <1>1
  <2>. SUFFICES ASSUME ~w.crossed PROVE Follows(w)' /\ (d \in AtWork' => AtWork' = {d})
    BY <2>1 DEF Undisturbed
  <2>2. Follows(w) /\ (d \in AtWork => AtWork = {d})
    BY <2>1 DEF TransferOK, Undisturbed
  <2>3. CASE d \in AtWork
    <3>1. AtWork = {d} /\ x.at \in Resting /\ UNCHANGED <<device, files>>
      BY <2>1, <2>2, <2>3
    <3>2. AtWork' = {d}
      BY <1>2, <3>1
    <3>3. Follows(w)'
      BY <2>2, <3>1, Zenon DEF Follows, Fetched, Restored, Snapshot, Original, Before
    <3>. QED  BY <3>2, <3>3
  <2>4. CASE d \notin AtWork
    <3>1. w.at \in Resting /\ d \notin AtWork'
      BY <1>2, <2>1, <2>4 DEF AtWork
    <3>. QED  BY <2>2, <3>1 DEF Follows, Resting, Snapshot, Before
  <2>. QED  BY <2>3, <2>4
<1>6. SomebodyIsToBlame'
  BY <1>1 DEF SomebodyIsToBlame, TransferOK
<1>. QED  BY <1>1, <1>3, <1>4, <1>5, <1>6 DEF TransferOK

LEMMA FailedWork ==
  ASSUME NEW w, WorkOK(w), w.at # "idle", NEW x, x = [w EXCEPT !.at = "failed"]
  PROVE  WorkOK(x) /\ x.at = "failed" /\ x.crossed = w.crossed /\ Follows(x)'
<1>1. /\ x \in Works /\ x.at = "failed" /\ x.crossed = w.crossed /\ x.before = w.before
      /\ x.procedure = w.procedure /\ x.next = w.next /\ x.contents = w.contents
  BY DEF WorkOK, Works
<1>2. WorkOK(x)
  BY <1>1 DEF WorkOK
<1>. QED  BY <1>1, <1>2 DEF Follows, Resting

LEMMA AtWorkAlone ==
  ASSUME TransferOK, NEW c \in AtWork
  PROVE  /\ c \in Clients /\ WorkOK(worker[c]) /\ worker[c].at \notin Resting
         /\ worker[c].crossed \in BOOLEAN
         /\ ~worker[c].crossed => AtWork = {c} /\ Follows(worker[c])
         /\ \A d \in AtWork \ {c} : worker[d].crossed
<1>1. \A d \in AtWork : /\ d \in Clients /\ worker[d].at \notin Resting
                        /\ WorkOK(worker[d]) /\ Undisturbed(d)
  BY DEF TransferOK, AtWork
<1>2. \A d \in AtWork : ~worker[d].crossed => AtWork = {d} /\ Follows(worker[d])
  BY <1>1 DEF Undisturbed
<1>3. worker[c].crossed \in BOOLEAN
  BY <1>1 DEF WorkOK, Works
<1>. QED  BY <1>1, <1>2, <1>3

\* The step fails, whatever it has done to the device and the files.
LEMMA RaisingKeepsTransfer ==
  ASSUME TransferOK, NEW c \in AtWork, Raises(c), UNCHANGED maintained,
         device' \in DeviceStates, files' \in FileStates
  PROVE  TransferOK'
<1>1. PICK x : x = [worker[c] EXCEPT !.at = "failed"]
  BY Zenon
<1>2. worker' = [worker EXCEPT ![c] = x]
  BY <1>1 DEF Raises
<1>3. WorkOK(x) /\ x.at = "failed" /\ Follows(x)'
  BY <1>1, AtWorkAlone, FailedWork DEF Resting
<1>4. x.at \in Resting /\ x.at \notin {"idle", "done"}
  BY <1>3 DEF Resting
<1>5. \A d \in AtWork \ {c} : worker[d].crossed
  BY AtWorkAlone
<1>. QED  BY <1>2, <1>3, <1>4, <1>5, AtWorkAlone, OneWorker, Zenon

\* The step succeeds, or the client does not get to know that it has.
LEMMA AnswerKeepsTransfer ==
  ASSUME TransferOK, NEW c \in AtWork, NEW w, GetsAnswer(c, w), UNCHANGED maintained,
         device' \in DeviceStates, files' \in FileStates,
         WorkOK(w), w.at # "idle", w.at = "done" => device' = Operational,
         w.crossed = worker[c].crossed, ~w.crossed => Follows(w)'
  PROVE  TransferOK'
<1>1. PICK x : x \in {w, [w EXCEPT !.at = "failed"]} /\ worker' = [worker EXCEPT ![c] = x]
  BY Zenon DEF GetsAnswer
<1>2. /\ WorkOK(x) /\ x.crossed = w.crossed /\ (~x.crossed => Follows(x)')
      /\ x.at \in {"idle", "done"} => device' = Operational
  BY <1>1, FailedWork
<1>3. \A d \in AtWork \ {c} : worker[d].crossed
  BY AtWorkAlone
<1>4. ~x.crossed => AtWork = {c}
  BY <1>2, AtWorkAlone
<1>. QED  BY <1>1, <1>2, <1>3, <1>4, AtWorkAlone, OneWorker, Zenon

LEMMA DeviceTaken ==
  ASSUME TransferOK, NEW request \in DOMAIN Reinitialized, handle_reinitialize_device(request)
  PROVE  device' \in DeviceStates
BY DEF handle_reinitialize_device, TransferOK, DeviceStates, Reinitialized

LEMMA StartKeepsTransfer ==
  ASSUME TransferOK, NEW c \in Clients, NEW procedure, NEW contents,
         \/ procedure = "backup" /\ contents = <<>>
         \/ procedure = "restore" /\ contents \in maintained.archive,
         start_procedure(c, procedure, contents), UNCHANGED maintained
  PROVE  TransferOK'
<1>. DEFINE request == IF procedure = "backup" THEN "START_BACKUP" ELSE "START_RESTORE"
<1>0. PICK w : w = [NoWork EXCEPT !.at = "polling", !.procedure = procedure,
                      !.contents = contents, !.before = files, !.crossed = AtWork # {}]
  BY Zenon
<1>1. device' \in DeviceStates /\ files' = files /\ files \in FileStates /\ c \notin AtWork
  BY DeviceTaken DEF start_procedure, Reinitialized, TransferOK
<1>2. contents \in Seq(BackupFiles) /\ procedure \in {"backup", "restore"}
  BY MaintenanceAssumption, EmptySeq, Zenon DEF TransferOK
<1>3. /\ w.at = "polling" /\ w.procedure = procedure /\ w.contents = contents /\ w.next = 1
      /\ w.buf = <<>> /\ w.before = files /\ w.crossed = (AtWork # {}) /\ w \in Works
  <2>1. w = [at |-> "polling", procedure |-> procedure, contents |-> contents, next |-> 1,
             buf |-> <<>>, before |-> files, crossed |-> AtWork # {}]
    BY <1>0, Zenon DEF NoWork
  <2>2. <<>> \in Data /\ (AtWork # {}) \in BOOLEAN
    BY EmptySeq DEF Data
  <2>. QED  BY <1>1, <1>2, <2>1, <2>2 DEF Works
<1>4. \/ Accepts(request) /\ GetsAnswer(c, w)
      \/ ~Accepts(request) /\ worker' = [worker EXCEPT ![c] = [w EXCEPT !.at = "failed"]]
  BY <1>0 DEF start_procedure
<1>5. Accepts(request) => device' = Preparing(procedure) /\ device.state = "idle"
  BY <1>2 DEF start_procedure, handle_reinitialize_device, Accepts, Preparing
<1>6. ~Accepts(request) => device' = device
  BY DEF start_procedure, handle_reinitialize_device
<1>. HIDE DEF request
<1>7. WorkOK(w) /\ w.at # "idle"
  <2>1. Len(contents) \in Nat
    BY <1>2
  <2>. QED  BY <1>1, <1>2, <1>3, <2>1 DEF WorkOK
<1>8. Accepts(request) => Follows(w)'
  BY <1>1, <1>3, <1>5 DEF Follows
<1>9. \A d \in AtWork \ {c} : Accepts(request) => worker[d].crossed
  <2>. SUFFICES ASSUME NEW d \in AtWork, ~worker[d].crossed, device.state = "idle" PROVE FALSE
    BY <1>5
  <2>. QED  BY AtWorkAlone DEF Follows, Preparing, Reinitialized
<1>10. PICK x : /\ x \in {w, [w EXCEPT !.at = "failed"]} /\ worker' = [worker EXCEPT ![c] = x]
                /\ Accepts(request) \/ x = [w EXCEPT !.at = "failed"]
  BY <1>4, Zenon DEF GetsAnswer
<1>11. /\ WorkOK(x) /\ x.crossed = w.crossed /\ x.at \notin {"idle", "done"}
       /\ x.at \in Resting \/ Accepts(request)
       /\ ~x.crossed => Follows(x)'
  <2>1. CASE x = w /\ Accepts(request)
    BY <1>3, <1>7, <1>8, <2>1
  <2>2. CASE x = [w EXCEPT !.at = "failed"]
    BY <1>7, <2>2, FailedWork DEF Resting
  <2>. QED  BY <1>10, <2>1, <2>2
<1>12. ~x.crossed => AtWork = {}
  BY <1>3, <1>11, Zenon
<1>13. \A d \in AtWork \ {c} :
         worker[d].crossed \/ (x.at \in Resting /\ UNCHANGED <<device, files>>)
  BY <1>1, <1>6, <1>9, <1>11, AtWorkAlone
<1>. QED  BY <1>1, <1>10, <1>11, <1>12, <1>13, OneWorker, Zenon

LEMMA PollKeepsTransfer ==
  ASSUME TransferOK, NEW c \in Clients, poll_backup_restore_state(c), UNCHANGED maintained
  PROVE  TransferOK'
<1>1. c \in AtWork /\ worker[c].at = "polling" /\ UNCHANGED <<device, files>>
  BY DEF poll_backup_restore_state, AtWork, Resting
<1>2. CASE Raises(c)
  BY <1>1, <1>2, RaisingKeepsTransfer DEF TransferOK
<1>3. CASE ~Raises(c)
  <2>1. PICK w : w = [worker[c] EXCEPT
                        !.at = IF worker[c].procedure = "backup" THEN "listing" ELSE "uploading"]
    BY Zenon
  <2>2. GetsAnswer(c, w)
    BY <1>3, <2>1 DEF poll_backup_restore_state
  <2>3. WorkOK(worker[c]) /\ (~worker[c].crossed => Follows(worker[c]))
    BY <1>1, AtWorkAlone
  <2>4. /\ w.at = IF worker[c].procedure = "backup" THEN "listing" ELSE "uploading"
        /\ w.procedure = worker[c].procedure /\ w.contents = worker[c].contents
        /\ w.next = worker[c].next /\ w.buf = worker[c].buf /\ w.before = worker[c].before
        /\ w.crossed = worker[c].crossed /\ w \in Works
    BY <2>1, <2>3 DEF WorkOK, Works
  <2>5. WorkOK(w)
    BY <1>1, <2>3, <2>4 DEF WorkOK, Works
  <2>6. ~w.crossed => Follows(w)'
    <3>. SUFFICES ASSUME ~w.crossed PROVE Follows(w)'
      OBVIOUS
    <3>1. device = Preparing(w.procedure) /\ files = w.before /\ w.next = 1
      BY <1>1, <2>3, <2>4 DEF Follows, WorkOK, Resting
    <3>2. Restored(w)'
      <4>1. \A i \in DOMAIN w.contents : ~(i < 1)
        BY <2>4 DEF Works
      <4>. QED  BY <1>1, <3>1, <4>1, Zenon DEF Restored, Before
    <3>. QED  BY <1>1, <2>4, <3>1, <3>2 DEF Follows
  <2>. QED  BY <1>1, <2>2, <2>4, <2>5, <2>6, AnswerKeepsTransfer DEF TransferOK
<1>. QED  BY <1>2, <1>3

LEMMA ListKeepsTransfer ==
  ASSUME TransferOK, NEW c \in Clients, read_configuration_files(c), UNCHANGED maintained
  PROVE  TransferOK'
<1>1. c \in AtWork /\ worker[c].at = "listing" /\ UNCHANGED <<device, files>>
  BY DEF read_configuration_files, AtWork, Resting
<1>2. PICK contents : contents = [i \in DOMAIN maintained.configuration |->
                                    [file |-> maintained.configuration[i], data |-> <<>>]]
  BY Zenon
<1>3. PICK w : w = [worker[c] EXCEPT !.at = "downloading", !.contents = contents]
  OBVIOUS
<1>4. GetsAnswer(c, w)
  BY <1>2, <1>3 DEF read_configuration_files
<1>5. WorkOK(worker[c]) /\ (~worker[c].crossed => Follows(worker[c]))
  BY <1>1, AtWorkAlone
<1>6. /\ contents \in Seq(BackupFiles) /\ Len(contents) = Len(maintained.configuration)
      /\ \A i \in DOMAIN contents : contents[i].file = maintained.configuration[i]
      /\ DOMAIN contents = 1 .. Len(contents) /\ Len(contents) \in Nat
  <2>1. maintained.configuration \in Seq(Files) /\ <<>> \in Data
    BY MaintenanceAssumption, EmptySeq DEF TransferOK, Data
  <2>2. /\ Len(maintained.configuration) \in Nat
        /\ DOMAIN maintained.configuration = 1 .. Len(maintained.configuration)
        /\ \A i \in DOMAIN maintained.configuration : maintained.configuration[i] \in Files
    BY <2>1
  <2>. QED  BY <1>2, <2>1, <2>2 DEF BackupFiles, Data
<1>7. /\ w.at = "downloading" /\ w.procedure = worker[c].procedure /\ w.contents = contents
      /\ w.next = worker[c].next /\ w.buf = worker[c].buf /\ w.before = worker[c].before
      /\ w.crossed = worker[c].crossed /\ w \in Works
  BY <1>3, <1>5, <1>6, Zenon DEF WorkOK, Works
<1>8. w.next = 1 /\ w.buf = <<>> /\ w.procedure = "backup"
  BY <1>1, <1>5, <1>7 DEF WorkOK
<1>9. WorkOK(w)
  BY <1>1, <1>5, <1>6, <1>7, <1>8 DEF WorkOK
<1>10. ~w.crossed => Follows(w)'
  <2>. SUFFICES ASSUME ~w.crossed PROVE Follows(w)'
    OBVIOUS
  <2>1. device = Preparing(w.procedure) /\ files = w.before
    BY <1>1, <1>5, <1>7 DEF Follows, Resting
  <2>2. Fetched(w)'
    <3>1. \A i \in DOMAIN w.contents : ~(i < w.next)
      BY <1>6, <1>7, <1>8
    <3>2. ASSUME 1 <= Len(w.contents)
          PROVE  w.buf = SubSeq(Original(w, 1), 1, 0) /\ Len(w.buf) = 0
                 /\ 0 \in 0 .. Len(Original(w, 1))
      <4>1. Original(w, 1) \in Data
        <5>1. maintained.configuration[1] \in Files
          BY <1>6, <1>7, <3>2, MaintenanceAssumption DEF TransferOK
        <5>. QED
          BY <2>1, <5>1 DEF TransferOK, Original, FileStates, FileRecords, Data
      <4>. QED  BY <1>8, <4>1, SubSeqEmpty DEF Data
    <3>3. Original(w, 1)' = Original(w, 1)
      BY DEF Original
    <3>. QED  BY <1>6, <1>7, <1>8, <3>1, <3>2, <3>3 DEF Fetched
  <2>. QED  BY <1>1, <1>7, <2>1, <2>2 DEF Follows
<1>. QED  BY <1>1, <1>4, <1>7, <1>9, <1>10, AnswerKeepsTransfer DEF TransferOK

LEMMA ReadIsData ==
  ASSUME NEW data \in Data, NEW start \in Nat
  PROVE  read_stream(data, start, ChunkSize).data \in Data
<1>. DEFINE n == IF start + ChunkSize < Len(data) THEN start + ChunkSize ELSE Len(data)
<1>1. n \in Int /\ n <= Len(data) /\ Len(data) \in Nat
  BY MaintenanceAssumption DEF Data
<1>2. read_stream(data, start, ChunkSize).data = SubSeq(data, start + 1, n)
  BY Zenon DEF read_stream
<1>. HIDE DEF n
<1>3. SubSeq(data, start + 1, n) \in Data
  BY <1>1, SubSeqProperties, ElementOfSeq DEF Data
<1>. QED  BY <1>2, <1>3

\* The file in place i of what the client has.
LEMMA ContentsOf ==
  ASSUME NEW w, WorkOK(w), w.next <= Len(w.contents)
  PROVE  /\ w.next \in DOMAIN w.contents /\ DOMAIN w.contents = 1 .. Len(w.contents)
         /\ Len(w.contents) \in Nat /\ w.buf \in Data /\ Len(w.buf) \in Nat
         /\ \A i \in DOMAIN w.contents : w.contents[i] \in BackupFiles
BY DEF WorkOK, Works, Data

\* The next file is as it was, and what the client has of it is a prefix.
LEMMA FileRead ==
  ASSUME TransferOK, NEW w, WorkOK(w), w.at = "downloading", w.next <= Len(w.contents),
         NEW f, f = files[w.contents[w.next].file],
         NEW ack, ack = read_stream(f.data, Len(w.buf), ChunkSize)
  PROVE  /\ f.data \in Data /\ ack.data \in Data
         /\ ~w.crossed /\ Follows(w) =>
              /\ Fetched(w) /\ f.data = Original(w, w.next)
              /\ \E n \in 0 .. Len(f.data) :
                   /\ w.buf \o ack.data = SubSeq(f.data, 1, n)
                   /\ Len(w.buf \o ack.data) = n
              /\ ack.end_of_file => w.buf \o ack.data = f.data
<1>0. /\ w.next \in DOMAIN w.contents /\ Len(w.buf) \in Nat
      /\ w.contents[w.next].file \in Files
  BY ContentsOf DEF BackupFiles
<1>1. f \in FileRecords
  BY <1>0 DEF TransferOK, FileStates
<1>2. f.data \in Data
  BY <1>1 DEF FileRecords, Data
<1>3. ack.data \in Data
  BY <1>0, <1>2, ReadIsData
<1>4. ASSUME Follows(w) PROVE Fetched(w) /\ f.data = Original(w, w.next)
  BY <1>0, <1>4 DEF Follows, Fetched, Original
<1>5. ASSUME Follows(w), Fetched(w), f.data = Original(w, w.next)
      PROVE  /\ \E n \in 0 .. Len(f.data) :
                  /\ w.buf \o ack.data = SubSeq(f.data, 1, n)
                  /\ Len(w.buf \o ack.data) = n
             /\ ack.end_of_file => w.buf \o ack.data = f.data
  <2>1. PICK data \in Data : data = f.data
    BY <1>2
  <2>2. PICK n \in 0 .. Len(data) : w.buf = SubSeq(data, 1, n) /\ Len(w.buf) = n
    BY <1>5, <2>1 DEF Fetched
  <2>3. ack = read_stream(data, n, ChunkSize)
    BY <2>1, <2>2
  <2>4. /\ \E k \in 0 .. Len(data) :
             SubSeq(data, 1, n) \o ack.data = SubSeq(data, 1, k) /\ Len(SubSeq(data, 1, k)) = k
        /\ ack.end_of_file => SubSeq(data, 1, n) \o ack.data = data
    BY <2>3, ReadOn, Zenon
  <2>. QED  BY <2>1, <2>2, <2>4, Zenon
<1>. QED  BY <1>2, <1>3, <1>4, <1>5, Zenon

\* A chunk that is not the last.
LEMMA ChunkFetched ==
  ASSUME NEW w, WorkOK(w), w.at = "downloading", w.next <= Len(w.contents),
         NEW new \in Data, NEW x, x = [w EXCEPT !.buf = new]
  PROVE  /\ WorkOK(x) /\ x.at = w.at /\ x.crossed = w.crossed /\ x.contents = w.contents
         /\ x.next = w.next /\ x.before = w.before /\ x.procedure = w.procedure
         /\ x.buf = new
<1>1. /\ x \in Works /\ x.at = w.at /\ x.crossed = w.crossed /\ x.contents = w.contents
      /\ x.next = w.next /\ x.before = w.before /\ x.procedure = w.procedure
      /\ x.buf = new
  BY DEF WorkOK, Works
<1>. QED  BY <1>1 DEF WorkOK

\* The last chunk of a file.
FileTaken(w, new) ==
  [w EXCEPT !.contents[w.next].data = new, !.next = @ + 1, !.buf = <<>>]

LEMMA FileFetched ==
  ASSUME NEW w, WorkOK(w), w.at = "downloading", w.next <= Len(w.contents),
         NEW new \in Data
  PROVE  \E x :
         /\ x = FileTaken(w, new)
         /\ WorkOK(x) /\ x.at = w.at /\ x.crossed = w.crossed /\ x.next = w.next + 1
         /\ x.before = w.before /\ x.procedure = w.procedure /\ x.buf = <<>>
         /\ Len(x.contents) = Len(w.contents) /\ DOMAIN x.contents = DOMAIN w.contents
         /\ \A i \in DOMAIN x.contents :
              /\ x.contents[i].file = w.contents[i].file
              /\ x.contents[i].data = IF i = w.next THEN new ELSE w.contents[i].data
<1>0. /\ w.next \in DOMAIN w.contents /\ Len(w.contents) \in Nat
      /\ w.contents \in Seq(BackupFiles) /\ w.contents[w.next] \in BackupFiles
      /\ w \in Works /\ w.next \in Nat
  BY ContentsOf DEF WorkOK, Works
<1>1. PICK b : b = [w.contents[w.next] EXCEPT !.data = new]
  BY Zenon
<1>2. b \in BackupFiles /\ b.file = w.contents[w.next].file /\ b.data = new
  BY <1>0, <1>1, Zenon DEF BackupFiles, Data
<1>3. PICK contents : contents = [w.contents EXCEPT ![w.next] = b]
  BY Zenon
<1>4. PICK x : x = [w EXCEPT !.contents = contents, !.next = @ + 1, !.buf = <<>>]
  OBVIOUS
<1>5. /\ contents \in Seq(BackupFiles) /\ Len(contents) = Len(w.contents)
      /\ DOMAIN contents = DOMAIN w.contents
      /\ \A i \in DOMAIN contents : contents[i] = IF i = w.next THEN b ELSE w.contents[i]
  BY <1>0, <1>2, <1>3
<1>6. /\ x \in Works /\ x.at = w.at /\ x.crossed = w.crossed /\ x.contents = contents
      /\ x.next = w.next + 1 /\ x.before = w.before /\ x.procedure = w.procedure /\ x.buf = <<>>
  <2>1. w \in Works /\ w.next \in Nat /\ contents \in Seq(BackupFiles)
    BY <1>0, <1>5
  <2>2. <<>> \in Data /\ w.next + 1 \in Nat \ {0}
    BY <1>0, EmptySeq DEF Data
  <2>. QED  BY <1>4, <2>1, <2>2, Zenon DEF Works
<1>7. WorkOK(x)
  BY <1>0, <1>5, <1>6 DEF WorkOK
<1>8. x = FileTaken(w, new)
  BY <1>0, <1>1, <1>3, <1>4 DEF FileTaken
<1>9. \A i \in DOMAIN x.contents :
         /\ x.contents[i].file = w.contents[i].file
         /\ x.contents[i].data = IF i = w.next THEN new ELSE w.contents[i].data
  BY <1>2, <1>5, <1>6
<1>10. Len(x.contents) = Len(w.contents) /\ DOMAIN x.contents = DOMAIN w.contents
  BY <1>5, <1>6
<1>. WITNESS x
<1>. QED  BY <1>6, <1>7, <1>8, <1>9, <1>10

LEMMA DownloadKeepsTransfer ==
  ASSUME TransferOK, NEW c \in Clients, download_file(c), UNCHANGED maintained
  PROVE  TransferOK'
<1>1. /\ c \in AtWork /\ worker[c].at = "downloading" /\ UNCHANGED <<device, files>>
      /\ worker[c].next <= Len(worker[c].contents)
  BY Zenon DEF download_file, AtWork, Resting
<1>2. CASE Raises(c)
  BY <1>1, <1>2, RaisingKeepsTransfer DEF TransferOK
<1>3. CASE ~Raises(c)
  <2>1. PICK w : w = worker[c]
    OBVIOUS
  <2>2. PICK f : f = files[w.contents[w.next].file]
    OBVIOUS
  <2>3. PICK ack : ack = read_stream(f.data, Len(w.buf), ChunkSize)
    OBVIOUS
  <2>4. PICK new : new = w.buf \o ack.data
    BY Zenon
  <2>5. GetsAnswer(c, IF ack.end_of_file
                        THEN FileTaken(w, new) ELSE [w EXCEPT !.buf = new])
    BY <1>3, <2>1, <2>2, <2>3, <2>4, Zenon DEF download_file, FileTaken
  <2>6. /\ WorkOK(w) /\ w.at = "downloading" /\ w.next <= Len(w.contents)
        /\ ~w.crossed => Follows(w)
    BY <1>1, <2>1, AtWorkAlone
  <2>7. /\ f.data \in Data /\ ack.data \in Data
        /\ ~w.crossed /\ Follows(w) =>
             /\ Fetched(w) /\ f.data = Original(w, w.next)
             /\ \E n \in 0 .. Len(f.data) : new = SubSeq(f.data, 1, n) /\ Len(new) = n
             /\ ack.end_of_file => new = f.data
    BY <2>2, <2>3, <2>4, <2>6, FileRead, Zenon
  <2>8. new \in Data
    BY <2>4, <2>6, <2>7, ContentsOf, ConcatProperties DEF Data
  <2>9. CASE ~ack.end_of_file
    <3>1. PICK x : x = [w EXCEPT !.buf = new]
      BY Zenon
    <3>2. /\ WorkOK(x) /\ x.at = w.at /\ x.crossed = w.crossed /\ x.contents = w.contents
          /\ x.next = w.next /\ x.before = w.before /\ x.procedure = w.procedure
          /\ x.buf = new
      BY <2>6, <2>8, <3>1, ChunkFetched
    <3>3. ASSUME ~x.crossed PROVE Follows(x)'
      <4>1. device = Preparing(x.procedure) /\ files = x.before
        BY <2>6, <3>2, <3>3 DEF Follows, Resting
      <4>2. Fetched(x)'
        BY <1>1, <2>6, <2>7, <3>2, <3>3 DEF Fetched, Original
      <4>. QED  BY <1>1, <2>6, <3>2, <4>1, <4>2 DEF Follows
    <3>4. GetsAnswer(c, x)
      BY <2>5, <2>9, <3>1
    <3>. QED  BY <1>1, <2>1, <2>6, <3>2, <3>3, <3>4, AnswerKeepsTransfer DEF TransferOK
  <2>10. CASE ack.end_of_file
    <3>1. PICK x :
            /\ x = FileTaken(w, new)
            /\ WorkOK(x) /\ x.at = w.at /\ x.crossed = w.crossed /\ x.next = w.next + 1
            /\ x.before = w.before /\ x.procedure = w.procedure /\ x.buf = <<>>
            /\ Len(x.contents) = Len(w.contents) /\ DOMAIN x.contents = DOMAIN w.contents
            /\ \A i \in DOMAIN x.contents :
                 /\ x.contents[i].file = w.contents[i].file
                 /\ x.contents[i].data = IF i = w.next THEN new ELSE w.contents[i].data
      BY <2>6, <2>8, FileFetched
    <3>3. ASSUME ~x.crossed PROVE Follows(x)'
      <4>1. device = Preparing(x.procedure) /\ files = x.before
        BY <2>6, <3>1, <3>3 DEF Follows, Resting
      <4>2. Fetched(x)'
        <5>. SUFFICES Fetched(x)
          BY <1>1 DEF Fetched, Original
        <5>1. Fetched(w) /\ new = Original(w, w.next)
          BY <2>6, <2>7, <2>10, <3>1, <3>3
        <5>2. /\ DOMAIN x.contents = 1 .. Len(x.contents) /\ Len(x.contents) \in Nat
              /\ w.next \in Nat
          BY <2>6, <3>1, ContentsOf DEF WorkOK, Works
        <5>3. Len(x.contents) = Len(maintained.configuration)
          BY <3>1, <5>1 DEF Fetched
        <5>4. ASSUME NEW i \in DOMAIN x.contents
              PROVE  /\ x.contents[i].file = maintained.configuration[i]
                     /\ i < x.next => x.contents[i].data = Original(x, i)
          <6>1. /\ x.contents[i].file = w.contents[i].file
                /\ x.contents[i].data = IF i = w.next THEN new ELSE w.contents[i].data
                /\ i \in DOMAIN w.contents /\ i \in Nat
            BY <3>1, <5>2
          <6>2. /\ w.contents[i].file = maintained.configuration[i]
                /\ i < w.next => w.contents[i].data = Original(w, i)
            BY <5>1, <6>1 DEF Fetched
          <6>3. i < x.next <=> i < w.next \/ i = w.next
            BY <3>1, <5>2, <6>1
          <6>4. \A j : Original(x, j) = Original(w, j)
            BY <3>1 DEF Original
          <6>. QED  BY <5>1, <5>2, <6>1, <6>2, <6>3, <6>4
        <5>5. ASSUME x.next <= Len(x.contents)
              PROVE  /\ 0 \in 0 .. Len(Original(x, x.next))
                     /\ x.buf = SubSeq(Original(x, x.next), 1, 0) /\ Len(x.buf) = 0
          <6>1. x.next \in DOMAIN x.contents /\ x.contents[x.next] \in BackupFiles
            BY <3>1, <5>5, ContentsOf
          <6>2. maintained.configuration[x.next] \in Files
            BY <5>4, <6>1 DEF BackupFiles
          <6>3. Original(x, x.next) \in Data
            BY <4>1, <6>2 DEF TransferOK, Original, FileStates, FileRecords, Data
          <6>. QED  BY <3>1, <6>3, SubSeqEmpty DEF Data
        <5>. QED  BY <5>3, <5>4, <5>5 DEF Fetched
      <4>. QED  BY <1>1, <2>6, <3>1, <4>1, <4>2 DEF Follows
    <3>4. GetsAnswer(c, x)
      BY <2>5, <2>10, <3>1
    <3>5. WorkOK(x) /\ x.at \notin {"idle", "done"} /\ x.crossed = worker[c].crossed
      BY <2>1, <2>6, <3>1
    <3>6. device' \in DeviceStates /\ files' \in FileStates
      BY <1>1 DEF TransferOK
    <3>. QED  BY <1>1, <3>3, <3>4, <3>5, <3>6, AnswerKeepsTransfer
  <2>. QED  BY <2>9, <2>10
<1>. QED  BY <1>2, <1>3

\* The files once f is written.
FilesWritten(f, start, new) == [files EXCEPT ![f].data = write_stream(@, start, new)]

LEMMA FileWritten ==
  ASSUME files \in FileStates, NEW f \in Files, NEW start \in Nat, NEW new \in Data,
         NEW g, g = FilesWritten(f, start, new)
  PROVE  /\ g \in FileStates /\ g[f].data = write_stream(files[f].data, start, new)
         /\ \A h \in Files \ {f} : g[h] = files[h]
<1>1. files[f] \in FileRecords /\ files[f].data \in Data
  BY DEF FileStates, FileRecords, Data
<1>2. PICK r : r = [files[f] EXCEPT !.data = write_stream(files[f].data, start, new)]
  BY Zenon
<1>3. r \in FileRecords /\ r.data = write_stream(files[f].data, start, new)
  BY <1>1, <1>2, WrittenIsData, Zenon DEF FileRecords, Data
<1>4. g = [files EXCEPT ![f] = r]
  BY <1>2 DEF FilesWritten
<1>. QED  BY <1>3, <1>4 DEF FileStates

LEMMA UploadKeepsTransfer ==
  ASSUME EachFileOnce, TransferOK, NEW c \in Clients, upload_file(c), UNCHANGED maintained
  PROVE  TransferOK'
<1>1. /\ c \in AtWork /\ worker[c].at = "uploading" /\ device' = device
      /\ worker[c].next <= Len(worker[c].contents)
  BY DEF upload_file, AtWork, Resting
<1>2. CASE Raises(c) /\ files' = files
  BY <1>1, <1>2, RaisingKeepsTransfer DEF TransferOK
<1>3. CASE ~(Raises(c) /\ files' = files)
  <2>1. PICK w : w = worker[c]
    OBVIOUS
  <2>2. PICK b : b = w.contents[w.next]
    OBVIOUS
  <2>3. PICK x : x = [w EXCEPT !.next = @ + 1]
    BY Zenon
  <2>4. files' = FilesWritten(b.file, 0, b.data) /\ GetsAnswer(c, x)
    BY <1>3, <2>1, <2>2, <2>3, Zenon DEF upload_file, FilesWritten
  <2>5. /\ WorkOK(w) /\ w.at = "uploading" /\ w.next <= Len(w.contents)
        /\ ~w.crossed => Follows(w)
    BY <1>1, <2>1, AtWorkAlone
  <2>6. /\ w.next \in DOMAIN w.contents /\ DOMAIN w.contents = 1 .. Len(w.contents)
        /\ Len(w.contents) \in Nat /\ b \in BackupFiles /\ w \in Works /\ w.next \in Nat
    BY <2>2, <2>5, ContentsOf DEF WorkOK, Works
  <2>7. b.file \in Files /\ b.data \in Data
    BY <2>6 DEF BackupFiles, Data
  <2>8. /\ files' \in FileStates
        /\ files'[b.file].data = write_stream(files[b.file].data, 0, b.data)
        /\ \A h \in Files \ {b.file} : files'[h] = files[h]
    <3>1. PICK g : g = files'
      OBVIOUS
    <3>2. g = FilesWritten(b.file, 0, b.data) /\ files \in FileStates /\ 0 \in Nat
      BY <2>4, <3>1 DEF TransferOK
    <3>3. PICK f \in Files : f = b.file
      BY <2>7
    <3>. QED  BY <2>7, <3>1, <3>2, <3>3, FileWritten
  <2>9. /\ x.at = w.at /\ x.crossed = w.crossed /\ x.contents = w.contents
        /\ x.next = w.next + 1 /\ x.before = w.before /\ x.procedure = w.procedure
        /\ x.buf = w.buf /\ x \in Works
    BY <2>3, <2>6 DEF Works
  <2>10. WorkOK(x)
    BY <2>5, <2>6, <2>9 DEF WorkOK
  <2>11. ASSUME ~x.crossed PROVE Follows(x)'
    <3>1. device = Preparing(x.procedure) /\ Restored(w)
      BY <2>5, <2>9, <2>11 DEF Follows, Resting
    <3>2. \A i \in DOMAIN w.contents : w.contents[i].file = b.file => i = w.next
      BY <2>2, <2>5, <2>6 DEF WorkOK, EachFileOnce, TransferOK
    <3>3. files[b.file].data = Before(w, b.file)
      <4>1. \A i \in DOMAIN w.contents : i < w.next => w.contents[i].file # b.file
        BY <2>6, <3>2
      <4>. QED  BY <2>7, <3>1, <4>1 DEF Restored
    <3>4. files'[b.file].data
            = b.data \o SubSeq(Before(w, b.file), Len(b.data) + 1, Len(Before(w, b.file)))
      <4>1. files[b.file].data \in Data
        BY <2>7 DEF TransferOK, FileStates, FileRecords, Data
      <4>. QED  BY <2>7, <2>8, <3>3, <4>1, WrittenFromStart, Zenon
    <3>5. \A i \in DOMAIN w.contents : i < x.next <=> i < w.next \/ i = w.next
      BY <2>6, <2>9
    <3>6. ASSUME NEW i \in DOMAIN w.contents, i < x.next
          PROVE  files'[w.contents[i].file].data
                   = w.contents[i].data
                       \o SubSeq(Before(w, w.contents[i].file), Len(w.contents[i].data) + 1,
                                 Len(Before(w, w.contents[i].file)))
      <4>1. CASE i = w.next
        BY <2>2, <3>4, <4>1, Zenon
      <4>2. CASE i # w.next
        <5>1. w.contents[i].file \in Files \ {b.file}
          BY <2>5, <3>2, <4>2, ContentsOf DEF BackupFiles
        <5>2. files'[w.contents[i].file] = files[w.contents[i].file]
          BY <2>8, <5>1
        <5>. QED  BY <3>1, <3>5, <3>6, <4>2, <5>2, Zenon DEF Restored
      <4>. QED  BY <4>1, <4>2, Zenon
    <3>7. ASSUME NEW f \in Files,
                 \A i \in DOMAIN w.contents : i < x.next => w.contents[i].file # f
          PROVE  files'[f].data = Before(w, f)
      <4>1. f # b.file /\ \A i \in DOMAIN w.contents : i < w.next => w.contents[i].file # f
        BY <2>2, <2>6, <3>5, <3>7
      <4>. QED  BY <2>8, <3>1, <4>1 DEF Restored
    <3>8. Restored(x)'
      BY <2>9, <3>6, <3>7, Zenon DEF Restored, Before
    <3>. QED  BY <1>1, <2>5, <2>9, <3>1, <3>8 DEF Follows
  <2>12. x.at \notin {"idle", "done"} /\ x.crossed = worker[c].crossed
    BY <2>1, <2>5, <2>9
  <2>13. device' \in DeviceStates
    BY <1>1 DEF TransferOK
  <2>. QED  BY <1>1, <2>4, <2>8, <2>10, <2>11, <2>12, <2>13, AnswerKeepsTransfer
<1>. QED  BY <1>2, <1>3

\* What has been fetched to the last file is the configuration.
LEMMA FetchedIsSnapshot ==
  ASSUME maintained \in MaintenanceSettings, NEW w, WorkOK(w), Fetched(w),
         w.next > Len(w.contents)
  PROVE  Snapshot(w)
<1>1. /\ w.contents \in Seq(BackupFiles) /\ Len(w.contents) = Len(maintained.configuration)
      /\ maintained.configuration \in Seq(Files) /\ w.next \in Nat
  BY MaintenanceAssumption DEF WorkOK, Works, Fetched
<1>2. /\ DOMAIN w.contents = 1 .. Len(w.contents) /\ Len(w.contents) \in Nat
      /\ DOMAIN maintained.configuration = 1 .. Len(w.contents)
      /\ \A i \in DOMAIN w.contents : w.contents[i] \in BackupFiles
  BY <1>1
<1>3. ASSUME NEW i \in DOMAIN w.contents
      PROVE  w.contents[i] = [file |-> maintained.configuration[i],
                              data |-> Before(w, maintained.configuration[i])]
  <2>1. i < w.next
    BY <1>1, <1>2
  <2>2. /\ w.contents[i].file = maintained.configuration[i]
        /\ w.contents[i].data = Before(w, maintained.configuration[i])
    BY <2>1 DEF Fetched, Original, Before
  <2>. QED  BY <1>2, <2>2 DEF BackupFiles
<1>4. w.contents = [i \in DOMAIN w.contents |-> w.contents[i]]
  BY <1>1
<1>. QED  BY <1>2, <1>3, <1>4, Zenon DEF Snapshot

LEMMA EndKeepsTransfer ==
  ASSUME TransferOK, NEW c \in Clients, end_procedure(c), UNCHANGED maintained
  PROVE  TransferOK'
<1>. DEFINE request == IF worker[c].procedure = "backup" THEN "END_BACKUP" ELSE "END_RESTORE"
<1>1. /\ c \in AtWork /\ worker[c].at \in {"downloading", "uploading"} /\ files' = files
      /\ worker[c].next > Len(worker[c].contents)
  BY DEF end_procedure, AtWork, Resting
<1>2. device' \in DeviceStates /\ files' \in FileStates
  BY <1>1, DeviceTaken DEF end_procedure, TransferOK, Reinitialized
<1>3. CASE Raises(c)
  BY <1>1, <1>2, <1>3, RaisingKeepsTransfer
<1>4. CASE ~Raises(c)
  <2>1. PICK w : w = worker[c]
    OBVIOUS
  <2>2. PICK x : x = [w EXCEPT !.at = "done"]
    BY Zenon
  <2>3. GetsAnswer(c, x) /\ Accepts(request)
    BY <1>4, <2>1, <2>2 DEF end_procedure
  <2>4. device' = Operational
    BY <2>3 DEF end_procedure, handle_reinitialize_device, Reinitialized
  <2>5. /\ WorkOK(w) /\ w.at \in {"downloading", "uploading"} /\ w.next > Len(w.contents)
        /\ ~w.crossed => Follows(w)
    BY <1>1, <2>1, AtWorkAlone
  <2>6. /\ x.at = "done" /\ x.crossed = w.crossed /\ x.contents = w.contents
        /\ x.next = w.next /\ x.before = w.before /\ x.procedure = w.procedure
        /\ x.buf = w.buf /\ x \in Works
    BY <2>2, <2>5 DEF WorkOK, Works
  <2>7. WorkOK(x)
    BY <2>5, <2>6 DEF WorkOK
  <2>8. ASSUME ~x.crossed, x.procedure = "backup" PROVE Snapshot(x)'
    <3>1. w.at = "downloading"
      BY <2>5, <2>6, <2>8 DEF WorkOK
    <3>2. Snapshot(w)
      BY <2>5, <2>6, <2>8, <3>1, FetchedIsSnapshot DEF Follows, TransferOK
    <3>. QED  BY <2>6, <3>2 DEF Snapshot, Before
  <2>9. ~x.crossed => Follows(x)'
    BY <2>6, <2>8 DEF Follows, Resting
  <2>10. x.crossed = worker[c].crossed
    BY <2>1, <2>6
  <2>. QED  BY <1>1, <1>2, <2>3, <2>4, <2>6, <2>7, <2>9, <2>10, AnswerKeepsTransfer
<1>. QED  BY <1>3, <1>4

\* What others do to a procedure is remembered of it.
LEMMA CrossedKeepsTransfer ==
  ASSUME TransferOK, worker' = Crossed, UNCHANGED maintained, files' \in FileStates,
         device' \in {device, Operational}
  PROVE  TransferOK'
<1>1. /\ DOMAIN worker' = Clients /\ worker' = [c \in Clients |-> worker'[c]]
      /\ \A c \in Clients : worker'[c] = [worker[c] EXCEPT !.crossed = @ \/ c \in AtWork]
  BY DEF Crossed
<1>2. ASSUME NEW c \in Clients
      PROVE  /\ WorkOK(worker'[c]) /\ worker'[c].at = worker[c].at
             /\ c \in AtWork => worker'[c].crossed
             /\ c \notin AtWork => worker'[c] = worker[c]
  <2>1. WorkOK(worker[c])
    BY DEF TransferOK
  <2>2. PICK w : w = worker[c]
    OBVIOUS
  <2>3. PICK crossed \in BOOLEAN : crossed = (w.crossed \/ c \in AtWork)
    BY Zenon
  <2>4. PICK x : x = [w EXCEPT !.crossed = crossed]
    BY Zenon
  <2>5. worker'[c] = x
    BY <1>1, <2>2, <2>3, <2>4
  <2>6. /\ x \in Works /\ x.at = w.at /\ x.crossed = crossed /\ x.contents = w.contents
        /\ x.next = w.next /\ x.before = w.before /\ x.procedure = w.procedure
        /\ x.buf = w.buf
    BY <2>1, <2>2, <2>4 DEF WorkOK, Works
  <2>7. WorkOK(x)
    BY <2>1, <2>2, <2>6 DEF WorkOK
  <2>8. crossed = w.crossed => x = w
    BY <2>1, <2>2, <2>4 DEF WorkOK, Works
  <2>9. c \notin AtWork => crossed = w.crossed
    BY <2>1, <2>2, <2>3 DEF WorkOK, Works
  <2>. QED  BY <2>2, <2>3, <2>5, <2>6, <2>7, <2>8, <2>9, Zenon
<1>3. AtWork' = AtWork
  BY <1>2 DEF AtWork
<1>4. \A c \in Clients : WorkOK(worker[c])'
  BY <1>2 DEF WorkOK
<1>5. ASSUME NEW c \in Clients PROVE Undisturbed(c)'
  <2>1. CASE c \in AtWork
    BY <1>2, <2>1 DEF Undisturbed
  <2>2. CASE c \notin AtWork
    <3>1. worker[c].at \in Resting /\ worker'[c] = worker[c] /\ Undisturbed(c)
      BY <1>2, <2>2 DEF AtWork, TransferOK
    <3>. QED  BY <1>3, <2>2, <3>1 DEF Undisturbed, Follows, Resting, Snapshot, Before
  <2>. QED  BY <2>1, <2>2
<1>6. SomebodyIsToBlame'
  BY <1>2 DEF SomebodyIsToBlame, TransferOK
<1>7. device' \in DeviceStates
  BY DEF TransferOK, DeviceStates
<1>. QED  BY <1>1, <1>4, <1>5, <1>6, <1>7 DEF TransferOK

LEMMA MeddlingKeepsTransfer ==
  ASSUME TransferOK, Meddling
  PROVE  TransferOK'
<1>1. CASE handle_atomic_write_file
  <2>1. PICK f \in Files, o \in Octets :
          \E start \in {0, Len(files[f].data), Len(files[f].data) + 1} :
            files' = FilesWritten(f, start, <<o>>)
    BY <1>1, Zenon DEF handle_atomic_write_file, FilesWritten
  <2>2. files \in FileStates /\ Len(files[f].data) \in Nat /\ <<o>> \in Data
    BY DEF TransferOK, FileStates, FileRecords, Data
  <2>3. PICK start \in Nat : files' = FilesWritten(f, start, <<o>>)
    BY <2>1, <2>2
  <2>4. PICK g : g = files'
    OBVIOUS
  <2>5. g \in FileStates
    BY <2>2, <2>3, <2>4, FileWritten
  <2>. QED
    BY <1>1, <2>4, <2>5, CrossedKeepsTransfer DEF Meddling, handle_atomic_write_file
<1>2. CASE reinitialized_by_others
  <2>1. device' = Operational /\ files' = files /\ worker' = Crossed
    BY <1>2 DEF reinitialized_by_others, handle_reinitialize_device, Reinitialized
  <2>. QED  BY <2>1, CrossedKeepsTransfer DEF Meddling, TransferOK
<1>. QED  BY <1>1, <1>2 DEF Meddling

LEMMA ProceduresKeepTransfer ==
  ASSUME EachFileOnce, TransferOK, Procedures
  PROVE  TransferOK'
<1>. PICK c \in Clients :
       \/ start_procedure(c, "backup", <<>>)
       \/ \E contents \in maintained.archive : start_procedure(c, "restore", contents)
       \/ poll_backup_restore_state(c) \/ read_configuration_files(c)
       \/ download_file(c) \/ upload_file(c) \/ end_procedure(c) \/ request_lost(c)
  BY DEF Procedures
<1>0. UNCHANGED maintained
  BY DEF Procedures
<1>1. CASE start_procedure(c, "backup", <<>>)
  BY <1>0, <1>1, StartKeepsTransfer
<1>2. CASE \E contents \in maintained.archive : start_procedure(c, "restore", contents)
  BY <1>0, <1>2, StartKeepsTransfer
<1>3. CASE poll_backup_restore_state(c)
  BY <1>0, <1>3, PollKeepsTransfer
<1>4. CASE read_configuration_files(c)
  BY <1>0, <1>4, ListKeepsTransfer
<1>5. CASE download_file(c)
  BY <1>0, <1>5, DownloadKeepsTransfer
<1>6. CASE upload_file(c)
  BY <1>0, <1>6, UploadKeepsTransfer
<1>7. CASE end_procedure(c)
  BY <1>0, <1>7, EndKeepsTransfer
<1>8. CASE request_lost(c)
  BY <1>0, <1>8, RaisingKeepsTransfer DEF request_lost, TransferOK
<1>. QED  BY <1>1, <1>2, <1>3, <1>4, <1>5, <1>6, <1>7, <1>8

LEMMA RestKeepsTransfer ==
  ASSUME TransferOK, UNCHANGED <<maintained, device, files, worker>>
  PROVE  TransferOK'
<1>1. AtWork' = AtWork
  BY DEF AtWork
<1>2. \A w : WorkOK(w)' <=> WorkOK(w)
  BY DEF WorkOK
<1>3. \A w : Follows(w)' <=> Follows(w)
  BY DEF Follows, Fetched, Restored, Snapshot, Original, Before
<1>. QED  BY <1>1, <1>2, <1>3 DEF TransferOK, Undisturbed, SomebodyIsToBlame

-----------------------------------------------------------------------------
(* Virtual terminals and communication.                                    *)

SessionsOK ==
  /\ counter \in Nat /\ DOMAIN sessions \subseteq 1 .. counter
  /\ DOMAIN held = Clients /\ SessionsHeld

LEMMA OpenKeepsSessions ==
  ASSUME SessionsOK, NEW c \in Clients, handle_vt_open(c)
  PROVE  SessionsOK'
<1>1. /\ counter' = counter + 1 /\ counter \in Nat /\ DOMAIN sessions \subseteq 1 .. counter
      /\ DOMAIN sessions' = DOMAIN sessions \cup {counter'} /\ sessions'[counter'] = c
      /\ \A i \in DOMAIN sessions : i # counter' /\ sessions'[i] = sessions[i]
  BY DEF SessionsOK, handle_vt_open
<1>2. DOMAIN sessions' \subseteq 1 .. counter'
  BY <1>1
<1>3. PICK got \in {{}, {counter'}} : held' = [held EXCEPT ![c] = @ \cup got]
  BY Zenon DEF handle_vt_open
<1>4. /\ DOMAIN held' = Clients /\ held'[c] = held[c] \cup got
      /\ \A d \in Clients \ {c} : held'[d] = held[d]
  BY <1>3 DEF SessionsOK
<1>5. ASSUME NEW d \in Clients, NEW id \in held'[d] PROVE Owned(d, id)'
  <2>1. id \in held[d] \/ (d = c /\ id = counter')
    BY <1>3, <1>4
  <2>. QED  BY <1>1, <2>1 DEF Owned, SessionsOK, SessionsHeld
<1>. QED  BY <1>1, <1>2, <1>4, <1>5 DEF SessionsOK, SessionsHeld

\* A client closes no session but its own.
LEMMA CloseKeepsSessions ==
  ASSUME SessionsOK, NEW c \in Clients, handle_vt_close(c)
  PROVE  SessionsOK'
<1>1. PICK ids \in [1 .. 2 -> 1 .. counter \cup {NO_SESSION}] :
        LET refused == {i \in DOMAIN ids : ~Owned(c, ids[i])}
            closed == {ids[i] : i \in {j \in DOMAIN ids : \A k \in refused : j < k}}
        IN /\ sessions' = [i \in DOMAIN sessions \ closed |-> sessions[i]]
           /\ held' = [held EXCEPT ![c] = @ \ Range(ids)]
  BY Zenon DEF handle_vt_close
<1>. DEFINE refused == {i \in DOMAIN ids : ~Owned(c, ids[i])}
            closed == {ids[i] : i \in {j \in DOMAIN ids : \A k \in refused : j < k}}
<1>2. \A id \in closed : Owned(c, id) /\ id \in Range(ids)
  BY DEF Range
<1>3. /\ sessions' = [i \in DOMAIN sessions \ closed |-> sessions[i]]
      /\ held' = [held EXCEPT ![c] = @ \ Range(ids)]
  BY <1>1
<1>. HIDE DEF closed
<1>4. /\ DOMAIN sessions' = DOMAIN sessions \ closed
      /\ \A i \in DOMAIN sessions' : sessions'[i] = sessions[i]
  BY <1>3
<1>5. /\ DOMAIN held' = Clients /\ held'[c] = held[c] \ Range(ids)
      /\ \A d \in Clients \ {c} : held'[d] = held[d]
  BY <1>3 DEF SessionsOK
<1>6. ASSUME NEW d \in Clients, NEW id \in held'[d] PROVE Owned(d, id)'
  <2>1. Owned(d, id)
    BY <1>5 DEF SessionsOK, SessionsHeld
  <2>2. id \notin closed
    BY <1>2, <1>5, <2>1 DEF Owned
  <2>. QED  BY <1>4, <2>1, <2>2 DEF Owned
<1>7. counter' = counter
  BY DEF handle_vt_close
<1>. QED  BY <1>4, <1>5, <1>6, <1>7 DEF SessionsOK, SessionsHeld

\* A timer is of a request that was for a time.
ControlOK ==
  /\ dcc_timers \in {0, 1} /\ ControlledAsAsked
  /\ dcc_timers = 1 => control.limited

MaintenanceOK == TransferOK /\ SessionsOK /\ ControlOK

LEMMA InitMaintained == MaintenanceInit => MaintenanceOK
<1>. SUFFICES ASSUME MaintenanceInit PROVE MaintenanceOK
  OBVIOUS
<1>1. SessionsOK
  BY DEF MaintenanceInit, SessionsOK, SessionsHeld
<1>2. ControlOK
  BY DEF MaintenanceInit, ControlOK, ControlledAsAsked
<1>. QED  BY <1>1, <1>2, InitTransfer DEF MaintenanceOK

LEMMA StepMaintained ==
  ASSUME EachFileOnce, MaintenanceOK, MaintenanceNext \/ UNCHANGED maintenance_vars
  PROVE  MaintenanceOK'
<1>. USE DEF maintenance_vars, transfer_vars, session_vars, dcc_vars
<1>1. UNCHANGED session_vars => SessionsOK'
  BY DEF MaintenanceOK, SessionsOK, SessionsHeld, Owned
<1>2. UNCHANGED dcc_vars => ControlOK'
  BY DEF MaintenanceOK, ControlOK, ControlledAsAsked
<1>3. UNCHANGED <<maintained, transfer_vars>> => TransferOK'
  BY RestKeepsTransfer DEF MaintenanceOK
<1>4. CASE Procedures
  BY <1>1, <1>2, <1>4, ProceduresKeepTransfer DEF Procedures, MaintenanceOK
<1>5. CASE Meddling
  BY <1>1, <1>2, <1>5, MeddlingKeepsTransfer DEF Meddling, MaintenanceOK
<1>6. ASSUME NEW c \in Clients, handle_vt_open(c) PROVE MaintenanceOK'
  <2>1. UNCHANGED <<maintained, transfer_vars, dcc_vars>>
    BY <1>6 DEF handle_vt_open
  <2>2. SessionsOK'
    BY <1>6, OpenKeepsSessions DEF MaintenanceOK
  <2>. QED  BY <1>2, <1>3, <2>1, <2>2 DEF MaintenanceOK
<1>7. ASSUME NEW c \in Clients, handle_vt_close(c) PROVE MaintenanceOK'
  <2>1. UNCHANGED <<maintained, transfer_vars, dcc_vars>>
    BY <1>7 DEF handle_vt_close
  <2>2. SessionsOK'
    BY <1>7, CloseKeepsSessions DEF MaintenanceOK
  <2>. QED  BY <1>2, <1>3, <2>1, <2>2 DEF MaintenanceOK
<1>8. CASE set_dcc_state
  <2>1. ControlOK'
    BY <1>8 DEF set_dcc_state, ControlOK, ControlledAsAsked, TimerOf
  <2>. QED  BY <1>1, <1>3, <1>8, <2>1 DEF set_dcc_state, MaintenanceOK
<1>9. CASE dcc_timer_expired
  <2>1. ControlOK'
    BY <1>9 DEF dcc_timer_expired, MaintenanceOK, ControlOK, ControlledAsAsked
  <2>. QED  BY <1>1, <1>3, <1>9, <2>1 DEF dcc_timer_expired, MaintenanceOK
<1>10. CASE UNCHANGED maintenance_vars
  BY <1>1, <1>2, <1>3, <1>10 DEF MaintenanceOK
<1>. QED
  BY <1>4, <1>5, <1>6, <1>7, <1>8, <1>9, <1>10 DEF MaintenanceNext

LEMMA MaintainedApart == MaintenanceOK => KeptApart
<1>. SUFFICES ASSUME MaintenanceOK PROVE KeptApart
  OBVIOUS
<1>. USE DEF MaintenanceOK
<1>1. \A c \in Clients : WorkOK(worker[c]) /\ Undisturbed(c)
  BY DEF TransferOK
<1>2. MaintenanceTypeOK
  <2>1. device \in Range(Reinitialized)
    BY DEF TransferOK, DeviceStates, Reinitialized, Range
  <2>2. \A f \in Files : files[f].data \in Seq(Octets \cup {0})
    BY DEF TransferOK, FileStates, FileRecords
  <2>3. ASSUME NEW c \in Clients PROVE worker[c].next \in 1 .. Len(worker[c].contents) + 1
    BY <1>1 DEF WorkOK, Works
  <2>. QED  BY <2>1, <2>2, <2>3 DEF MaintenanceTypeOK, SessionsOK, ControlOK
<1>3. BackupIsSnapshot
  BY <1>1 DEF BackupIsSnapshot, Undisturbed, Follows, Snapshot
<1>4. RestoredInFull
  <2>. SUFFICES ASSUME NEW c \in Clients, NEW w, w = worker[c], w.at = "uploading",
                       w.next > Len(w.contents), ~w.crossed, NEW i \in DOMAIN w.contents
                PROVE  LET old == Before(w, w.contents[i].file)
                           new == w.contents[i].data
                       IN files[w.contents[i].file].data
                            = new \o SubSeq(old, Len(new) + 1, Len(old))
    BY Zenon DEF RestoredInFull
  <2>1. WorkOK(w) /\ Restored(w)
    BY <1>1 DEF Undisturbed, Follows
  <2>2. i < w.next
    BY <2>1 DEF WorkOK, Works
  <2>. QED  BY <2>1, <2>2, Zenon DEF Restored
<1>5. OneAtATime
  <2>. SUFFICES ASSUME NEW c \in AtWork, ~worker[c].crossed
                PROVE  AtWork = {c} /\ device.status # "operational"
    BY DEF OneAtATime
  <2>1. AtWork = {c} /\ Follows(worker[c]) /\ worker[c].at \notin Resting
    BY AtWorkAlone
  <2>2. device = Preparing(worker[c].procedure)
    BY <2>1 DEF Follows
  <2>. QED  BY <2>1, <2>2 DEF Preparing, Reinitialized
<1>6. SomebodyIsToBlame /\ SessionsHeld /\ ControlledAsAsked
  BY DEF TransferOK, SessionsOK, ControlOK
<1>. QED  BY <1>2, <1>3, <1>4, <1>5, <1>6 DEF KeptApart

\* Clients and their procedures are kept apart, by the device whose backups
\* have each file once, whatever it is asked for and by however many
\* (handle_reinitialize_device, backup_device, restore_device, handle_vt_open,
\* handle_vt_close and set_dcc_state).
THEOREM KeptApartTheorem ==
  ASSUME EachFileOnce
  PROVE  EnginesSpec => []KeptApart
<1>1. EnginesSpec => EnginesInit /\ [][EnginesNext]_engines_vars
  BY PTL DEF EnginesSpec
<1>2. EnginesInit => MaintenanceOK
  BY InitMaintained DEF EnginesInit
<1>3. MaintenanceOK /\ [EnginesNext]_engines_vars => MaintenanceOK'
  <2>. SUFFICES ASSUME MaintenanceOK, [EnginesNext]_engines_vars PROVE MaintenanceOK'
    OBVIOUS
  <2>1. MaintenanceNext \/ UNCHANGED maintenance_vars
    BY DEF EnginesNext, EventPart, TrendPart, SchedulePart, AuditPart, Maintained, engines_vars
  <2>. QED  BY <2>1, StepMaintained
<1>4. MaintenanceOK => KeptApart
  BY MaintainedApart
<1>. QED  BY <1>1, <1>2, <1>3, <1>4, PTL

-----------------------------------------------------------------------------
(* The event engine.                                                       *)

\* What a state machine can be.
Machines ==
  [state : EventStates, pending : EventStates \cup {NONE}, age : 0 .. LongestDelay,
   enable : [Transitions -> BOOLEAN]]

MachineOK(sm) ==
  /\ sm \in Machines /\ sm.pending # sm.state
  /\ sm.pending = NONE => sm.age = 0

Alarms == EventStates \ {"fault"}

\* The last cycles called for what is pending, as many as its age.
Called(entries, sm) ==
  /\ Len(entries) > sm.age
  /\ \A i \in Len(entries) - sm.age .. Len(entries) : entries[i] \in {sm.pending, "skipped"}

EventTypes ==
  /\ watched \in Watched
  /\ value \in MonitoredValues \cup {UNREADABLE, BAD}
  /\ switches \in EventSwitches /\ shown \in EventStates /\ told \in EventStates
  /\ context # NONE => MachineOK(context)
  /\ engine \in {"stopped", "running", "failed"}
  /\ heard \in [watched.recipients -> EventStates]

\* A confirmed notification under way is one that its recipient wants.
InFlightOK ==
  /\ in_flight \in Seq([to : EventStates, dest : watched.recipients])
  /\ \A i \in DOMAIN in_flight :
       /\ in_flight[i].dest.confirmed
       /\ TransitionOf(in_flight[i].to) \in in_flight[i].dest.transitions

\* What the object shows, what the machine is in and what was told.
AgreeOK ==
  /\ watched.intrinsic /\ context # NONE => context.state = shown \/ shown = "normal"
  /\ watched.intrinsic /\ "replaced" \notin upset =>
       shown = told /\ (context # NONE => context.state = shown)
  /\ ~watched.intrinsic /\ "stop" \notin upset =>
       told = IF context = NONE THEN "normal" ELSE context.state

HeardOK ==
  /\ \A r \in watched.recipients :
       /\ TransitionOf(heard[r]) \in r.transitions \cup {"to_normal"}
       /\ (r.transitions = Transitions /\ ~r.windowed /\ ~r.confirmed) => heard[r] = told
       /\ (r.transitions = Transitions /\ ~r.windowed /\ r.confirmed
            /\ upset \cap {"lost", "overlap"} = {}) =>
              heard[r] = told \/ \E i \in DOMAIN in_flight : in_flight[i].dest = r
  /\ upset \cap {"lost", "overlap"} = {} => \A i \in DOMAIN in_flight : in_flight[i].to = told

PastOK ==
  /\ past \in Seq(EventStates \cup {"skipped"}) /\ Len(past) <= LongestDelay + 1
  /\ context # NONE /\ context.pending # NONE => Called(past, context)

EventOK == EventTypes /\ InFlightOK /\ AgreeOK /\ HeardOK /\ PastOK

-----------------------------------------------------------------------------
LEMMA MachineIsSome ==
  ASSUME watched \in Watched, NEW sm \in Machines PROVE sm # NONE
BY NoneAssumption, EventAssumption DEF Machines, LongestDelay

LEMMA DelaysAre ==
  ASSUME watched \in Watched
  PROVE  /\ LongestDelay \in Nat
         /\ \A s : Delay(s) \in 0 .. LongestDelay
BY EventAssumption DEF LongestDelay, Delay

LEMMA TransitionsAre ==
  /\ \A s \in EventStates : TransitionOf(s) \in Transitions
  /\ TransitionOf("normal") = "to_normal"
BY DEF EventStates, TransitionOf, Transitions

\* An algorithm calls for an alarm or for the normal state.
LEMMA ResultIsAlarm ==
  ASSUME NEW sm PROVE ResultNow(sm) \in Alarms
<1>1. \A v, high, low, d, s :
        evaluate_out_of_range(v, high, low, d, s) \in {"high_limit", "low_limit", NONE}
  BY DEF evaluate_out_of_range
<1>2. \A v : evaluate_unsigned_range(v) \in {"high_limit", "low_limit", NONE}
  BY DEF evaluate_unsigned_range
<1>3. \A c : Offnormal(c) \in {"offnormal", NONE}
  BY DEF Offnormal
<1>4. \A v : /\ evaluate_change_of_state(v) \in {"offnormal", NONE}
             /\ evaluate_change_of_bitstring(v) \in {"offnormal", NONE}
             /\ evaluate_change_of_status_flags(v) \in {"offnormal", NONE}
             /\ evaluate_change_of_value(v) \in {"offnormal", NONE}
             /\ evaluate_change_of_reliability(v) \in {"offnormal", NONE}
             /\ evaluate_command_failure(v) \in {"offnormal", NONE}
             /\ evaluate_buffer_ready(v) \in {"offnormal", NONE}
  BY <1>3 DEF evaluate_change_of_state, evaluate_change_of_bitstring,
     evaluate_change_of_status_flags, evaluate_change_of_value, evaluate_change_of_reliability,
     evaluate_command_failure, evaluate_buffer_ready
<1>5. \A v : evaluate_change_of_life_safety(v) \in {"life_safety_alarm", "offnormal", NONE}
  BY <1>4 DEF evaluate_change_of_life_safety
<1>6. \A v, a, b, c, d, s :
        evaluate_floating_limit(v, a, b, c, s) \in {"high_limit", "low_limit", NONE}
  BY <1>1 DEF evaluate_floating_limit
<1>7. \A v, s : run_intrinsic_algorithm(v, s) \in Alarms \cup {NONE}
  BY <1>1, <1>2, <1>4, <1>5, <1>6, Zenon DEF run_intrinsic_algorithm, Alarms, EventStates
<1>8. \A v, s : run_event_algorithm(v, s) \in Alarms \cup {NONE}
  <2>. TAKE v, s
  <2>1. Alarms = {"normal", "offnormal", "high_limit", "low_limit", "life_safety_alarm"}
    BY DEF Alarms, EventStates
  <2>2. run_event_algorithm(v, s) \in
          {"high_limit", "low_limit", "offnormal", "life_safety_alarm", NONE}
    BY <1>1, <1>2, <1>4, <1>5, <1>6, SMTT(30) DEF run_event_algorithm
  <2>. QED  BY <2>1, <2>2
<1>9. \A v, s : event_result(v, s) \in Alarms
  BY <1>7, <1>8 DEF event_result, Alarms, EventStates
<1>. QED  BY <1>9 DEF ResultNow, Alarms, EventStates

\* An object with intrinsic reporting lends its machine the state it shows.
LEMMA SyncedIs ==
  ASSUME EventOK
  PROVE  /\ MachineOK(Synced) /\ Synced # NONE
         /\ watched.intrinsic => Synced.state = shown \/ shown = "normal"
         /\ watched.intrinsic /\ "replaced" \notin upset => Synced.state = told
         /\ ~watched.intrinsic /\ "stop" \notin upset => Synced.state = told
         /\ Synced.pending # NONE => /\ context # NONE
                                     /\ Synced.pending = context.pending
                                     /\ Synced.age = context.age
         /\ \A t \in Transitions : Synced.enable[t] = Enabled(t)
<1>. DEFINE sm == IF context = NONE THEN NewMachine ELSE context
            lent == IF watched.intrinsic /\ sm.state = "normal" THEN shown ELSE sm.state
            given == IF switches.listed THEN switches.event_enable ELSE sm.enable
<1>1. NONE \notin EventStates
  BY NoneAssumption
<1>2. LongestDelay \in Nat
  BY DelaysAre DEF EventOK, EventTypes
<1>3. NewMachine \in Machines /\ NewMachine.pending = NONE /\ NewMachine.state = "normal"
        /\ NewMachine.age = 0 /\ NewMachine.enable = AllEnabled
  BY <1>2 DEF NewMachine, Machines, EventStates, AllEnabled
<1>4. MachineOK(sm)
  BY <1>1, <1>3 DEF MachineOK, EventOK, EventTypes, EventStates
<1>5. Synced = [state |-> lent, pending |-> sm.pending, age |-> sm.age, enable |-> given]
  <2>. DEFINE e == [sm EXCEPT !.state = lent, !.enable = given]
  <2>1. sm \in Machines /\ e = [sm EXCEPT !.state = lent, !.enable = given]
    BY <1>4 DEF MachineOK
  <2>2. Synced = e
    BY DEF Synced
  <2>. HIDE DEF e, sm, lent, given
  <2>3. e = [state |-> lent, pending |-> sm.pending, age |-> sm.age, enable |-> given]
    BY <2>1 DEF Machines
  <2>. QED  BY <2>2, <2>3
<1>6. given \in [Transitions -> BOOLEAN]
  BY <1>4 DEF MachineOK, Machines, EventOK, EventTypes, EventSwitches
<1>7. \A t \in Transitions : Synced.enable[t] = Enabled(t)
  <2>. TAKE t \in Transitions
  <2>1. Synced.enable = given
    BY <1>5
  <2>2. given[t] \in BOOLEAN
    BY <1>6
  <2>3. CASE switches.listed
    <3>1. given = switches.event_enable
      BY <2>3
    <3>2. Enabled(t) = switches.event_enable[t]
      BY <2>3, Zenon DEF Enabled
    <3>. QED  BY <2>1, <3>1, <3>2
  <2>4. CASE ~switches.listed /\ context = NONE
    <3>1. given[t] = TRUE
      BY <2>4, <1>3 DEF AllEnabled
    <3>2. Enabled(t) = TRUE
      BY <2>4, Zenon DEF Enabled
    <3>. QED  BY <2>1, <3>1, <3>2
  <2>5. CASE ~switches.listed /\ context # NONE
    <3>1. given = context.enable
      BY <2>5
    <3>. HIDE DEF given
    <3>2. context.enable[t] \in BOOLEAN
      BY <2>2, <3>1
    <3>3. Enabled(t) = context.enable[t]
      BY <2>5, <3>2, Zenon DEF Enabled
    <3>. QED  BY <2>1, <3>1, <3>3
  <2>. QED  BY <2>3, <2>4, <2>5
<1>8. CASE watched.intrinsic /\ sm.state = "normal"
  <2>1. /\ Synced \in Machines /\ Synced.state = shown /\ Synced.pending = sm.pending
        /\ Synced.age = sm.age
    BY <1>4, <1>5, <1>6, <1>8 DEF MachineOK, Machines, EventOK, EventTypes
  <2>2. sm.pending # shown
    BY <1>1, <1>3, <1>4, <1>8 DEF MachineOK, EventOK, EventTypes, AgreeOK
  <2>3. Synced # NONE /\ (Synced.pending = NONE => Synced.age = 0)
    BY <2>1, <1>4, MachineIsSome DEF MachineOK, EventOK, EventTypes
  <2>. QED  BY <2>1, <2>2, <2>3, <1>3, <1>4, <1>7, <1>8
         DEF MachineOK, EventOK, EventTypes, AgreeOK
<1>9. CASE ~(watched.intrinsic /\ sm.state = "normal")
  <2>1. /\ Synced \in Machines /\ Synced.state = sm.state /\ Synced.pending = sm.pending
        /\ Synced.age = sm.age
    BY <1>4, <1>5, <1>6, <1>9 DEF MachineOK, Machines, EventOK, EventTypes
  <2>2. MachineOK(Synced) /\ Synced # NONE
    BY <2>1, <1>4, MachineIsSome DEF MachineOK, EventOK, EventTypes
  <2>3. watched.intrinsic => context # NONE
    BY <1>3, <1>9
  <2>. QED  BY <2>1, <2>2, <2>3, <1>3, <1>4, <1>7, <1>9 DEF EventOK, AgreeOK
<1>. QED  BY <1>8, <1>9

\* Time passes for what is pending.
LEMMA AgedIs ==
  ASSUME watched \in Watched, NEW sm, MachineOK(sm)
  PROVE  /\ MachineOK(Aged(sm)) /\ Aged(sm) # NONE
         /\ Aged(sm).state = sm.state /\ Aged(sm).pending = sm.pending
         /\ Aged(sm).enable = sm.enable
         /\ sm.pending # NONE =>
              Aged(sm).age = IF sm.age < LongestDelay THEN sm.age + 1 ELSE sm.age
BY MachineIsSome, DelaysAre DEF Aged, MachineOK, Machines

\* What the last cycles called for keeps up with what they are remembered as.
LEMMA RememberIs ==
  ASSUME watched \in Watched, past \in Seq(EventStates \cup {"skipped"}),
         Len(past) <= LongestDelay + 1,
         NEW entry \in EventStates \cup {"skipped"}, Remember(entry)
  PROVE  /\ past' \in Seq(EventStates \cup {"skipped"}) /\ Len(past') <= LongestDelay + 1
         /\ Len(past') > 0 /\ past'[Len(past')] = entry
         /\ \/ Len(past') = Len(past) + 1 /\ \A i \in 1 .. Len(past) : past'[i] = past[i]
            \/ /\ Len(past') = Len(past) /\ Len(past) = LongestDelay + 1
               /\ \A i \in 1 .. Len(past) - 1 : past'[i] = past[i + 1]
<1>1. LongestDelay \in Nat
  BY DelaysAre
<1>. DEFINE E == EventStates \cup {"skipped"}
            h == Append(past, entry)
<1>2. /\ h \in Seq(E) /\ Len(h) = Len(past) + 1 /\ h[Len(past) + 1] = entry
      /\ \A i \in 1 .. Len(past) : h[i] = past[i]
  OBVIOUS
<1>3. past' = IF Len(h) > LongestDelay + 1 THEN Tail(h) ELSE h
  BY DEF Remember
<1>. HIDE DEF h
<1>4. CASE Len(h) > LongestDelay + 1
  <2>1. /\ past' \in Seq(E) /\ Len(past') = Len(h) - 1
        /\ \A i \in 1 .. Len(h) - 1 : past'[i] = h[i + 1]
    BY <1>1, <1>2, <1>3, <1>4, HeadTailProperties
  <2>. QED  BY <2>1, <1>1, <1>2, <1>4
<1>5. CASE ~(Len(h) > LongestDelay + 1)
  BY <1>1, <1>2, <1>3, <1>5
<1>. QED  BY <1>4, <1>5

LEMMA CalledOn ==
  ASSUME EventTypes, PastOK, NEW sm, MachineOK(sm), sm.pending # NONE, Called(past, sm),
         NEW entry \in {sm.pending, "skipped"}, Remember(entry)
  PROVE  Called(past', Aged(sm))
<1>1. LongestDelay \in Nat /\ sm.age \in 0 .. LongestDelay /\ sm.pending \in EventStates
  BY DelaysAre DEF EventTypes, MachineOK, Machines
<1>2. /\ Aged(sm).pending = sm.pending
      /\ Aged(sm).age = IF sm.age < LongestDelay THEN sm.age + 1 ELSE sm.age
  BY AgedIs DEF EventTypes
<1>3. /\ past' \in Seq(EventStates \cup {"skipped"}) /\ Len(past') <= LongestDelay + 1
      /\ Len(past') > 0 /\ past'[Len(past')] = entry
      /\ \/ Len(past') = Len(past) + 1 /\ \A i \in 1 .. Len(past) : past'[i] = past[i]
         \/ /\ Len(past') = Len(past) /\ Len(past) = LongestDelay + 1
            /\ \A i \in 1 .. Len(past) - 1 : past'[i] = past[i + 1]
  BY <1>1, RememberIs DEF EventTypes, PastOK
<1>4. Len(past) \in Nat /\ Len(past') \in Nat
  BY <1>3 DEF PastOK
<1>5. /\ Len(past) > sm.age
      /\ \A i \in Len(past) - sm.age .. Len(past) : past[i] \in {sm.pending, "skipped"}
  BY DEF Called
<1>6. Len(past) <= LongestDelay + 1
  BY DEF PastOK
<1>7. Len(past') > Aged(sm).age
  BY <1>1, <1>2, <1>3, <1>4, <1>5, <1>6
<1>8. ASSUME NEW i \in Len(past') - Aged(sm).age .. Len(past')
      PROVE  past'[i] \in {sm.pending, "skipped"}
  <2>1. CASE i = Len(past')
    BY <2>1, <1>3
  <2>2. CASE i # Len(past') /\ Len(past') = Len(past) + 1
    <3>1. i \in Len(past) - sm.age .. Len(past) /\ i \in 1 .. Len(past)
      BY <2>2, <1>1, <1>2, <1>4, <1>5, <1>6
    <3>. QED  BY <3>1, <2>2, <1>3, <1>4, <1>5
  <2>3. CASE i # Len(past') /\ Len(past') = Len(past)
    <3>1. sm.age < LongestDelay \/ (sm.age = LongestDelay /\ Len(past) = LongestDelay + 1)
      BY <2>3, <1>1, <1>3, <1>4
    <3>2. i + 1 \in Len(past) - sm.age .. Len(past) /\ i \in 1 .. Len(past) - 1
      BY <3>1, <2>3, <1>1, <1>2, <1>4, <1>5, <1>7
    <3>3. past'[i] = past[i + 1]
      BY <3>2, <2>3, <1>3, <1>4
    <3>. QED  BY <3>2, <3>3, <1>5
  <2>. QED  BY <2>1, <2>2, <2>3, <1>3
<1>. QED  BY <1>2, <1>7, <1>8 DEF Called

\* The machine goes on waiting for what its last cycles called for, or begins
\* to, or makes a transition whose delay is over.
LEMMA EvaluateIs ==
  ASSUME watched \in Watched, switches \in EventSwitches,
         NEW sm, MachineOK(sm), NEW result \in Alarms,
         NEW after, after = evaluate(sm, result)
  PROVE  /\ MachineOK(after)
         /\ after.state # sm.state =>
              /\ after.pending = NONE /\ sm.enable[TransitionOf(after.state)]
              /\ \/ /\ fault_result /\ after.state = "fault"
                 \/ /\ ~fault_result /\ after.state = result
                    /\ Delay(result) = 0 \/ (sm.pending = result /\ sm.age >= Delay(result))
         /\ after.state = sm.state =>
              \/ after.pending = NONE
              \/ after = sm /\ (fault_result \/ sm.pending = result)
              \/ ~fault_result /\ after.pending = result /\ after.age = 0
<1>1. /\ NONE \notin EventStates /\ result \in EventStates /\ result # "fault"
      /\ "fault" \in EventStates
  BY NoneAssumption DEF Alarms, EventStates
<1>2. LongestDelay \in Nat /\ Delay(result) \in 0 .. LongestDelay
  BY DelaysAre
<1>r. \A q, p, a : [sm EXCEPT !.state = q, !.pending = p, !.age = a] =
                     [state |-> q, pending |-> p, age |-> a, enable |-> sm.enable]
  <2>. TAKE q, p, a
  <2>. DEFINE e == [sm EXCEPT !.state = q, !.pending = p, !.age = a]
  <2>1. sm \in Machines /\ e = [sm EXCEPT !.state = q, !.pending = p, !.age = a]
    BY DEF MachineOK
  <2>. HIDE DEF e
  <2>2. e = [state |-> q, pending |-> p, age |-> a, enable |-> sm.enable]
    BY <2>1 DEF Machines
  <2>. QED  BY <2>2 DEF e
<1>s. \A p, a : [sm EXCEPT !.pending = p, !.age = a] =
                  [state |-> sm.state, pending |-> p, age |-> a, enable |-> sm.enable]
  <2>. TAKE p, a
  <2>. DEFINE e == [sm EXCEPT !.pending = p, !.age = a]
  <2>1. sm \in Machines /\ e = [sm EXCEPT !.pending = p, !.age = a]
    BY DEF MachineOK
  <2>. HIDE DEF e
  <2>2. e = [state |-> sm.state, pending |-> p, age |-> a, enable |-> sm.enable]
    BY <2>1 DEF Machines
  <2>. QED  BY <2>2 DEF e
<1>0. sm.enable \in [Transitions -> BOOLEAN]
  BY DEF MachineOK, Machines
<1>3. \A t \in EventStates :
        MachineOK(transition(sm, t)) /\ transition(sm, t).pending = NONE
          /\ transition(sm, t).state = t
  <2>1. \A t : transition(sm, t) =
                 [state |-> t, pending |-> NONE, age |-> 0, enable |-> sm.enable]
    BY <1>r DEF transition
  <2>. QED  BY <2>1, <1>0, <1>1, <1>2 DEF MachineOK, Machines
<1>4. MachineOK(Idle(sm)) /\ Idle(sm).pending = NONE /\ Idle(sm).state = sm.state
  <2>1. Idle(sm) = [state |-> sm.state, pending |-> NONE, age |-> 0, enable |-> sm.enable]
    BY <1>s DEF Idle
  <2>. QED  BY <2>1, <1>0, <1>1, <1>2 DEF MachineOK, Machines
<1>5. ASSUME sm.state # result, ~fault_result, after = apply_delay(sm, result)
      PROVE  /\ MachineOK(after)
             /\ \/ /\ after.state = result /\ after.pending = NONE
                   /\ Delay(result) = 0 \/ (sm.pending = result /\ sm.age >= Delay(result))
                \/ after = sm /\ sm.pending = result
                \/ after.state = sm.state /\ after.pending = result /\ after.age = 0
  <2>1. CASE sm.pending # result /\ Delay(result) <= 0
    BY <2>1, <1>1, <1>2, <1>3, <1>5 DEF apply_delay
  <2>2. CASE sm.pending # result /\ ~(Delay(result) <= 0)
    <3>1. after = [state |-> sm.state, pending |-> result, age |-> 0, enable |-> sm.enable]
      BY <2>2, <1>5, <1>s DEF apply_delay
    <3>. QED  BY <3>1, <1>0, <1>1, <1>2, <1>5 DEF MachineOK, Machines
  <2>3. CASE sm.pending = result
    BY <2>3, <1>1, <1>3, <1>5 DEF apply_delay
  <2>. QED  BY <2>1, <2>2, <2>3
<1>6. CASE fault_result
  BY <1>1, <1>3, <1>6 DEF evaluate, TransitionOf
<1>7. CASE ~fault_result /\ sm.state = "fault"
  BY <1>1, <1>4, <1>5, <1>7 DEF evaluate
<1>8. CASE ~fault_result /\ sm.state # "fault"
  BY <1>4, <1>5, <1>8 DEF evaluate
<1>. QED  BY <1>6, <1>7, <1>8

LEMMA JoinedIs ==
  ASSUME NEW S, NEW s \in Seq(S), NEW n \in Nat, NEW t \in [1 .. n -> S]
  PROVE  /\ t \in Seq(S) /\ s \o t \in Seq(S) /\ Len(s \o t) = Len(s) + n
         /\ \A i \in 1 .. Len(s) : (s \o t)[i] = s[i]
         /\ \A i \in 1 .. n : (s \o t)[Len(s) + i] = t[i]
<1>1. t \in Seq(S) /\ Len(t) = n
  OBVIOUS
<1>. QED  BY <1>1

\* Each matching recipient is sent what it is to hear: an unconfirmed one has
\* it at once, a confirmed one is among those under way.
LEMMA NotifyIs ==
  ASSUME EventOK, NEW to \in EventStates, NEW open, Notify(to, open), UNCHANGED watched
  PROVE  /\ heard' \in [watched.recipients -> EventStates]
         /\ InFlightOK' /\ HeardOK'
         /\ told' = to /\ upset' \subseteq {"overlap"} /\ shown' = Shows(to)
<1>. DEFINE matching == {r \in watched.recipients : recipient_matches(r, to, open)}
            tasks == {r \in matching : r.confirmed}
            Lists == UNION {[1 .. n -> tasks] : n \in {Cardinality(tasks)}}
            Complete(s) == \A r \in tasks : \E i \in DOMAIN s : s[i] = r
            queued == CHOOSE s \in Lists : Complete(s)
            sent == [i \in DOMAIN queued |-> [to |-> to, dest |-> queued[i]]]
<1>1. /\ heard' = [r \in watched.recipients |-> IF r \in matching \ tasks THEN to ELSE heard[r]]
      /\ in_flight' = in_flight \o sent
      /\ told' = to /\ upset' = (IF in_flight = <<>> THEN {} ELSE {"overlap"})
      /\ shown' = Shows(to)
  BY DEF Notify
<1>2. /\ Cardinality(tasks) \in Nat /\ queued \in [1 .. Cardinality(tasks) -> tasks]
      /\ Complete(queued)
  <2>1. IsFiniteSet(tasks)
    <3>1. IsFiniteSet(watched.recipients) /\ tasks \subseteq watched.recipients
      BY EventAssumption DEF EventOK, EventTypes
    <3>. QED  BY <3>1, FS_Subset
  <2>2. Cardinality(tasks) \in Nat /\ ExistsBijection(1 .. Cardinality(tasks), tasks)
    BY <2>1, FS_CardinalityType
  <2>3. PICK f \in Bijection(1 .. Cardinality(tasks), tasks) : TRUE
    BY <2>2 DEF ExistsBijection
  <2>4. f \in [1 .. Cardinality(tasks) -> tasks] /\ Complete(f)
    BY <2>3 DEF Bijection, Injection, Surjection
  <2>5. Lists = [1 .. Cardinality(tasks) -> tasks]
    OBVIOUS
  <2>6. \E s \in Lists : Complete(s)
    BY <2>4, <2>5
  <2>. HIDE DEF Lists, Complete
  <2>7. queued \in Lists /\ Complete(queued)
    BY <2>6
  <2>. QED  BY <2>2, <2>5, <2>7
<1>. HIDE DEF queued
<1>3. \A r \in tasks : r \in watched.recipients /\ r.confirmed /\ TransitionOf(to) \in r.transitions
  BY DEF recipient_matches
<1>. DEFINE Entries == [to : EventStates, dest : watched.recipients]
            n == Cardinality(tasks)
<1>4. /\ sent \in [1 .. n -> Entries]
      /\ \A i \in 1 .. n : sent[i] = [to |-> to, dest |-> queued[i]] /\ queued[i] \in tasks
  <2>1. DOMAIN queued = 1 .. n /\ \A i \in 1 .. n : queued[i] \in tasks
    BY <1>2
  <2>2. \A i \in 1 .. n : [to |-> to, dest |-> queued[i]] \in Entries
    BY <2>1, <1>3
  <2>3. sent = [i \in 1 .. n |-> [to |-> to, dest |-> queued[i]]]
    BY <2>1
  <2>. HIDE DEF tasks, n, Entries
  <2>. QED  BY <2>1, <2>2, <2>3
<1>. HIDE DEF sent
<1>5. in_flight \in Seq(Entries)
  BY DEF EventOK, InFlightOK
<1>6. /\ in_flight' \in Seq(Entries) /\ Len(in_flight') = Len(in_flight) + n
      /\ \A i \in 1 .. Len(in_flight) : in_flight'[i] = in_flight[i]
      /\ \A i \in 1 .. n : in_flight'[Len(in_flight) + i] = sent[i]
  <2>. HIDE DEF Entries, n
  <2>1. n \in Nat
    BY <1>2 DEF n
  <2>. QED  BY <1>1, <1>4, <1>5, <2>1, JoinedIs
<1>7. \A i \in DOMAIN in_flight' :
        \/ i \in DOMAIN in_flight /\ in_flight'[i] = in_flight[i]
        \/ \E k \in 1 .. n : in_flight'[i] = [to |-> to, dest |-> queued[k]]
  <2>. TAKE i \in DOMAIN in_flight'
  <2>1. i \in 1 .. Len(in_flight) + n
    BY <1>6
  <2>2. CASE i \in 1 .. Len(in_flight)
    BY <2>2, <1>5, <1>6
  <2>3. CASE i \notin 1 .. Len(in_flight)
    <3>1. i - Len(in_flight) \in 1 .. n
            /\ i = Len(in_flight) + (i - Len(in_flight))
      BY <2>1, <2>3, <1>2, <1>5
    <3>. QED  BY <3>1, <1>4, <1>6
  <2>. QED  BY <2>2, <2>3
<1>8. InFlightOK'
  <2>. HIDE DEF tasks
  <2>. SUFFICES ASSUME NEW i \in DOMAIN in_flight'
                PROVE  /\ in_flight'[i].dest.confirmed
                       /\ TransitionOf(in_flight'[i].to) \in in_flight'[i].dest.transitions
    BY <1>6 DEF InFlightOK, Entries
  <2>1. CASE i \in DOMAIN in_flight /\ in_flight'[i] = in_flight[i]
    BY <2>1 DEF EventOK, InFlightOK
  <2>2. CASE \E k \in 1 .. n : in_flight'[i] = [to |-> to, dest |-> queued[k]]
    BY <2>2, <1>3, <1>4
  <2>. QED  BY <2>1, <2>2, <1>7
<1>9. heard' \in [watched.recipients -> EventStates]
  BY <1>1 DEF EventOK, EventTypes
<1>10. ASSUME upset' \cap {"lost", "overlap"} = {} PROVE in_flight = <<>>
  BY <1>1, <1>10
<1>11. HeardOK'
  <2>1. ASSUME NEW r \in watched.recipients
        PROVE  TransitionOf(heard'[r]) \in r.transitions \cup {"to_normal"}
    BY <1>1 DEF recipient_matches, EventOK, HeardOK
  <2>2. ASSUME NEW r \in watched.recipients, r.transitions = Transitions, ~r.windowed
        PROVE  r \in matching
    BY <2>2, TransitionsAre DEF recipient_matches
  <2>3. ASSUME NEW r \in watched.recipients,
               r.transitions = Transitions, ~r.windowed, ~r.confirmed
        PROVE  heard'[r] = told'
    BY <2>2, <2>3, <1>1
  <2>4. ASSUME NEW r \in watched.recipients,
               r.transitions = Transitions, ~r.windowed, r.confirmed
        PROVE  \E i \in DOMAIN in_flight' : in_flight'[i].dest = r
    <3>1. PICK k \in 1 .. n : queued[k] = r
      BY <2>2, <2>4, <1>2
    <3>2. Len(in_flight) + k \in DOMAIN in_flight'
      BY <1>2, <1>5, <1>6
    <3>3. in_flight'[Len(in_flight) + k] = [to |-> to, dest |-> queued[k]]
      BY <1>4, <1>6
    <3>4. in_flight'[Len(in_flight) + k].dest = r
      BY <3>1, <3>3
    <3>. QED  BY <3>2, <3>4
  <2>5. ASSUME upset' \cap {"lost", "overlap"} = {}, NEW i \in DOMAIN in_flight'
        PROVE  in_flight'[i].to = told'
    <3>1. in_flight = <<>>
      BY <2>5, <1>10
    <3>2. PICK k \in 1 .. n : in_flight'[i] = [to |-> to, dest |-> queued[k]]
      BY <3>1, <1>7
    <3>. QED  BY <3>2, <1>1
  <2>. HIDE DEF matching, tasks
  <2>. QED  BY <2>1, <2>3, <2>4, <2>5 DEF HeardOK
<1>. QED  BY <1>1, <1>8, <1>9, <1>11

\* A cycle that is skipped leaves the machine as it is, but older.
LEMMA PassedKeepsPast ==
  ASSUME EventOK, NEW sm, MachineOK(sm),
         sm.pending # NONE => /\ context # NONE /\ sm.pending = context.pending
                              /\ sm.age = context.age,
         NEW entry \in EventStates \cup {"skipped"},
         sm.pending # NONE => entry \in {sm.pending, "skipped"}, Remember(entry)
  PROVE  Aged(sm).pending # NONE => Called(past', Aged(sm))
<1>. SUFFICES ASSUME Aged(sm).pending # NONE PROVE Called(past', Aged(sm))
  OBVIOUS
<1>1. sm.pending # NONE
  BY AgedIs DEF EventOK, EventTypes
<1>2. Called(past, sm)
  BY <1>1 DEF EventOK, PastOK, Called
<1>. QED  BY <1>1, <1>2, CalledOn DEF EventOK

\* What a cycle makes of the machine and of what it remembers.
LEMMA EvaluationIs ==
  ASSUME EventOK, EvaluateCycle
  PROVE  /\ MachineOK(context') /\ context' # NONE
         /\ past' \in Seq(EventStates \cup {"skipped"}) /\ Len(past') <= LongestDelay + 1
         /\ context'.pending # NONE => Called(past', context')
         /\ context'.state = Synced.state =>
              UNCHANGED <<shown, heard, in_flight, told, upset>>
         /\ context'.state # Synced.state =>
              /\ \E open : Notify(context'.state, open)
              /\ Enabled(TransitionOf(context'.state))
         /\ context'.state \notin {Synced.state, "fault"} =>
              /\ ~fault_result /\ context'.state = ResultNow(Aged(Synced))
              /\ Len(past') > Delay(context'.state)
              /\ \A i \in Len(past') - Delay(context'.state) .. Len(past') :
                   past'[i] \in {context'.state, "skipped"}
<1>. DEFINE sm == Aged(Synced)
            result == ResultNow(sm)
            entry == IF fault_result THEN "skipped" ELSE result
<1>1. /\ context' = evaluate(sm, result) /\ Remember(entry)
      /\ context'.state = sm.state => UNCHANGED <<shown, heard, in_flight, told, upset>>
      /\ context'.state # sm.state => \E open : Notify(context'.state, open)
  BY DEF EvaluateCycle
<1>2. watched \in Watched /\ switches \in EventSwitches
  BY DEF EventOK, EventTypes
<1>3. /\ MachineOK(Synced)
      /\ Synced.pending # NONE => /\ context # NONE /\ Synced.pending = context.pending
                                  /\ Synced.age = context.age
      /\ \A t \in Transitions : Synced.enable[t] = Enabled(t)
  BY SyncedIs
<1>4. /\ MachineOK(sm) /\ sm.state = Synced.state /\ sm.pending = Synced.pending
      /\ sm.enable = Synced.enable
  BY <1>2, <1>3, AgedIs
<1>5. result \in Alarms
  BY ResultIsAlarm
<1>6. result \in EventStates /\ entry \in EventStates \cup {"skipped"} /\ result # NONE
  BY <1>5, NoneAssumption DEF Alarms
<1>. HIDE DEF result
<1>7. /\ past' \in Seq(EventStates \cup {"skipped"}) /\ Len(past') <= LongestDelay + 1
      /\ Len(past') > 0 /\ past'[Len(past')] = entry
  BY <1>1, <1>2, <1>6, RememberIs DEF EventOK, PastOK
<1>8. ASSUME sm.pending # NONE, fault_result \/ sm.pending = result
      PROVE  Called(past', sm)
  BY <1>1, <1>3, <1>4, <1>6, <1>8, PassedKeepsPast
<1>9. /\ MachineOK(context')
      /\ context'.state # sm.state =>
           /\ context'.pending = NONE /\ sm.enable[TransitionOf(context'.state)]
           /\ \/ /\ fault_result /\ context'.state = "fault"
              \/ /\ ~fault_result /\ context'.state = result
                 /\ Delay(result) = 0 \/ (sm.pending = result /\ sm.age >= Delay(result))
      /\ context'.state = sm.state =>
           \/ context'.pending = NONE
           \/ context' = sm /\ (fault_result \/ sm.pending = result)
           \/ ~fault_result /\ context'.pending = result /\ context'.age = 0
  <2>. HIDE DEF sm
  <2>. QED  BY <1>1, <1>2, <1>4, <1>5, EvaluateIs
<1>. HIDE DEF sm
<1>10. context' # NONE
  BY <1>2, <1>9, MachineIsSome DEF MachineOK
<1>11. Len(past') \in Nat
  BY <1>7
<1>12. ASSUME context'.pending # NONE PROVE Called(past', context')
  <2>1. CASE context' = sm /\ (fault_result \/ sm.pending = result)
    BY <2>1, <1>8, <1>12
  <2>2. CASE ~fault_result /\ context'.pending = result /\ context'.age = 0
    BY <2>2, <1>7, <1>11 DEF Called
  <2>. QED  BY <2>1, <2>2, <1>9, <1>12
<1>13. ASSUME context'.state \notin {Synced.state, "fault"}
       PROVE  /\ ~fault_result /\ context'.state = result
              /\ Len(past') > Delay(result)
              /\ \A i \in Len(past') - Delay(result) .. Len(past') :
                   past'[i] \in {result, "skipped"}
  <2>1. /\ ~fault_result /\ context'.state = result
        /\ Delay(result) = 0 \/ (sm.pending = result /\ sm.age >= Delay(result))
    BY <1>4, <1>9, <1>13
  <2>2. CASE Delay(result) = 0
    BY <2>1, <2>2, <1>7, <1>11
  <2>3. CASE sm.pending = result /\ sm.age >= Delay(result)
    <3>1. /\ Len(past') > sm.age
          /\ \A i \in Len(past') - sm.age .. Len(past') : past'[i] \in {result, "skipped"}
      BY <2>3, <1>6, <1>8 DEF Called
    <3>2. sm.age \in Nat /\ Delay(result) \in Nat
      BY <1>2, <1>4, DelaysAre DEF MachineOK, Machines
    <3>3. Len(past') - Delay(result) .. Len(past') \subseteq Len(past') - sm.age .. Len(past')
      BY <2>3, <3>2, <1>11
    <3>. QED  BY <2>1, <2>3, <3>1, <3>2, <3>3, <1>11
  <2>. QED  BY <2>1, <2>2, <2>3
<1>14. context'.state # Synced.state => Enabled(TransitionOf(context'.state))
  BY <1>3, <1>4, <1>9, TransitionsAre DEF MachineOK, Machines
<1>. QED  BY <1>1, <1>4, <1>7, <1>9, <1>10, <1>12, <1>13, <1>14 DEF sm, result

\* The switches of a new object.
LEMMA UsualAreSwitches ==
  ASSUME watched \in Watched PROVE UsualSwitches \subseteq EventSwitches
<1>1. watched.listed \subseteq BOOLEAN
  BY EventAssumption
<1>2. Usual \in EventSwitches
  BY DEF Usual, EventSwitches, AllEnabled
<1>3. ASSUME NEW f \in UsualSwitches PROVE f \in EventSwitches
  <2>1. PICK l \in watched.listed : f = [Usual EXCEPT !.listed = l]
    BY <1>3 DEF UsualSwitches
  <2>2. l \in BOOLEAN
    BY <1>1
  <2>. QED  BY <1>2, <2>1, <2>2 DEF EventSwitches
<1>. QED  BY <1>3

LEMMA InitEvents ==
  ASSUME EventInit PROVE EventOK
<1>1. EventTypes
  BY UsualAreSwitches DEF EventInit, EventTypes, EventStates
<1>2. InFlightOK
  BY DEF EventInit, InFlightOK
<1>3. AgreeOK
  BY DEF EventInit, AgreeOK
<1>4. HeardOK
  BY TransitionsAre DEF EventInit, HeardOK
<1>5. PastOK
  BY <1>1, DelaysAre DEF EventInit, PastOK, EventTypes
<1>. QED  BY <1>1, <1>2, <1>3, <1>4, <1>5 DEF EventOK

LEMMA EvaluateKeepsEvents ==
  ASSUME EventOK, EvaluateCycle PROVE EventOK'
<1>1. /\ MachineOK(context') /\ context' # NONE
      /\ past' \in Seq(EventStates \cup {"skipped"}) /\ Len(past') <= LongestDelay + 1
      /\ context'.pending # NONE => Called(past', context')
      /\ context'.state = Synced.state => UNCHANGED <<shown, heard, in_flight, told, upset>>
      /\ context'.state # Synced.state => \E open : Notify(context'.state, open)
  BY EvaluationIs
<1>2. UNCHANGED <<watched, value, switches, engine>>
  BY DEF EvaluateCycle
<1>3. MachineOK(context)' /\ context'.state \in EventStates
  BY <1>1, <1>2 DEF MachineOK, Machines, LongestDelay
<1>4. PastOK'
  BY <1>1, <1>2 DEF PastOK, Called, LongestDelay
<1>5. CASE context'.state = Synced.state
  <2>1. UNCHANGED <<shown, heard, in_flight, told, upset>>
    BY <1>1, <1>5
  <2>2. EventTypes'
    BY <2>1, <1>2, <1>3 DEF EventOK, EventTypes
  <2>3. AgreeOK'
    BY <2>1, <1>1, <1>2, <1>5, SyncedIs DEF EventOK, AgreeOK
  <2>4. InFlightOK' /\ HeardOK'
    BY <2>1, <1>2 DEF EventOK, InFlightOK, HeardOK
  <2>. QED  BY <2>2, <2>3, <2>4, <1>4 DEF EventOK
<1>6. CASE context'.state # Synced.state
  <2>1. PICK open : Notify(context'.state, open)
    BY <1>1, <1>6
  <2>2. /\ heard' \in [watched.recipients -> EventStates] /\ InFlightOK' /\ HeardOK'
        /\ told' = context'.state /\ upset' \subseteq {"overlap"}
        /\ shown' = Shows(context'.state)
    BY <2>1, <1>2, <1>3, NotifyIs
  <2>3. EventTypes'
    BY <2>2, <1>2, <1>3 DEF EventOK, EventTypes, Shows
  <2>4. AgreeOK'
    BY <2>2, <1>1, <1>2 DEF AgreeOK, Shows
  <2>. QED  BY <2>2, <2>3, <2>4, <1>4 DEF EventOK
<1>. QED  BY <1>5, <1>6

LEMMA SkipKeepsEvents ==
  ASSUME EventOK, SkipCycle \/ FailCycle PROVE EventOK'
<1>1. /\ UNCHANGED <<watched, value, switches, shown, heard, in_flight, told, upset>>
      /\ Remember("skipped") /\ engine' \in {"running", "failed"}
      /\ \/ context' = Aged(Synced)
         \/ context' = Aged(context)
  BY DEF SkipCycle, FailCycle
<1>2. watched \in Watched
  BY DEF EventOK, EventTypes
<1>3. /\ past' \in Seq(EventStates \cup {"skipped"}) /\ Len(past') <= LongestDelay + 1
  BY <1>1, <1>2, RememberIs DEF EventOK, PastOK
<1>4. CASE context' = Aged(context) /\ context = NONE
  <2>1. context' = NONE
    BY <1>4 DEF Aged
  <2>. QED  BY <2>1, <1>1, <1>3, <1>4
         DEF EventOK, EventTypes, InFlightOK, AgreeOK, HeardOK, PastOK, LongestDelay
<1>5. ASSUME NEW sm, MachineOK(sm), context' = Aged(sm),
             sm = Synced \/ (sm = context /\ context # NONE)
      PROVE  EventOK'
  <2>1. /\ MachineOK(context') /\ context' # NONE /\ context'.state = sm.state
    BY <1>2, <1>5, AgedIs
  <2>2. /\ watched.intrinsic => sm.state = shown \/ shown = "normal"
        /\ watched.intrinsic /\ "replaced" \notin upset => sm.state = told
        /\ ~watched.intrinsic /\ "stop" \notin upset => sm.state = told
        /\ sm.pending # NONE => /\ context # NONE /\ sm.pending = context.pending
                                /\ sm.age = context.age
    BY <1>5, SyncedIs DEF EventOK, AgreeOK
  <2>3. context'.pending # NONE => Called(past', context')
    BY <2>2, <1>1, <1>5, PassedKeepsPast
  <2>4. EventTypes'
    BY <2>1, <1>1 DEF EventOK, EventTypes, MachineOK, Machines, LongestDelay
  <2>5. AgreeOK'
    BY <2>1, <2>2, <1>1 DEF EventOK, AgreeOK
  <2>6. PastOK'
    BY <2>3, <1>1, <1>3 DEF PastOK, Called, LongestDelay
  <2>7. InFlightOK' /\ HeardOK'
    BY <1>1 DEF EventOK, InFlightOK, HeardOK
  <2>. QED  BY <2>4, <2>5, <2>6, <2>7 DEF EventOK
<1>6. MachineOK(Synced) /\ (context # NONE => MachineOK(context))
  BY SyncedIs DEF EventOK, EventTypes
<1>. QED  BY <1>1, <1>4, <1>5, <1>6

\* An answer takes away the one entry, and its recipient has heard it or the
\* notification is lost.
LEMMA AnsweredKeepsEvents ==
  ASSUME EventOK, Answered PROVE EventOK'
<1>. DEFINE Entries == [to : EventStates, dest : watched.recipients]
<1>1. PICK i \in DOMAIN in_flight :
        /\ in_flight' = [j \in 1 .. Len(in_flight) - 1 |->
                           IF j < i THEN in_flight[j] ELSE in_flight[j + 1]]
        /\ \/ /\ heard' = [heard EXCEPT ![in_flight[i].dest] = in_flight[i].to]
              /\ upset' = upset
           \/ heard' = heard /\ upset' = upset \cup {"lost"}
  BY DEF Answered
<1>2. UNCHANGED <<watched, value, switches, shown, context, engine, told, past>>
  BY DEF Answered
<1>3. /\ in_flight \in Seq(Entries) /\ Len(in_flight) \in Nat /\ i \in 1 .. Len(in_flight)
      /\ \A k \in 1 .. Len(in_flight) : in_flight[k] \in Entries
  <2>1. in_flight \in Seq(Entries)
    BY DEF EventOK, InFlightOK
  <2>. HIDE DEF Entries
  <2>. QED  BY <2>1
<1>4. /\ in_flight' \in Seq(Entries) /\ DOMAIN in_flight' = 1 .. Len(in_flight) - 1
      /\ \A j \in DOMAIN in_flight' :
           \E k \in DOMAIN in_flight : in_flight'[j] = in_flight[k]
      /\ \A k \in DOMAIN in_flight \ {i} :
           \E j \in DOMAIN in_flight' : in_flight'[j] = in_flight[k]
  <2>. HIDE DEF Entries
  <2>0. DOMAIN in_flight = 1 .. Len(in_flight)
    BY <1>3
  <2>1. \A j \in 1 .. Len(in_flight) - 1 :
          j \in 1 .. Len(in_flight) /\ j + 1 \in 1 .. Len(in_flight)
    BY <1>3
  <2>2. DOMAIN in_flight' = 1 .. Len(in_flight) - 1
    BY <1>1
  <2>3. ASSUME NEW j \in DOMAIN in_flight'
        PROVE  \E k \in DOMAIN in_flight : in_flight'[j] = in_flight[k]
    BY <1>1, <1>3, <2>0, <2>1, <2>2
  <2>4. ASSUME NEW k \in DOMAIN in_flight \ {i}
        PROVE  \E j \in DOMAIN in_flight' : in_flight'[j] = in_flight[k]
    <3>1. CASE k < i
      <4>1. k \in 1 .. Len(in_flight) - 1 /\ in_flight'[k] = in_flight[k]
        BY <3>1, <1>1, <1>3, <2>0
      <4>. QED  BY <4>1, <2>2
    <3>2. CASE ~(k < i)
      <4>1. k - 1 \in 1 .. Len(in_flight) - 1 /\ ~(k - 1 < i) /\ (k - 1) + 1 = k
        BY <3>2, <1>3, <2>0
      <4>2. in_flight'[k - 1] = in_flight[k]
        BY <4>1, <1>1
      <4>. QED  BY <4>1, <4>2, <2>2
    <3>. QED  BY <3>1, <3>2
  <2>5. in_flight' \in [1 .. Len(in_flight) - 1 -> Entries]
    BY <1>1, <1>3, <2>1
  <2>6. in_flight' \in Seq(Entries)
    <3>1. Len(in_flight) - 1 \in Nat
      BY <1>3
    <3>. QED  BY <2>5, <3>1, JoinedIs
  <2>. QED  BY <2>2, <2>3, <2>4, <2>6
<1>i. in_flight[i] \in Entries /\ i \in DOMAIN in_flight
  BY <1>3
<1>5. /\ in_flight[i].dest \in watched.recipients /\ in_flight[i].to \in EventStates
      /\ in_flight[i].dest.confirmed
      /\ TransitionOf(in_flight[i].to) \in in_flight[i].dest.transitions
  BY <1>i DEF EventOK, InFlightOK
<1>6. heard \in [watched.recipients -> EventStates]
  BY DEF EventOK, EventTypes
<1>7. /\ heard' \in [watched.recipients -> EventStates]
      /\ \A r \in watched.recipients \ {in_flight[i].dest} : heard'[r] = heard[r]
      /\ heard'[in_flight[i].dest] \in {heard[in_flight[i].dest], in_flight[i].to}
      /\ "lost" \notin upset' => upset' = upset /\ heard'[in_flight[i].dest] = in_flight[i].to
  BY <1>1, <1>5, <1>6
<1>8. InFlightOK'
  BY <1>2, <1>4 DEF EventOK, InFlightOK
<1>9. HeardOK'
  <2>1. ASSUME NEW r \in watched.recipients
        PROVE  TransitionOf(heard'[r]) \in r.transitions \cup {"to_normal"}
    BY <1>5, <1>7 DEF EventOK, HeardOK
  <2>2. ASSUME NEW r \in watched.recipients,
               r.transitions = Transitions, ~r.windowed, ~r.confirmed
        PROVE  heard'[r] = told
    BY <2>2, <1>5, <1>7 DEF EventOK, HeardOK
  <2>3. ASSUME upset' \cap {"lost", "overlap"} = {}
        PROVE  /\ \A k \in DOMAIN in_flight : in_flight[k].to = told
               /\ upset \cap {"lost", "overlap"} = {}
               /\ heard'[in_flight[i].dest] = told
    BY <2>3, <1>7 DEF EventOK, HeardOK
  <2>4. ASSUME NEW r \in watched.recipients,
               r.transitions = Transitions, ~r.windowed, r.confirmed,
               upset' \cap {"lost", "overlap"} = {}
        PROVE  heard'[r] = told \/ \E j \in DOMAIN in_flight' : in_flight'[j].dest = r
    <3>1. CASE r = in_flight[i].dest
      BY <3>1, <2>3, <2>4
    <3>2. CASE r # in_flight[i].dest
      <4>1. heard[r] = told \/ \E k \in DOMAIN in_flight \ {i} : in_flight[k].dest = r
        BY <3>2, <2>3, <2>4 DEF EventOK, HeardOK
      <4>2. CASE heard[r] = told
        BY <4>2, <3>2, <1>7
      <4>3. CASE \E k \in DOMAIN in_flight \ {i} : in_flight[k].dest = r
        BY <4>3, <1>4
      <4>. QED  BY <4>1, <4>2, <4>3
    <3>. QED  BY <3>1, <3>2
  <2>5. ASSUME upset' \cap {"lost", "overlap"} = {}, NEW j \in DOMAIN in_flight'
        PROVE  in_flight'[j].to = told
    BY <2>3, <2>5, <1>4
  <2>. QED  BY <2>1, <2>2, <2>4, <2>5, <1>2 DEF HeardOK
<1>10. EventTypes'
  BY <1>2, <1>7 DEF EventOK, EventTypes, MachineOK, Machines, LongestDelay
<1>11. AgreeOK'
  BY <1>1, <1>2 DEF EventOK, AgreeOK
<1>12. PastOK'
  BY <1>2 DEF EventOK, PastOK, Called, LongestDelay
<1>. QED  BY <1>8, <1>9, <1>10, <1>11, <1>12 DEF EventOK

\* A write of a switch gives the switches values.
LEMMA EnableIsSwitch ==
  ASSUME NEW s \in EventSwitches, NEW enable \in [Transitions -> BOOLEAN], NEW l \in BOOLEAN
  PROVE  [s EXCEPT !.event_enable = enable, !.listed = l] \in EventSwitches
<1>. DEFINE e == [s EXCEPT !.event_enable = enable, !.listed = l]
<1>1. e = [s EXCEPT !.event_enable = enable, !.listed = l]
  OBVIOUS
<1>. HIDE DEF e
<1>2. e = [detection |-> s.detection, algorithm_inhibit |-> s.algorithm_inhibit,
           fault |-> s.fault, reliability_inhibit |-> s.reliability_inhibit,
           event_enable |-> enable, listed |-> l]
  BY <1>1 DEF EventSwitches
<1>. QED  BY <1>1, <1>2 DEF EventSwitches

LEMMA FlippedAreSwitches ==
  ASSUME watched \in Watched, NEW s \in EventSwitches PROVE Flipped(s) \subseteq EventSwitches
<1>. SUFFICES ASSUME NEW f \in Flipped(s) PROVE f \in EventSwitches
  OBVIOUS
<1>1. CASE \E t \in Transitions : f \in EnableWritten(s, t)
  <2>1. PICK t \in Transitions : f \in EnableWritten(s, t)
    BY <1>1
  <2>2. PICK l \in watched.listed :
               f = [s EXCEPT !.event_enable = [@ EXCEPT ![t] = ~@], !.listed = l]
    BY <2>1 DEF EnableWritten
  <2>3. l \in BOOLEAN
    BY EventAssumption
  <2>4. [s.event_enable EXCEPT ![t] = ~@] \in [Transitions -> BOOLEAN]
    BY DEF EventSwitches
  <2>. QED  BY <2>2, <2>3, <2>4, EnableIsSwitch
<1>2. CASE f \in {[s EXCEPT !.detection = ~@], [s EXCEPT !.algorithm_inhibit = ~@],
                 [s EXCEPT !.fault = ~@], [s EXCEPT !.reliability_inhibit = ~@]}
  BY <1>2 DEF EventSwitches
<1>. QED  BY <1>1, <1>2 DEF Flipped

LEMMA OthersKeepEvents ==
  ASSUME EventOK, ChangeValue \/ WriteSwitch \/ Stop \/ Start \/ Replace PROVE EventOK'
<1>1. ASSUME ChangeValue \/ WriteSwitch \/ Start PROVE EventOK'
  <2>1. UNCHANGED <<watched, shown, context, in_flight, heard, told, past, upset>>
    BY <1>1 DEF ChangeValue, WriteSwitch, Start
  <2>2. /\ value' \in MonitoredValues \cup {UNREADABLE, BAD} /\ switches' \in EventSwitches
        /\ engine' \in {"stopped", "running", "failed"}
    BY <1>1, FlippedAreSwitches DEF ChangeValue, WriteSwitch, Start, EventOK, EventTypes
  <2>. QED  BY <2>1, <2>2
         DEF EventOK, EventTypes, MachineOK, Machines, InFlightOK, AgreeOK, HeardOK, PastOK, Called,
             LongestDelay
<1>2. ASSUME Stop PROVE EventOK'
  <2>1. /\ UNCHANGED <<watched, value, switches, shown, heard, told>>
        /\ engine' = "stopped" /\ context' = NONE /\ in_flight' = <<>> /\ past' = <<>>
        /\ upset' = upset \cup (IF in_flight = <<>> THEN {"stop"} ELSE {"stop", "lost"})
    BY <1>2 DEF Stop
  <2>2. EventTypes' /\ InFlightOK' /\ AgreeOK'
    BY <2>1 DEF EventOK, EventTypes, InFlightOK, AgreeOK
  <2>3. ASSUME upset' \cap {"lost", "overlap"} = {}
        PROVE  upset \cap {"lost", "overlap"} = {} /\ DOMAIN in_flight = {}
    BY <2>1, <2>3
  <2>4. HeardOK'
    BY <2>1, <2>3 DEF EventOK, HeardOK
  <2>5. PastOK'
    BY <2>1, DelaysAre DEF EventOK, EventTypes, PastOK, LongestDelay
  <2>. QED  BY <2>2, <2>4, <2>5 DEF EventOK
<1>3. ASSUME Replace PROVE EventOK'
  <2>1. /\ UNCHANGED <<watched, context, engine, in_flight, heard, told, past>>
        /\ value' \in MonitoredValues /\ shown' = "normal" /\ switches' \in UsualSwitches
        /\ upset' = upset \cup {"replaced"}
    BY <1>3 DEF Replace
  <2>2. EventTypes'
    BY <2>1, UsualAreSwitches DEF EventOK, EventTypes, MachineOK, Machines, LongestDelay,
       EventSwitches, EventStates
  <2>3. InFlightOK' /\ HeardOK' /\ PastOK'
    BY <2>1 DEF EventOK, InFlightOK, HeardOK, PastOK, Called, LongestDelay
  <2>4. AgreeOK'
    BY <2>1 DEF EventOK, AgreeOK
  <2>. QED  BY <2>2, <2>3, <2>4 DEF EventOK
<1>. QED  BY <1>1, <1>2, <1>3

LEMMA StepEvents ==
  ASSUME EventOK, EventNext \/ UNCHANGED event_vars PROVE EventOK'
<1>1. CASE EventNext
  BY <1>1, EvaluateKeepsEvents, SkipKeepsEvents, AnsweredKeepsEvents, OthersKeepEvents
     DEF EventNext, CycleEvents
<1>2. CASE UNCHANGED event_vars
  BY <1>2 DEF event_vars, EventOK, EventTypes, MachineOK, Machines, InFlightOK, AgreeOK, HeardOK,
     PastOK, Called, LongestDelay
<1>. QED  BY <1>1, <1>2

LEMMA EventsAgree ==
  ASSUME EventOK PROVE EventsShown
<1>1. EventTypeOK
  <2>1. context # NONE =>
          /\ context \in [state : EventStates, pending : EventStates \cup {NONE},
                          age : 0 .. LongestDelay, enable : [Transitions -> BOOLEAN]]
          /\ context.pending # context.state
          /\ context.pending = NONE => context.age = 0
    BY DEF EventOK, EventTypes, MachineOK, Machines
  <2>2. \A i \in DOMAIN in_flight : in_flight[i].dest \in watched.recipients
    <3>. DEFINE Entries == [to : EventStates, dest : watched.recipients]
    <3>1. in_flight \in Seq(Entries) /\ \A e \in Entries : e.dest \in watched.recipients
      BY DEF EventOK, InFlightOK
    <3>. HIDE DEF Entries
    <3>2. \A i \in DOMAIN in_flight : in_flight[i] \in Entries
      BY <3>1
    <3>. QED  BY <3>1, <3>2
  <2>. QED  BY <2>1, <2>2 DEF EventTypeOK, EventOK, EventTypes
<1>2. ShownAsTold
  BY DEF ShownAsTold, EventOK, AgreeOK
<1>3. RecipientsHeard
  <2>1. in_flight = <<>> => DOMAIN in_flight = {}
    OBVIOUS
  <2>. QED  BY <2>1 DEF RecipientsHeard, EventOK, HeardOK
<1>. QED  BY <1>1, <1>2, <1>3 DEF EventsShown

LEMMA ChainHolds ==
  ASSUME EventOK
  PROVE  \/ Synced.state = told
         \/ ~watched.intrinsic /\ "stop" \in upset
         \/ "replaced" \in upset
BY SyncedIs

LEMMA DelayHolds ==
  ASSUME EventOK, EvaluateCycle, context'.state # Synced.state, context'.state # "fault"
  PROVE  /\ Len(past') > Delay(context'.state)
         /\ \A i \in Len(past') - Delay(context'.state) .. Len(past') :
              past'[i] \in {context'.state, "skipped"}
BY EvaluationIs

\* The state a range calls for, and when it calls for another.
LEMMA RangeIs ==
  ASSUME NEW v \in Int, NEW high \in Int, NEW low \in Int, NEW d \in Nat, NEW s, NEW r,
         r = evaluate_out_of_range(v, high, low, d, s)
  PROVE  /\ r = "high_limit" => v > high \/ s = "high_limit"
         /\ r = "low_limit" => v < low \/ s = "low_limit"
         /\ r = NONE /\ s = "high_limit" => v < high - d
         /\ r \in {"high_limit", "low_limit", NONE}
BY NoneAssumption DEF evaluate_out_of_range, EventStates

LEMMA NoChatterHolds ==
  ASSUME EventOK, EvaluateCycle, told' # told, value # BAD, watched.type = "out_of_range",
         ~switches.algorithm_inhibit, told' # "fault"
  PROVE  /\ told' = "high_limit" => \/ value > HighLimit
                                    \/ told = "fault" /\ value >= HighLimit - Deadband
         /\ told' = "low_limit" => \/ value < LowLimit
                                   \/ told = "fault" /\ value <= LowLimit + Deadband
         /\ told' = "normal" /\ told = "high_limit" =>
              \/ value < HighLimit - Deadband
              \/ watched.limits_listed /\ ~watched.limit_enable[1]
              \/ {"stop", "replaced"} \cap upset # {}
         /\ watched.intrinsic /\ watched.limits_listed =>
              /\ told' = "high_limit" => watched.limit_enable[1]
              /\ told' = "low_limit" => watched.limit_enable[2]
<1>. DEFINE s == Aged(Synced).state
            high == IF watched.intrinsic /\ ~limit_enable_bits[1]
                      THEN value + Deadband + 1 ELSE HighLimit
            low == IF watched.intrinsic /\ ~limit_enable_bits[2]
                     THEN value - Deadband - 1 ELSE LowLimit
            r == evaluate_out_of_range(value, high, low, Deadband, s)
<1>1. s = Synced.state
  BY SyncedIs, AgedIs DEF EventOK, EventTypes
<1>2. context'.state # Synced.state /\ told' = context'.state
  BY EvaluationIs DEF Notify
<1>3. told' = ResultNow(Aged(Synced)) /\ told' # s
  BY <1>1, <1>2, EvaluationIs
<1>4. value \in Nat /\ HighLimit \in Nat /\ LowLimit \in Nat /\ Deadband \in Nat
  BY EventAssumption DEF EvaluateCycle, EventOK, EventTypes
<1>5. ResultNow(Aged(Synced)) = IF r = NONE THEN "normal" ELSE r
  <2>1. ResultNow(Aged(Synced)) = event_result(value, s)
    BY DEF ResultNow
  <2>2. CASE watched.intrinsic
    <3>1. run_intrinsic_algorithm(value, s) =
            evaluate_out_of_range(value,
              IF limit_enable_bits[1] THEN HighLimit ELSE value + Deadband + 1,
              IF limit_enable_bits[2] THEN LowLimit ELSE value - Deadband - 1, Deadband, s)
      BY DEF run_intrinsic_algorithm
    <3>2. /\ high = IF limit_enable_bits[1] THEN HighLimit ELSE value + Deadband + 1
          /\ low = IF limit_enable_bits[2] THEN LowLimit ELSE value - Deadband - 1
      BY <2>2
    <3>3. run_intrinsic_algorithm(value, s) = r
      BY <3>1, <3>2
    <3>. QED  BY <2>1, <2>2, <3>3 DEF event_result
  <2>3. CASE ~watched.intrinsic
    <3>1. high = HighLimit /\ low = LowLimit
      BY <2>3
    <3>2. run_event_algorithm(value, s) =
            evaluate_out_of_range(value, HighLimit, LowLimit, Deadband, s)
      <4>1. /\ watched.type \in RangeTypes \ {"floating_limit"}
            /\ watched.type \notin AlarmValueTypes \cup {"extended"}
        BY DEF RangeTypes, AlarmValueTypes
      <4>. HIDE DEF r, s, high, low
      <4>. QED  BY <4>1, SMTT(30) DEF run_event_algorithm
    <3>3. run_event_algorithm(value, s) = r
      BY <3>1, <3>2
    <3>. QED  BY <2>1, <2>3, <3>3 DEF event_result
  <2>. QED  BY <2>2, <2>3
<1>6. high \in Int /\ low \in Int
  BY <1>4
<1>. HIDE DEF r, s, high, low
<1>7. /\ r = "high_limit" => value > high \/ s = "high_limit"
      /\ r = "low_limit" => value < low \/ s = "low_limit"
      /\ r = NONE /\ s = "high_limit" => value < high - Deadband
      /\ r \in {"high_limit", "low_limit", NONE}
  BY <1>4, <1>6, RangeIs DEF r
<1>8. told' = "high_limit" => value > high
  BY <1>3, <1>5, <1>7
<1>9. told' = "low_limit" => value < low
  BY <1>3, <1>5, <1>7
<1>10. told' = "normal" => r = NONE
  BY <1>3, <1>5, <1>7
<1>11. watched.intrinsic /\ ~limit_enable_bits[1] => ~(value > high)
  BY <1>4 DEF high
<1>12. watched.intrinsic /\ ~limit_enable_bits[2] => ~(value < low)
  BY <1>4 DEF low
<1>13. ~(watched.intrinsic /\ ~limit_enable_bits[1]) => high = HighLimit
  BY DEF high
<1>14. ~(watched.intrinsic /\ ~limit_enable_bits[2]) => low = LowLimit
  BY DEF low
<1>15. told' = "normal" /\ told = "high_limit" =>
         \/ value < HighLimit - Deadband \/ ~limit_enable_bits[1]
         \/ {"stop", "replaced"} \cap upset # {}
  BY <1>1, <1>7, <1>10, <1>13, ChainHolds
<1>16. /\ watched.limits_listed => limit_enable_bits = watched.limit_enable
       /\ ~watched.limits_listed => limit_enable_bits[1]
  BY DEF limit_enable_bits
<1>. QED  BY <1>8, <1>9, <1>11, <1>12, <1>13, <1>14, <1>15, <1>16

LEMMA EventsOf ==
  EnginesSpec => []EventOK
<1>1. EnginesSpec => EnginesInit /\ [][EnginesNext]_engines_vars
  BY PTL DEF EnginesSpec
<1>2. EnginesInit => EventOK
  BY InitEvents DEF EnginesInit
<1>3. EventOK /\ [EnginesNext]_engines_vars => EventOK'
  <2>1. [EnginesNext]_engines_vars => EventNext \/ UNCHANGED event_vars
    BY DEF EnginesNext, EventPart, TrendPart, SchedulePart, AuditPart, Maintained, engines_vars
  <2>. QED  BY <2>1, StepEvents
<1>. QED  BY <1>1, <1>2, <1>3, PTL

\* What was notified, what the object shows and what its recipients heard
\* agree (_dispatch_intrinsic_notification, _route_notification, stop).
THEOREM EventsShownTheorem == EnginesSpec => []EventsShown
BY EventsOf, EventsAgree, PTL

\* A notification continues the last one, its condition lasted for the delay,
\* no limit was passed to and fro, and its limit and its transition are not
\* disabled by a list; what a BitString disables alarms all the same
\* (EventStateMachine.evaluate, _apply_delay, evaluate_out_of_range,
\* _limit_enable_bits, _sync_intrinsic_state_machine).
THEOREM EventsWarrantedTheorem == EnginesSpec => EventsWarranted
<1>1. EventOK /\ [EnginesNext]_engines_vars =>
        [EvaluateCycle /\ context'.state # Synced.state =>
           \/ Synced.state = told
           \/ ~watched.intrinsic /\ "stop" \in upset
           \/ "replaced" \in upset]_event_vars
  BY ChainHolds
<1>2. EventOK /\ [EnginesNext]_engines_vars =>
        [EvaluateCycle /\ context'.state # Synced.state /\ context'.state # "fault" =>
           LET to == context'.state
           IN /\ Len(past') > Delay(to)
              /\ \A i \in Len(past') - Delay(to) .. Len(past') : past'[i] \in {to, "skipped"}
        ]_event_vars
  BY DelayHolds
<1>3. EventOK /\ [EnginesNext]_engines_vars =>
        [EvaluateCycle /\ told' # told /\ value # BAD /\ watched.type = "out_of_range"
           /\ ~switches.algorithm_inhibit /\ told' # "fault" =>
             /\ told' = "high_limit" => \/ value > HighLimit
                                        \/ told = "fault" /\ value >= HighLimit - Deadband
             /\ told' = "low_limit" => \/ value < LowLimit
                                       \/ told = "fault" /\ value <= LowLimit + Deadband
             /\ told' = "normal" /\ told = "high_limit" =>
                  \/ value < HighLimit - Deadband
                  \/ watched.limits_listed /\ ~watched.limit_enable[1]
                  \/ {"stop", "replaced"} \cap upset # {}
             /\ watched.intrinsic /\ watched.limits_listed =>
                  /\ told' = "high_limit" => watched.limit_enable[1]
                  /\ told' = "low_limit" => watched.limit_enable[2]
        ]_event_vars
  BY NoChatterHolds
<1>4. EnginesSpec => [][EnginesNext]_engines_vars
  BY PTL DEF EnginesSpec
<1>5. EnginesSpec => ChainUnbroken
  BY <1>1, <1>4, EventsOf, PTL DEF ChainUnbroken
<1>6. EnginesSpec => DelayHonoured
  BY <1>2, <1>4, EventsOf, PTL DEF DelayHonoured
<1>7. EnginesSpec => NoChatter
  BY <1>3, <1>4, EventsOf, PTL DEF NoChatter
<1>8. EventOK /\ [EnginesNext]_engines_vars =>
        [EvaluateCycle /\ context'.state # Synced.state =>
           Enabled(TransitionOf(context'.state))]_event_vars
  BY EvaluationIs
<1>9. EnginesSpec => EnabledAsListed
  BY <1>8, <1>4, EventsOf, PTL DEF EnabledAsListed
<1>. QED  BY <1>5, <1>6, <1>7, <1>9 DEF EventsWarranted

-----------------------------------------------------------------------------
(* The schedule: folds over the lists, the calendar, then the engine.      *)

\* A nonempty set of naturals has a least element.
LEMMA LeastNumber ==
  ASSUME NEW S \in SUBSET Nat, S # {}
  PROVE  \E x \in S : \A y \in S : x <= y
<1>. DEFINE R == {p \in Nat \X Nat : p[1] < p[2]}
<1>1. IsWellFoundedOn(R, Nat)
  BY NatLessThanWellFounded, Zenon DEF OpToRel
<1>2. \E x \in S : \A y \in S : ~(<<y, x>> \in R)
  <2>. HIDE DEF R
  <2>. QED  BY <1>1, WFMin
<1>3. PICK x \in S : \A y \in S : ~(<<y, x>> \in R)
  BY <1>2
<1>4. \A y \in S : ~(y < x)
  BY <1>3
<1>. QED  BY <1>4

\* The recursion of resolve_time_values has a solution, for every list.
LEMMA BestTimeExists ==
  ASSUME NEW tvs, NEW now, NEW n \in Nat
  PROVE  \E f : f = [k \in 0 .. n |-> IF k = 0 THEN <<>> ELSE later(f[k - 1], tvs[k], now)]
<1>. DEFINE Is(f, m) == f = [k \in 0 .. m |-> IF k = 0 THEN <<>> ELSE later(f[k - 1], tvs[k], now)]
            Bad == { m \in Nat : ~ \E f : Is(f, m) }
<1>. SUFFICES ASSUME Bad # {} PROVE FALSE
  BY Zenon
<1>1. PICK m \in Bad : \A y \in Bad : m <= y
  <2>. HIDE DEF Bad
  <2>. Bad \in SUBSET Nat
    BY DEF Bad
  <2>. QED  BY LeastNumber
<1>2. CASE m = 0
  <2>. DEFINE f == [k \in 0 .. 0 |-> <<>>]
  <2>1. Is(f, 0)
    OBVIOUS
  <2>. QED  BY <1>2, <2>1, Zenon
<1>3. CASE m # 0
  <2>1. m \in Nat /\ m - 1 \in Nat /\ m - 1 \notin Bad
    BY <1>1, <1>3
  <2>2. PICK h : Is(h, m - 1)
    BY <2>1
  <2>. DEFINE f == [k \in 0 .. m |-> IF k = m THEN later(h[m - 1], tvs[m], now) ELSE h[k]]
  <2>3. ASSUME NEW k \in 0 .. m
        PROVE  f[k] = IF k = 0 THEN <<>> ELSE later(f[k - 1], tvs[k], now)
    <3>1. CASE k = m
      <4>1. f[k] = later(h[m - 1], tvs[m], now) /\ f[m - 1] = h[m - 1]
        BY <2>1, <3>1
      <4>. QED  BY <1>3, <3>1, <4>1
    <3>2. CASE k # m
      <4>1. k \in 0 .. m - 1 /\ f[k] = h[k] /\ (k # 0 => k - 1 \in 0 .. m /\ k - 1 # m)
        BY <2>1, <3>2
      <4>2. h[k] = IF k = 0 THEN <<>> ELSE later(h[k - 1], tvs[k], now)
        BY <2>2, <4>1
      <4>3. k # 0 => f[k - 1] = h[k - 1]
        BY <4>1
      <4>. QED  BY <4>1, <4>2, <4>3
    <3>. QED  BY <3>1, <3>2
  <2>4. Is(f, m)
    <3>1. f = [k \in 0 .. m |-> f[k]]
      OBVIOUS
    <3>. HIDE DEF f
    <3>. QED  BY <2>3, <3>1, Zenon
  <2>. QED  BY <2>4, Zenon
<1>. QED  BY <1>2, <1>3

Now(tvs, m, now) == {i \in 1 .. m : TimeOf(tvs[i]) <= now}

\* The latest of a set of entries, the first of those.
Latest(tvs, S, i) ==
  \A j \in S : \/ TimeOf(tvs[j]) < TimeOf(tvs[i])
               \/ TimeOf(tvs[j]) = TimeOf(tvs[i]) /\ i <= j

\* What has been found among the first m entries.
FoundTime(best, tvs, m, now) ==
  \/ best = <<>> /\ Now(tvs, m, now) = {}
  \/ \E i \in Now(tvs, m, now) : best = <<tvs[i]>> /\ Latest(tvs, Now(tvs, m, now), i)

LEMMA LaterFinds ==
  ASSUME NEW tvs, RegularValues(tvs), NEW now \in Nat, NEW m \in 1 .. Len(tvs),
         NEW best, FoundTime(best, tvs, m - 1, now)
  PROVE  FoundTime(later(best, tvs[m], now), tvs, m, now)
<1>1. /\ m \in Nat /\ m - 1 \in Nat /\ Len(tvs) \in Nat
      /\ \A i \in 1 .. m : TimeOf(tvs[i]) \in Nat
  BY DEF RegularValues, TimeOf
<1>2. CASE TimeOf(tvs[m]) > now
  <2>1. later(best, tvs[m], now) = best
    BY <1>1, <1>2 DEF later
  <2>2. Now(tvs, m, now) = Now(tvs, m - 1, now)
    BY <1>1, <1>2 DEF Now
  <2>. QED  BY <2>1, <2>2 DEF FoundTime
<1>3. CASE TimeOf(tvs[m]) <= now
  <2>1. Now(tvs, m, now) = Now(tvs, m - 1, now) \cup {m}
    BY <1>1, <1>3 DEF Now
  <2>2. CASE best = <<>>
    <3>1. Now(tvs, m - 1, now) = {}
      BY <2>2 DEF FoundTime
    <3>2. later(best, tvs[m], now) = <<tvs[m]>>
      BY <1>3, <2>2 DEF later
    <3>. QED  BY <1>1, <2>1, <3>1, <3>2 DEF FoundTime, Latest
  <2>3. CASE best # <<>>
    <3>1. PICK i \in Now(tvs, m - 1, now) :
                 best = <<tvs[i]>> /\ Latest(tvs, Now(tvs, m - 1, now), i)
      BY <2>3 DEF FoundTime
    <3>2. i \in 1 .. m - 1 /\ i \in 1 .. m /\ m \in 1 .. m /\ best[1] = tvs[i]
      BY <1>1, <3>1 DEF Now
    <3>3. CASE TimeOf(tvs[m]) > TimeOf(tvs[i])
      <4>1. later(best, tvs[m], now) = <<tvs[m]>>
        BY <1>3, <2>3, <3>2, <3>3 DEF later
      <4>2. \A j \in Now(tvs, m - 1, now) : TimeOf(tvs[j]) < TimeOf(tvs[m])
        BY <1>1, <3>1, <3>2, <3>3 DEF Latest, Now
      <4>3. Latest(tvs, Now(tvs, m, now), m)
        BY <1>1, <2>1, <4>2 DEF Latest
      <4>. QED  BY <2>1, <4>1, <4>3 DEF FoundTime
    <3>4. CASE ~(TimeOf(tvs[m]) > TimeOf(tvs[i]))
      <4>1. later(best, tvs[m], now) = best
        BY <2>3, <3>2, <3>4 DEF later
      <4>2. Latest(tvs, Now(tvs, m, now), i)
        BY <1>1, <2>1, <3>1, <3>2, <3>4 DEF Latest
      <4>. QED  BY <2>1, <3>1, <4>1, <4>2 DEF FoundTime
    <3>. QED  BY <3>3, <3>4
  <2>. QED  BY <2>2, <2>3
<1>. QED  BY <1>1, <1>2, <1>3

\* resolve_time_values finds the latest entry whose time has come, the first
\* of those of one time, and nothing only when none has.
LEMMA TimeValueIs ==
  ASSUME NEW tvs, RegularValues(tvs), NEW now \in Nat
  PROVE  LET due == Now(tvs, Len(tvs), now)
             v == resolve_time_values(tvs, now)
         IN
            \/ v = <<>> /\ due = {}
            \/ \E i \in due : v = <<tvs[i].value>> /\ Latest(tvs, due, i)
<1>. DEFINE n == Len(tvs)
<1>1. n \in Nat
  BY DEF RegularValues
<1>2. PICK best : best = [k \in 0 .. n |-> IF k = 0 THEN <<>> ELSE later(best[k - 1], tvs[k], now)]
  BY <1>1, BestTimeExists
<1>. DEFINE it == CHOOSE f :
                    f = [k \in 0 .. n |-> IF k = 0 THEN <<>> ELSE later(f[k - 1], tvs[k], now)]
<1>3. it = [k \in 0 .. n |-> IF k = 0 THEN <<>> ELSE later(it[k - 1], tvs[k], now)]
  BY <1>2, Zenon
<1>4. resolve_time_values(tvs, now) = IF it[n] = <<>> THEN <<>> ELSE <<it[n][1].value>>
  BY DEF resolve_time_values
<1>. HIDE DEF it
<1>5. FoundTime(it[n], tvs, n, now)
  <2>. DEFINE Bad == { m \in 0 .. n : ~FoundTime(it[m], tvs, m, now) }
  <2>. SUFFICES ASSUME Bad # {} PROVE FALSE
    BY <1>1
  <2>1. PICK m \in Bad : \A y \in Bad : m <= y
    <3>. Bad \in SUBSET Nat
      BY <1>1
    <3>. HIDE DEF Bad
    <3>. QED  BY LeastNumber
  <2>2. m # 0
    <3>1. it[0] = <<>>
      BY <1>1, <1>3
    <3>2. Now(tvs, 0, now) = {}
      BY DEF Now
    <3>. QED  BY <2>1, <3>1, <3>2 DEF FoundTime
  <2>3. m \in 1 .. n /\ m - 1 \in 0 .. n /\ m - 1 \notin Bad
    BY <1>1, <2>1, <2>2
  <2>4. FoundTime(it[m - 1], tvs, m - 1, now)
    BY <2>3
  <2>5. it[m] = later(it[m - 1], tvs[m], now)
    BY <1>1, <1>3, <2>3
  <2>6. FoundTime(it[m], tvs, m, now)
    BY <2>3, <2>4, <2>5, LaterFinds
  <2>. QED  BY <2>1, <2>6
<1>. HIDE DEF n
<1>6. CASE it[n] = <<>> /\ Now(tvs, n, now) = {}
  BY <1>4, <1>6 DEF n
<1>7. CASE \E i \in Now(tvs, n, now) : it[n] = <<tvs[i]>> /\ Latest(tvs, Now(tvs, n, now), i)
  <2>1. PICK i \in Now(tvs, n, now) : it[n] = <<tvs[i]>> /\ Latest(tvs, Now(tvs, n, now), i)
    BY <1>7
  <2>2. it[n] # <<>> /\ it[n][1] = tvs[i]
    BY <2>1
  <2>. QED  BY <1>4, <2>1, <2>2 DEF n
<1>. QED  BY <1>5, <1>6, <1>7 DEF FoundTime

-----------------------------------------------------------------------------
NoException == [priority |-> 17, value |-> <<>>]

\* best of resolve_exception_schedule, by its recursion.
BestSoFar(f, excs, n, d, now, calendar) ==
  f = [k \in 0 .. n |-> IF k = 0 THEN NoException ELSE better(f[k - 1], excs[k], d, now, calendar)]

\* That recursion has a solution, for every list, day and time of day.
LEMMA BestExceptionExists ==
  ASSUME NEW excs, NEW d, NEW now, NEW calendar, NEW n \in Nat
  PROVE  \E f : BestSoFar(f, excs, n, d, now, calendar)
<1>. DEFINE Is(f, m) ==
              f = [k \in 0 .. m |-> IF k = 0 THEN NoException
                                             ELSE better(f[k - 1], excs[k], d, now, calendar)]
            Bad == { m \in Nat : ~ \E f : Is(f, m) }
<1>. SUFFICES ASSUME Bad # {} PROVE FALSE
  BY Zenon DEF BestSoFar
<1>1. PICK m \in Bad : \A y \in Bad : m <= y
  <2>. HIDE DEF Bad
  <2>. Bad \in SUBSET Nat
    BY DEF Bad
  <2>. QED  BY LeastNumber
<1>2. CASE m = 0
  <2>. DEFINE f == [k \in 0 .. 0 |-> NoException]
  <2>1. Is(f, 0)
    OBVIOUS
  <2>. QED  BY <1>2, <2>1, Zenon
<1>3. CASE m # 0
  <2>1. m \in Nat /\ m - 1 \in Nat /\ m - 1 \notin Bad
    BY <1>1, <1>3
  <2>2. PICK h : Is(h, m - 1)
    BY <2>1
  <2>. DEFINE f == [k \in 0 .. m |->
                      IF k = m THEN better(h[m - 1], excs[m], d, now, calendar) ELSE h[k]]
  <2>3. ASSUME NEW k \in 0 .. m
        PROVE  f[k] = IF k = 0 THEN NoException ELSE better(f[k - 1], excs[k], d, now, calendar)
    <3>1. CASE k = m
      <4>1. f[k] = better(h[m - 1], excs[m], d, now, calendar) /\ f[m - 1] = h[m - 1]
        BY <2>1, <3>1
      <4>. QED  BY <1>3, <3>1, <4>1
    <3>2. CASE k # m
      <4>1. k \in 0 .. m - 1 /\ f[k] = h[k] /\ (k # 0 => k - 1 \in 0 .. m /\ k - 1 # m)
        BY <2>1, <3>2
      <4>2. h[k] = IF k = 0 THEN NoException ELSE better(h[k - 1], excs[k], d, now, calendar)
        BY <2>2, <4>1
      <4>3. k # 0 => f[k - 1] = h[k - 1]
        BY <4>1
      <4>. QED  BY <4>1, <4>2, <4>3
    <3>. QED  BY <3>1, <3>2
  <2>4. Is(f, m)
    <3>1. f = [k \in 0 .. m |-> f[k]]
      OBVIOUS
    <3>. HIDE DEF f
    <3>. QED  BY <2>3, <3>1, Zenon
  <2>. QED  BY <2>4, Zenon
<1>. QED  BY <1>2, <1>3


Holding(excs, m, d, now, calendar) == {i \in 1 .. m : HasValue(excs[i], d, now, calendar)}

\* The one of the highest priority of a set of exceptions, the first of those.
Highest(excs, S, i) ==
  \A j \in S : \/ excs[i].priority < excs[j].priority
               \/ excs[i].priority = excs[j].priority /\ i <= j

Held(exc, now) == [priority |-> exc.priority, value |-> resolve_time_values(exc.values, now)]

\* What has been found among the first m exceptions.
FoundException(best, excs, m, d, now, calendar) ==
  \/ best = NoException /\ Holding(excs, m, d, now, calendar) = {}
  \/ \E i \in Holding(excs, m, d, now, calendar) :
       best = Held(excs[i], now) /\ Highest(excs, Holding(excs, m, d, now, calendar), i)

LEMMA BetterFinds ==
  ASSUME NEW excs, NEW d, NEW now, NEW calendar, NEW n \in Nat, NEW m \in 1 .. n,
         \A i \in 1 .. n : excs[i].priority \in 1 .. 16,
         NEW best, FoundException(best, excs, m - 1, d, now, calendar)
  PROVE  FoundException(better(best, excs[m], d, now, calendar), excs, m, d, now, calendar)
<1>. DEFINE new == better(best, excs[m], d, now, calendar)
            has(k) == HasValue(excs[k], d, now, calendar)
            S == Holding(excs, m - 1, d, now, calendar)
            T == Holding(excs, m, d, now, calendar)
<1>1. /\ m \in Nat /\ m - 1 \in Nat /\ m \in 1 .. m
      /\ \A i \in 1 .. m : excs[i].priority \in 1 .. 16
  OBVIOUS
<1>2. new = IF excs[m].priority < best.priority /\ has(m) THEN Held(excs[m], now) ELSE best
  BY DEF better, Held
<1>3. S = {i \in 1 .. m - 1 : has(i)} /\ T = {i \in 1 .. m : has(i)}
  BY DEF Holding
<1>4. /\ \/ best = NoException /\ S = {}
         \/ \E i \in S : best = Held(excs[i], now) /\ Highest(excs, S, i)
      /\ FoundException(new, excs, m, d, now, calendar)
           = \/ new = NoException /\ T = {}
             \/ \E i \in T : new = Held(excs[i], now) /\ Highest(excs, T, i)
  BY DEF FoundException
<1>. HIDE DEF new, has, S, T
<1>5. CASE ~has(m)
  <2>1. new = best /\ T = S
    BY <1>1, <1>2, <1>3, <1>5
  <2>. QED  BY <1>4, <2>1 DEF new
<1>6. CASE has(m)
  <2>1. T = S \cup {m}
    BY <1>1, <1>3, <1>6
  <2>2. CASE best = NoException /\ S = {}
    <3>1. new = Held(excs[m], now)
      <4>1. best.priority = 17 /\ excs[m].priority \in 1 .. 16
        BY <1>1, <2>2 DEF NoException
      <4>2. excs[m].priority < best.priority
        BY <4>1
      <4>. QED  BY <1>2, <1>6, <4>2
    <3>2. Highest(excs, T, m)
      BY <1>1, <2>1, <2>2 DEF Highest
    <3>. QED  BY <1>4, <2>1, <3>1, <3>2 DEF new
  <2>3. CASE \E i \in S : best = Held(excs[i], now) /\ Highest(excs, S, i)
    <3>1. PICK i \in S : best = Held(excs[i], now) /\ Highest(excs, S, i)
      BY <2>3
    <3>2. i \in 1 .. m - 1 /\ i \in 1 .. m /\ best.priority = excs[i].priority
      BY <1>1, <1>3, <3>1 DEF Held
    <3>3. CASE excs[m].priority < excs[i].priority
      <4>1. new = Held(excs[m], now)
        BY <1>2, <1>6, <3>2, <3>3
      <4>2. \A j \in S : excs[m].priority < excs[j].priority
        BY <1>1, <1>3, <3>1, <3>2, <3>3 DEF Highest
      <4>3. Highest(excs, T, m)
        BY <1>1, <2>1, <4>2 DEF Highest
      <4>. QED  BY <1>4, <2>1, <4>1, <4>3 DEF new
    <3>4. CASE ~(excs[m].priority < excs[i].priority)
      <4>1. new = best
        BY <1>2, <3>2, <3>4
      <4>2. Highest(excs, T, i)
        BY <1>1, <2>1, <3>1, <3>2, <3>4 DEF Highest
      <4>. QED  BY <1>4, <2>1, <3>1, <4>1, <4>2 DEF new
    <3>. QED  BY <3>3, <3>4
  <2>. QED  BY <1>4, <2>2, <2>3
<1>. QED  BY <1>5, <1>6

\* resolve_exception_schedule finds the value of the exception of the highest
\* priority, the first of those, among those that have one, and nothing only
\* when none has.
LEMMA ExceptionIs ==
  ASSUME NEW excs, NEW d, NEW now, NEW calendar, Len(excs) \in Nat,
         \A i \in 1 .. Len(excs) : excs[i].priority \in 1 .. 16
  PROVE  LET holding == Holding(excs, Len(excs), d, now, calendar)
             v == resolve_exception_schedule(excs, d, now, calendar)
         IN
            \/ v = <<>> /\ holding = {}
            \/ \E i \in holding : /\ v = resolve_time_values(excs[i].values, now)
                                  /\ Highest(excs, holding, i)
<1>. DEFINE n == Len(excs)
<1>1. n \in Nat
  OBVIOUS
<1>2. PICK f : BestSoFar(f, excs, n, d, now, calendar)
  BY <1>1, BestExceptionExists, Zenon
<1>. DEFINE it == CHOOSE g : BestSoFar(g, excs, n, d, now, calendar)
<1>3. it = [k \in 0 .. n |->
              IF k = 0 THEN NoException ELSE better(it[k - 1], excs[k], d, now, calendar)]
  <2>1. BestSoFar(it, excs, n, d, now, calendar)
    BY <1>2
  <2>. QED  BY <2>1, Zenon DEF BestSoFar
<1>4. resolve_exception_schedule(excs, d, now, calendar) = it[n].value
  BY DEF resolve_exception_schedule, NoException, BestSoFar
<1>. HIDE DEF it
<1>5. FoundException(it[n], excs, n, d, now, calendar)
  <2>. DEFINE Bad == { m \in 0 .. n : ~FoundException(it[m], excs, m, d, now, calendar) }
  <2>. SUFFICES ASSUME Bad # {} PROVE FALSE
    OBVIOUS
  <2>1. PICK m \in Bad : \A y \in Bad : m <= y
    <3>. Bad \in SUBSET Nat
      OBVIOUS
    <3>. HIDE DEF Bad
    <3>. QED  BY LeastNumber
  <2>2. m # 0
    <3>1. it[0] = NoException
      BY <1>3
    <3>2. Holding(excs, 0, d, now, calendar) = {}
      BY DEF Holding
    <3>. QED  BY <2>1, <3>1, <3>2 DEF FoundException
  <2>3. m \in 1 .. n /\ m - 1 \in 0 .. n /\ m - 1 \notin Bad
    BY <2>1, <2>2
  <2>4. FoundException(it[m - 1], excs, m - 1, d, now, calendar)
    BY <2>3
  <2>5. it[m] = better(it[m - 1], excs[m], d, now, calendar)
    BY <1>3, <2>3
  <2>6. FoundException(it[m], excs, m, d, now, calendar)
    BY <2>3, <2>4, <2>5, BetterFinds, Zenon
  <2>. QED  BY <2>1, <2>6
<1>6. CASE it[n] = NoException /\ Holding(excs, n, d, now, calendar) = {}
  BY <1>4, <1>6 DEF NoException
<1>7. CASE \E i \in Holding(excs, n, d, now, calendar) :
             it[n] = Held(excs[i], now) /\ Highest(excs, Holding(excs, n, d, now, calendar), i)
  <2>1. PICK i \in Holding(excs, n, d, now, calendar) :
               it[n] = Held(excs[i], now) /\ Highest(excs, Holding(excs, n, d, now, calendar), i)
    BY <1>7
  <2>2. it[n].value = resolve_time_values(excs[i].values, now)
    BY <2>1 DEF Held
  <2>. QED  BY <1>4, <2>1, <2>2
<1>. QED  BY <1>5, <1>6, <1>7 DEF FoundException

-----------------------------------------------------------------------------
LEMMA LastDayIs ==
  ASSUME NEW d, d.month \in 1 .. 12
  PROVE  LastDay(d) \in 28 .. 31
BY DEF LastDay

LEMMA NextDateIs ==
  ASSUME NEW d, RegularDate(d), NEW e, e = NextDate(d)
  PROVE  /\ RegularDate(e) /\ e.year \in {d.year, d.year + 1}
         /\ d.day < LastDay(d) => e.day = d.day + 1 /\ e.month = d.month /\ e.year = d.year
         /\ d.day = LastDay(d) => e.day = 1 /\ e.month = IF d.month = 12 THEN 1 ELSE d.month + 1
<1>1. /\ d.year \in Nat \ {0} /\ d.month \in 1 .. 12 /\ d.day \in 1 .. 31 /\ d.dow \in 1 .. 7
      /\ d = [year |-> d.year, month |-> d.month, day |-> d.day, dow |-> d.dow]
      /\ d.day <= LastDay(d) /\ LastDay(d) \in 28 .. 31
  BY LastDayIs DEF RegularDate
<1>. DEFINE dow == (d.dow % 7) + 1
<1>2. dow \in 1 .. 7
  BY <1>1
<1>. HIDE DEF dow
<1>3. CASE d.day < LastDay(d)
  <2>1. e = [d EXCEPT !.day = @ + 1, !.dow = dow]
    BY <1>1, <1>3 DEF NextDate, dow
  <2>2. e = [year |-> d.year, month |-> d.month, day |-> d.day + 1, dow |-> dow]
    BY <1>1, <2>1, Zenon
  <2>3. LastDay(e) = LastDay(d)
    BY <2>2 DEF LastDay
  <2>. QED  BY <1>1, <1>2, <1>3, <2>2, <2>3 DEF RegularDate
<1>4. CASE d.day = LastDay(d) /\ d.month < 12
  <2>1. e = [d EXCEPT !.day = 1, !.month = @ + 1, !.dow = dow]
    BY <1>1, <1>4 DEF NextDate, dow
  <2>2. e = [year |-> d.year, month |-> d.month + 1, day |-> 1, dow |-> dow]
    BY <1>1, <2>1, Zenon
  <2>3. LastDay(e) \in 28 .. 31
    BY <1>1, <1>4, <2>2, LastDayIs
  <2>. QED  BY <1>1, <1>2, <1>4, <2>2, <2>3 DEF RegularDate
<1>5. CASE d.day = LastDay(d) /\ d.month = 12
  <2>1. e = [year |-> d.year + 1, month |-> 1, day |-> 1, dow |-> dow]
    BY <1>1, <1>5 DEF NextDate, dow
  <2>2. LastDay(e) \in 28 .. 31
    BY <2>1, LastDayIs
  <2>. QED  BY <1>1, <1>2, <1>5, <2>1, <2>2 DEF RegularDate
<1>. QED  BY <1>1, <1>3, <1>4, <1>5

\* A walk through the calendar, of a week.
LEMMA DaysAfterIs ==
  ASSUME NEW d
  PROVE  DaysAfter(0, d) = d /\ \A k \in 1 .. 7 : DaysAfter(k, d) = NextDate(DaysAfter(k - 1, d))
<1>1. PICK x : x = NextDate(d)
  OBVIOUS
<1>2. PICK y : y = NextDate(x)
  OBVIOUS
<1>3. PICK z : z = NextDate(y)
  OBVIOUS
<1>4. PICK u : u = NextDate(z)
  OBVIOUS
<1>5. PICK v : v = NextDate(u)
  OBVIOUS
<1>6. PICK w : w = NextDate(v)
  OBVIOUS
<1>. DEFINE f == [k \in 0 .. 7 |->
                    CASE k = 0 -> d [] k = 1 -> x [] k = 2 -> y [] k = 3 -> z
                      [] k = 4 -> u [] k = 5 -> v [] k = 6 -> w [] OTHER -> NextDate(w)]
            Is(g) == g = [k \in 0 .. 7 |-> IF k = 0 THEN d ELSE NextDate(g[k - 1])]
<1>7. Is(f)
  <2>1. f = [k \in 0 .. 7 |-> f[k]]
    OBVIOUS
  <2>2. ASSUME NEW k \in 0 .. 7 PROVE f[k] = IF k = 0 THEN d ELSE NextDate(f[k - 1])
    BY <1>1, <1>2, <1>3, <1>4, <1>5, <1>6
  <2>. HIDE DEF f
  <2>. QED  BY <2>1, <2>2
<1>. DEFINE after == CHOOSE g : Is(g)
<1>8. Is(after)
  BY <1>7
<1>9. \A k \in 0 .. 7 : DaysAfter(k, d) = after[k]
  BY DEF DaysAfter
<1>. HIDE DEF after
<1>. QED  BY <1>8, <1>9

\* The date k days later.
Within(k, d, e) ==
  /\ RegularDate(e)
  /\ IF d.day + k <= LastDay(d)
     THEN e.day = d.day + k /\ e.month = d.month /\ e.year = d.year
     ELSE e.day = d.day + k - LastDay(d) /\ e.month = IF d.month = 12 THEN 1 ELSE d.month + 1

LEMMA WithinAWeek ==
  ASSUME NEW d, RegularDate(d)
  PROVE  \A k \in 0 .. 7 : Within(k, d, DaysAfter(k, d))
<1>1. d.day \in 1 .. 31 /\ d.day <= LastDay(d) /\ LastDay(d) \in 28 .. 31 /\ d.month \in 1 .. 12
  BY LastDayIs DEF RegularDate
<1>2. Within(0, d, DaysAfter(0, d))
  BY <1>1, DaysAfterIs DEF Within
<1>3. ASSUME NEW k \in 1 .. 7, Within(k - 1, d, DaysAfter(k - 1, d))
      PROVE  Within(k, d, DaysAfter(k, d))
  <2>1. PICK e : e = DaysAfter(k - 1, d)
    OBVIOUS
  <2>2. PICK g : g = NextDate(e) /\ g = DaysAfter(k, d)
    BY <2>1, DaysAfterIs
  <2>3. RegularDate(e) /\ e.day \in 1 .. 31 /\ LastDay(e) \in 28 .. 31
    BY <1>3, <2>1, LastDayIs DEF Within, RegularDate
  <2>4. /\ RegularDate(g)
        /\ e.day < LastDay(e) => g.day = e.day + 1 /\ g.month = e.month /\ g.year = e.year
        /\ e.day = LastDay(e) => g.day = 1 /\ g.month = IF e.month = 12 THEN 1 ELSE e.month + 1
    BY <2>2, <2>3, NextDateIs, Zenon
  <2>5. CASE d.day + (k - 1) <= LastDay(d)
    <3>1. e.day = d.day + (k - 1) /\ e.month = d.month /\ e.year = d.year
      BY <1>3, <2>1, <2>5 DEF Within
    <3>2. LastDay(e) = LastDay(d)
      BY <3>1 DEF LastDay
    <3>. QED  BY <1>1, <2>2, <2>4, <2>5, <3>1, <3>2 DEF Within
  <2>6. CASE ~(d.day + (k - 1) <= LastDay(d))
    <3>1. e.day = d.day + (k - 1) - LastDay(d) /\ e.month = IF d.month = 12 THEN 1 ELSE d.month + 1
      BY <1>3, <2>1, <2>6 DEF Within
    <3>2. e.day < LastDay(e) /\ ~(d.day + k <= LastDay(d))
      BY <1>1, <2>3, <2>6, <3>1
    <3>. QED  BY <1>1, <2>2, <2>4, <3>1, <3>2 DEF Within
  <2>. QED  BY <2>5, <2>6
<1>. DEFINE W(k) == Within(k, d, DaysAfter(k, d))
<1>4. W(0) /\ \A k \in 1 .. 7 : W(k - 1) => W(k)
  BY <1>2, <1>3
<1>. HIDE DEF W
<1>5. W(1) /\ W(2) /\ W(3) /\ W(4) /\ W(5) /\ W(6) /\ W(7)
  <2>1. W(1) BY <1>4
  <2>2. W(2) BY <1>4, <2>1
  <2>3. W(3) BY <1>4, <2>2
  <2>4. W(4) BY <1>4, <2>3
  <2>5. W(5) BY <1>4, <2>4
  <2>6. W(6) BY <1>4, <2>5
  <2>7. W(7) BY <1>4, <2>6
  <2>. QED  BY <2>1, <2>2, <2>3, <2>4, <2>5, <2>6, <2>7
<1>6. \A k \in 0 .. 7 : W(k)
  BY <1>4, <1>5
<1>. QED  BY <1>6 DEF W

-----------------------------------------------------------------------------
\* What the code compares and what the entry means are the same, on every
\* date before the year 9999.
LEMMA MonthMeans ==
  ASSUME NEW m, NEW d, d.month \in 1 .. 12
  PROVE  MonthMatches(m, d) <=> m \in {ANY, d.month, 14 - (d.month % 2)}
<1>1. \/ d.month % 2 = 0 /\ 14 - (d.month % 2) = 14
      \/ d.month % 2 = 1 /\ 14 - (d.month % 2) = 13
  OBVIOUS
<1>. QED  BY <1>1 DEF MonthMatches

LEMMA DateMeans ==
  ASSUME NEW d, RegularDate(d), NEW e, e.kind = "date"
  PROVE  EntryMeans(e, d) <=> matches_bacnet_date(e, d)
<1>1. /\ d.month \in 1 .. 12 /\ d.day \in 1 .. 31
      /\ d.day <= LastDay(d) /\ LastDay(d) \in 28 .. 31 /\ ANY = 255
  BY LastDayIs, ScheduleAssumption DEF RegularDate
<1>2. EntryMeans(e, d) <=>
         /\ e.year \in {ANY, d.year} /\ e.dow \in {ANY, d.dow}
         /\ e.month \in {ANY, d.month, 14 - (d.month % 2)}
         /\ IF e.day = 32 THEN DaysAfter(1, d).day = 1
              ELSE e.day \in {ANY, d.day, 34 - (d.day % 2)}
  BY DEF EntryMeans
<1>3. DaysAfter(1, d).day = 1 <=> d.day = LastDay(d)
  <2>1. Within(1, d, DaysAfter(1, d))
    BY WithinAWeek
  <2>. QED  BY <1>1, <2>1 DEF Within
<1>4. \/ d.day % 2 = 0 /\ 34 - (d.day % 2) = 34
      \/ d.day % 2 = 1 /\ 34 - (d.day % 2) = 33
  BY <1>1
<1>5. (IF e.day = 32 THEN DaysAfter(1, d).day = 1
         ELSE e.day \in {ANY, d.day, 34 - (d.day % 2)})
      <=> \/ e.day \in {ANY, d.day}
          \/ e.day = 32 /\ d.day = LastDay(d)
          \/ e.day = 33 /\ d.day % 2 = 1
          \/ e.day = 34 /\ d.day % 2 = 0
  BY <1>1, <1>3, <1>4
<1>. QED  BY <1>1, <1>2, <1>5, MonthMeans DEF matches_bacnet_date

\* A day as matches_date_range compares it.
Tuple(a, d) ==
  /\ d.year \in Nat /\ d.month \in 1 .. 12 /\ d.day \in 1 .. 31
  /\ a[1] = d.year /\ a[2] = d.month /\ a[3] = d.day

LEMMA DaysInOrder ==
  ASSUME NEW a, NEW d, Tuple(a, d), NEW b, NEW e, Tuple(b, e)
  PROVE  NotAfter(a, b) <=> Ordinal(d) <= Ordinal(e)
<1>1. PICK y \in Nat, m \in 1 .. 12, k \in 1 .. 31 : y = d.year /\ m = d.month /\ k = d.day
  BY DEF Tuple
<1>2. PICK z \in Nat, n \in 1 .. 12, l \in 1 .. 31 : z = e.year /\ n = e.month /\ l = e.day
  BY DEF Tuple
<1>3. y < z \/ (y = z /\ m < n) \/ (y = z /\ m = n /\ k <= l)
        <=> y * 372 + m * 31 + k <= z * 372 + n * 31 + l
  OBVIOUS
<1>4. NotAfter(a, b) <=> y < z \/ (y = z /\ m < n) \/ (y = z /\ m = n /\ k <= l)
  BY <1>1, <1>2 DEF NotAfter, Tuple
<1>5. Ordinal(d) = y * 372 + m * 31 + k /\ Ordinal(e) = z * 372 + n * 31 + l
  BY <1>1, <1>2, Zenon DEF Ordinal
<1>. QED  BY <1>3, <1>4, <1>5

LEMMA RangeMeans ==
  ASSUME NEW d, RegularDate(d), d.year < 9999,
         NEW e, e.kind = "range", RegularBound(e.from), RegularBound(e.to)
  PROVE  EntryMeans(e, d) <=> matches_date_range(e, d)
<1>. DEFINE today == <<d.year, d.month, d.day>>
<1>1. Tuple(today, d) /\ d.year \in Nat \ {0} /\ ANY = 255
  BY ScheduleAssumption DEF RegularDate, Tuple
<1>2. EntryMeans(e, d) <=> /\ e.from.year = ANY \/ Ordinal(e.from) <= Ordinal(d)
                           /\ e.to.year = ANY \/ Ordinal(d) <= Ordinal(e.to)
  BY DEF EntryMeans
<1>3. matches_date_range(e, d) <=>
        NotAfter(LowBound(e.from), today) /\ NotAfter(today, HighBound(e.to))
  BY DEF matches_date_range
<1>. HIDE DEF today
<1>4. NotAfter(LowBound(e.from), today) <=> e.from.year = ANY \/ Ordinal(e.from) <= Ordinal(d)
  <2>. PICK a : a = LowBound(e.from)
    OBVIOUS
  <2>1. CASE e.from.year = ANY
    <3>1. a[1] = 0
      BY <2>1 DEF LowBound
    <3>. QED  BY <1>1, <2>1, <3>1 DEF NotAfter, Tuple
  <2>2. CASE e.from.year # ANY
    <3>1. e.from.year \in Nat /\ e.from.month \in 1 .. 12 /\ e.from.day \in 1 .. 31
      BY <2>2 DEF RegularBound
    <3>2. Tuple(a, e.from)
      BY <1>1, <2>2, <3>1 DEF LowBound, Tuple
    <3>. QED  BY <1>1, <2>2, <3>2, DaysInOrder
  <2>. QED  BY <2>1, <2>2
<1>5. NotAfter(today, HighBound(e.to)) <=> e.to.year = ANY \/ Ordinal(d) <= Ordinal(e.to)
  <2>. PICK a : a = HighBound(e.to)
    OBVIOUS
  <2>1. CASE e.to.year = ANY
    <3>1. a[1] = 9999
      BY <2>1 DEF HighBound
    <3>. QED  BY <1>1, <2>1, <3>1 DEF NotAfter, Tuple
  <2>2. CASE e.to.year # ANY
    <3>1. e.to.year \in Nat /\ e.to.month \in 1 .. 12 /\ e.to.day \in 1 .. 31
      BY <2>2 DEF RegularBound
    <3>2. Tuple(a, e.to)
      BY <1>1, <2>2, <3>1 DEF HighBound, Tuple
    <3>. QED  BY <1>1, <2>2, <3>2, DaysInOrder
  <2>. QED  BY <2>1, <2>2
<1>. QED  BY <1>2, <1>3, <1>4, <1>5

LEMMA WeekMeans ==
  ASSUME NEW d, RegularDate(d), NEW e, e.kind = "week_n_day", e.week \in Nat
  PROVE  EntryMeans(e, d) <=> matches_week_n_day(e, d)
<1>1. /\ d.month \in 1 .. 12 /\ d.day \in 1 .. 31
      /\ d.day <= LastDay(d) /\ LastDay(d) \in 28 .. 31 /\ ANY = 255
  BY LastDayIs, ScheduleAssumption DEF RegularDate
<1>2. EntryMeans(e, d) <=>
         /\ e.dow \in {ANY, d.dow}
         /\ e.month \in {ANY, d.month, 14 - (d.month % 2)}
         /\ CASE e.week = ANY -> TRUE
              [] e.week = 6 -> DaysAfter(7, d).month # d.month
              [] OTHER -> d.day \in 7 * e.week - 6 .. 7 * e.week
  BY DEF EntryMeans
<1>3. DaysAfter(7, d).month # d.month <=> d.day >= LastDay(d) - 6
  <2>1. Within(7, d, DaysAfter(7, d))
    BY WithinAWeek
  <2>. QED  BY <1>1, <2>1 DEF Within
<1>4. d.day \in 7 * e.week - 6 .. 7 * e.week <=> e.week = (d.day - 1) \div 7 + 1
  <2>1. PICK q \in Int : q = (d.day - 1) \div 7
    BY <1>1
  <2>2. 7 * q <= d.day - 1 /\ d.day - 1 < 7 * q + 7
    BY <1>1, <2>1
  <2>3. d.day \in 7 * e.week - 6 .. 7 * e.week <=> e.week = q + 1
    BY <1>1, <2>2
  <2>. QED  BY <2>1, <2>3
<1>5. (CASE e.week = ANY -> TRUE
         [] e.week = 6 -> DaysAfter(7, d).month # d.month
         [] OTHER -> d.day \in 7 * e.week - 6 .. 7 * e.week)
      <=> \/ e.week = ANY
          \/ e.week = 6 /\ d.day >= LastDay(d) - 6
          \/ e.week # 6 /\ e.week = (d.day - 1) \div 7 + 1
  <2>1. CASE e.week = ANY
    BY <1>1, <2>1
  <2>2. CASE e.week = 6
    BY <1>1, <1>3, <2>2
  <2>3. CASE e.week # ANY /\ e.week # 6
    BY <1>4, <2>3
  <2>. QED  BY <2>1, <2>2, <2>3
<1>. QED  BY <1>1, <1>2, <1>5, MonthMeans DEF matches_week_n_day

LEMMA EntryMeansMatch ==
  ASSUME NEW d, RegularDate(d), d.year < 9999, NEW e, RegularEntry(e)
  PROVE  EntryMeans(e, d) <=> matches_calendar_entry(e, d)
<1>1. CASE e.kind = "date"
  <2>1. matches_calendar_entry(e, d) = matches_bacnet_date(e, d)
    BY <1>1 DEF matches_calendar_entry
  <2>. QED  BY <1>1, <2>1, DateMeans
<1>2. CASE e.kind = "range" /\ RegularBound(e.from) /\ RegularBound(e.to)
  <2>1. matches_calendar_entry(e, d) = matches_date_range(e, d)
    BY <1>2 DEF matches_calendar_entry
  <2>. QED  BY <1>2, <2>1, RangeMeans
<1>3. CASE e.kind = "week_n_day" /\ e.week \in Nat
  <2>1. matches_calendar_entry(e, d) = matches_week_n_day(e, d)
    BY <1>3 DEF matches_calendar_entry
  <2>. QED  BY <1>3, <2>1, WeekMeans
<1>. QED  BY <1>1, <1>2, <1>3 DEF RegularEntry

-----------------------------------------------------------------------------
(* The schedule at work.                                                   *)

IsSlot(s) ==
  /\ s = [value |-> s.value, exists |-> s.exists, accepts |-> s.accepts]
  /\ s.exists \in BOOLEAN /\ s.accepts \in BOOLEAN
  /\ ~s.exists => s.value = UNSET

SeasonOK ==
  /\ season \in Seasons /\ plan \in season.plans /\ daytime \in TimesOfDay
  /\ RegularDate(date) /\ days \in 0 .. season.last_day /\ date.year <= season.start.year + days
  /\ cal_pv \in BOOLEAN /\ s_engine \in {"running", "stopped", "failed"}

\* What is remembered is what the targets hold that are not behind.
TargetsOK ==
  /\ DOMAIN slots = ScheduleTargets /\ \A t \in ScheduleTargets : IsSlot(slots[t])
  /\ behind \subseteq ScheduleTargets
  /\ last_value = <<>> \/ \E v : last_value = <<v>>
  /\ last_value # <<>> =>
       \A t \in ScheduleTargets \ behind : slots[t].exists => slots[t].value = last_value[1]

\* After a cycle everything is as it was evaluated, and that is remembered.
CycleOK ==
  /\ resolved \in BOOLEAN
  /\ resolved => /\ cal_pv = CalendarNow
                 /\ sched_pv = evaluate_schedule(plan, date, daytime, CalendarNow)
                 /\ last_value = <<sched_pv>>

ScheduleOK == SeasonOK /\ TargetsOK /\ CycleOK

LEMMA InitScheduled ==
  ASSUME RegularSeasons, ScheduleInit PROVE ScheduleOK
<1>1. season \in Seasons /\ RegularDate(season.start) /\ season.last_day \in Nat
  BY DEF ScheduleInit, RegularSeasons
<1>2. SeasonOK
  <2>1. date = season.start /\ days = 0 /\ date.year \in Nat
    BY <1>1 DEF ScheduleInit, RegularDate
  <2>2. daytime \in TimesOfDay /\ plan \in season.plans
    BY ScheduleAssumption DEF ScheduleInit
  <2>3. cal_pv \in BOOLEAN /\ s_engine \in {"running", "stopped", "failed"}
    BY Zenon DEF ScheduleInit
  <2>. QED  BY <1>1, <2>1, <2>2, <2>3 DEF SeasonOK
<1>3. TargetsOK
  BY Zenon DEF ScheduleInit, TargetsOK, IsSlot
<1>4. CycleOK
  BY Zenon DEF ScheduleInit, CycleOK
<1>. QED  BY <1>2, <1>3, <1>4 DEF ScheduleOK

LEMMA LaterKeepsSeason ==
  ASSUME RegularSeasons, SeasonOK, Later PROVE SeasonOK'
<1>1. /\ season \in Seasons /\ RegularDate(season.start) /\ season.last_day \in Nat
      /\ season.start.year \in Nat
  BY DEF SeasonOK, RegularSeasons, RegularDate
<1>2. UNCHANGED <<season, plan, cal_pv, s_engine>>
  BY DEF Later
<1>3. CASE daytime + 1 \in TimesOfDay /\ daytime' = daytime + 1 /\ UNCHANGED <<date, days>>
  BY <1>2, <1>3 DEF SeasonOK
<1>4. CASE /\ daytime + 1 \notin TimesOfDay /\ days < season.last_day
           /\ daytime' = 0 /\ date' = NextDate(date) /\ days' = days + 1
  <2>1. RegularDate(date') /\ date'.year \in {date.year, date.year + 1}
    BY <1>4, NextDateIs DEF SeasonOK
  <2>2. days' \in 0 .. season.last_day /\ daytime' \in TimesOfDay
    BY <1>1, <1>4, ScheduleAssumption DEF SeasonOK
  <2>3. date'.year <= season.start.year + days'
    <3>1. date.year \in Nat /\ days \in Nat /\ date.year <= season.start.year + days
      BY <1>1 DEF SeasonOK, RegularDate
    <3>. QED  BY <1>1, <1>4, <2>1, <3>1
  <2>. QED  BY <1>2, <2>1, <2>2, <2>3 DEF SeasonOK
<1>. QED  BY <1>3, <1>4 DEF Later

\* A cycle leaves the value of the day and the time in the targets that take it.
LEMMA CycleKeepsTargets ==
  ASSUME TargetsOK, CycleSchedule
  PROVE  TargetsOK' /\ last_value' = <<sched_pv'>>
<1>1. PICK v : v = evaluate_schedule(plan, date, daytime, CalendarNow)
  OBVIOUS
<1>2. sched_pv' = v
  BY <1>1 DEF CycleSchedule
<1>3. CASE last_value # <<v>>
  <2>1. /\ last_value' = <<v>>
        /\ slots' = [t \in ScheduleTargets |->
                       IF t \in Written THEN [slots[t] EXCEPT !.value = v] ELSE slots[t]]
        /\ behind' = {t \in ScheduleTargets :
                        t \notin {plan.targets[i] : i \in DOMAIN plan.targets} \/ ~Takes(t)}
    BY <1>1, <1>3 DEF CycleSchedule, NewValue
  <2>2. ASSUME NEW t \in ScheduleTargets PROVE IsSlot(slots'[t])
    <3>1. IsSlot(slots[t])
      BY DEF TargetsOK
    <3>2. CASE t \in Written
      <4>1. slots'[t] = [slots[t] EXCEPT !.value = v] /\ slots[t].exists
        BY <2>1, <3>2 DEF Written, Takes
      <4>. QED  BY <3>1, <4>1, Zenon DEF IsSlot
    <3>3. CASE t \notin Written
      BY <2>1, <3>1, <3>3
    <3>. QED  BY <3>2, <3>3
  <2>3. ASSUME NEW t \in ScheduleTargets \ behind' PROVE slots'[t].value = v
    <3>1. t \in Written
      BY <2>1 DEF Written
    <3>2. slots'[t] = [slots[t] EXCEPT !.value = v] /\ IsSlot(slots[t])
      BY <2>1, <3>1 DEF TargetsOK
    <3>. QED  BY <3>2 DEF IsSlot
  <2>4. last_value'[1] = v
    BY <2>1
  <2>5. behind' \subseteq ScheduleTargets /\ DOMAIN slots' = ScheduleTargets
    BY <2>1
  <2>. QED  BY <1>2, <2>1, <2>2, <2>3, <2>4, <2>5 DEF TargetsOK
<1>4. CASE last_value = <<v>>
  <2>1. UNCHANGED <<last_value, slots, behind>>
    BY <1>1, <1>4 DEF CycleSchedule, NewValue
  <2>. QED  BY <1>2, <1>4, <2>1 DEF TargetsOK
<1>. QED  BY <1>3, <1>4

LEMMA MeddleKeepsTargets ==
  ASSUME TargetsOK, NEW t \in ScheduleTargets, Meddle(t) PROVE TargetsOK'
<1>1. UNCHANGED last_value /\ IsSlot(slots[t])
  BY DEF Meddle, TargetsOK
<1>2. CASE \E v \in Commands \cup {UNSET} :
             slots[t].exists /\ slots' = [slots EXCEPT ![t].value = v] /\ behind' = behind \cup {t}
  <2>1. PICK v : /\ slots[t].exists /\ slots' = [slots EXCEPT ![t].value = v]
                 /\ behind' = behind \cup {t}
    BY <1>2, Zenon
  <2>2. IsSlot(slots'[t])
    BY <1>1, <2>1 DEF IsSlot, TargetsOK
  <2>. QED  BY <1>1, <2>1, <2>2 DEF TargetsOK
<1>3. CASE slots' = [slots EXCEPT ![t].accepts = ~@] /\ behind' = behind
  <2>1. IsSlot(slots'[t]) /\ slots'[t].exists = slots[t].exists /\ slots'[t].value = slots[t].value
    BY <1>1, <1>3 DEF IsSlot, TargetsOK
  <2>. QED  BY <1>1, <1>3, <2>1 DEF TargetsOK
<1>4. CASE /\ slots' = [slots EXCEPT ![t].exists = ~@, ![t].value = UNSET]
           /\ behind' = behind \cup {t}
  <2>1. IsSlot(slots'[t])
    BY <1>1, <1>4, Zenon DEF IsSlot, TargetsOK
  <2>. QED  BY <1>1, <1>4, <2>1 DEF TargetsOK
<1>. QED  BY <1>2, <1>3, <1>4 DEF Meddle

LEMMA StepScheduled ==
  ASSUME RegularSeasons, ScheduleOK, ScheduleNext \/ UNCHANGED schedule_vars
  PROVE  ScheduleOK'
<1>. SeasonOK /\ TargetsOK /\ CycleOK
  BY DEF ScheduleOK
<1>1. CASE Later
  <2>1. SeasonOK'
    BY <1>1, LaterKeepsSeason
  <2>2. TargetsOK'
    BY <1>1 DEF Later, TargetsOK
  <2>3. CycleOK'
    BY <1>1, Zenon DEF Later, CycleOK
  <2>. QED  BY <2>1, <2>2, <2>3 DEF ScheduleOK
<1>2. CASE CycleSchedule
  <2>1. /\ cal_pv' = CalendarNow /\ resolved' = TRUE
        /\ UNCHANGED <<season, plan, date, daytime, days, s_engine>>
    BY <1>2 DEF CycleSchedule
  <2>2. CalendarNow \in BOOLEAN /\ CalendarNow' = CalendarNow
    BY <2>1 DEF CalendarNow, calendar_evaluate
  <2>3. SeasonOK'
    BY <2>1, <2>2 DEF SeasonOK
  <2>4. TargetsOK' /\ last_value' = <<sched_pv'>>
    BY <1>2, CycleKeepsTargets
  <2>5. sched_pv' = evaluate_schedule(plan, date, daytime, CalendarNow)
    BY <1>2 DEF CycleSchedule
  <2>6. CycleOK'
    BY <2>1, <2>2, <2>4, <2>5 DEF CycleOK
  <2>. QED  BY <2>3, <2>4, <2>6 DEF ScheduleOK
<1>3. CASE CycleScheduleFails
  <2>1. CalendarNow \in BOOLEAN
    BY DEF CalendarNow, calendar_evaluate
  <2>2. SeasonOK'
    BY <1>3, <2>1 DEF CycleScheduleFails, SeasonOK
  <2>3. TargetsOK' /\ CycleOK'
    BY <1>3, Zenon DEF CycleScheduleFails, TargetsOK, CycleOK
  <2>. QED  BY <2>2, <2>3 DEF ScheduleOK
<1>4. CASE StopSchedule
  <2>1. SeasonOK' /\ CycleOK'
    BY <1>4, Zenon DEF StopSchedule, SeasonOK, CycleOK
  <2>2. TargetsOK'
    BY <1>4 DEF StopSchedule, TargetsOK
  <2>. QED  BY <2>1, <2>2 DEF ScheduleOK
<1>5. CASE StartSchedule
  BY <1>5, Zenon DEF StartSchedule, SeasonOK, TargetsOK, CycleOK, ScheduleOK
<1>6. CASE WritePlan
  <2>1. SeasonOK' /\ CycleOK'
    BY <1>6, Zenon DEF WritePlan, SeasonOK, CycleOK
  <2>2. TargetsOK'
    BY <1>6 DEF WritePlan, TargetsOK
  <2>. QED  BY <2>1, <2>2 DEF ScheduleOK
<1>7. CASE \E t \in ScheduleTargets : Meddle(t)
  <2>1. PICK t \in ScheduleTargets : Meddle(t)
    BY <1>7
  <2>2. SeasonOK' /\ CycleOK'
    BY <2>1, Zenon DEF Meddle, SeasonOK, CycleOK
  <2>. QED  BY <2>1, <2>2, MeddleKeepsTargets DEF ScheduleOK
<1>8. CASE UNCHANGED schedule_vars
  <2>1. CalendarNow' = CalendarNow
    BY <1>8 DEF schedule_vars, CalendarNow
  <2>2. SeasonOK' /\ TargetsOK'
    BY <1>8 DEF schedule_vars, SeasonOK, TargetsOK
  <2>3. CycleOK'
    BY <1>8, <2>1 DEF schedule_vars, CycleOK
  <2>. QED  BY <2>2, <2>3 DEF ScheduleOK
<1>. QED  BY <1>1, <1>2, <1>3, <1>4, <1>5, <1>6, <1>7, <1>8 DEF ScheduleNext

LEMMA ScheduledDay ==
  ASSUME RegularSeasons, SeasonOK
  PROVE  /\ RegularDate(date) /\ date.year < 9999 /\ daytime \in Nat /\ RegularPlan(plan)
         /\ \A e \in CalendarEntries : RegularEntry(e)
<1>1. /\ season \in Seasons /\ season.last_day \in Nat /\ season.start.year \in Nat
      /\ season.start.year + season.last_day < 9999
  BY DEF SeasonOK, RegularSeasons, RegularDate
<1>2. date.year \in Nat /\ days \in 0 .. season.last_day /\ date.year <= season.start.year + days
  BY DEF SeasonOK, RegularDate
<1>3. date.year < 9999
  BY <1>1, <1>2
<1>4. RegularPlan(plan) /\ RegularDate(date)
  BY <1>1 DEF SeasonOK, RegularSeasons
<1>5. daytime \in Nat
  BY ScheduleAssumption DEF SeasonOK
<1>. QED  BY <1>3, <1>4, <1>5 DEF RegularSeasons

LEMMA CalendarMeans ==
  ASSUME RegularSeasons, SeasonOK
  PROVE  CalendarNow = (\E e \in CalendarEntries : EntryMeans(e, date))
<1>1. /\ RegularDate(date) /\ date.year < 9999 /\ \A e \in CalendarEntries : RegularEntry(e)
  BY ScheduledDay
<1>2. \A e \in CalendarEntries : EntryMeans(e, date) <=> matches_calendar_entry(e, date)
  BY <1>1, EntryMeansMatch
<1>. QED  BY <1>2 DEF CalendarNow, calendar_evaluate

\* The exceptions that mean today are those that hold for the code.
LEMMA ActiveHold ==
  ASSUME RegularSeasons, SeasonOK
  PROVE  Active = Holding(plan.exceptions, Len(plan.exceptions), date, daytime, CalendarNow)
<1>1. RegularDate(date) /\ date.year < 9999 /\ RegularPlan(plan)
  BY ScheduledDay
<1>2. ASSUME NEW i \in DOMAIN plan.exceptions
      PROVE  ExceptionApplies(plan.exceptions[i], date, CalendarNow)
               <=> IF plan.exceptions[i].period.kind = "calendar"
                   THEN \E e \in CalendarEntries : EntryMeans(e, date)
                   ELSE EntryMeans(plan.exceptions[i].period, date)
  <2>1. PICK period : period = plan.exceptions[i].period
    OBVIOUS
  <2>2. period.kind = "calendar" \/ RegularEntry(period)
    BY <1>1, <2>1 DEF RegularPlan, RegularException
  <2>3. CASE period.kind = "calendar"
    BY <2>1, <2>3, CalendarMeans DEF ExceptionApplies
  <2>4. CASE period.kind # "calendar"
    <3>1. EntryMeans(period, date) <=> matches_calendar_entry(period, date)
      BY <1>1, <2>2, <2>4, EntryMeansMatch
    <3>. QED  BY <2>1, <2>4, <3>1 DEF ExceptionApplies
  <2>. QED  BY <2>3, <2>4
<1>3. DOMAIN plan.exceptions = 1 .. Len(plan.exceptions)
  BY <1>1 DEF RegularPlan
<1>. QED  BY <1>2, <1>3 DEF Active, Holding, HasValue

LEMMA HighestInForce ==
  ASSUME RegularSeasons, SeasonOK, CycleOK, resolved
  PROVE  HighestExceptionInForce
<1>. DEFINE excs == plan.exceptions
            week == plan.weekly[date.dow]
            effective == EntryMeans(plan.effective, date)
            exceptional == resolve_exception_schedule(excs, date, daytime, CalendarNow)
            weekly == resolve_time_values(week, daytime)
<1>1. RegularDate(date) /\ date.year < 9999 /\ daytime \in Nat /\ RegularPlan(plan)
  BY ScheduledDay
<1>2. effective <=> matches_date_range(plan.effective, date)
  BY <1>1, RangeMeans DEF RegularPlan, RegularEntry
<1>3. sched_pv = LET within == matches_date_range(plan.effective, date)
                 IN CASE ~within -> plan.default
                      [] within /\ exceptional # <<>> -> exceptional[1]
                      [] within /\ exceptional = <<>> /\ weekly # <<>> -> weekly[1]
                      [] OTHER -> plan.default
  BY DEF CycleOK, evaluate_schedule
<1>4. /\ ~effective => sched_pv = plan.default
      /\ effective /\ exceptional # <<>> => sched_pv = exceptional[1]
      /\ effective /\ exceptional = <<>> /\ weekly # <<>> => sched_pv = weekly[1]
      /\ effective /\ exceptional = <<>> /\ weekly = <<>> => sched_pv = plan.default
  BY <1>2, <1>3
<1>5. \/ exceptional = <<>> /\ Active = {}
      \/ \E i \in Active : exceptional = resolve_time_values(excs[i].values, daytime)
                           /\ Highest(excs, Active, i)
  <2>1. \A i \in 1 .. Len(excs) : excs[i].priority \in 1 .. 16
    BY <1>1 DEF RegularPlan, RegularException
  <2>2. Len(excs) \in Nat
    BY <1>1 DEF RegularPlan
  <2>. HIDE DEF excs
  <2>3. Active = Holding(excs, Len(excs), date, daytime, CalendarNow)
    BY ActiveHold DEF excs
  <2>. QED  BY <2>1, <2>2, <2>3, ExceptionIs
<1>6. \/ weekly = <<>> /\ Past(week) = {}
      \/ \E i \in Past(week) : weekly = <<week[i].value>> /\ Latest(week, Past(week), i)
  <2>1. RegularValues(week)
    BY <1>1 DEF RegularPlan, RegularDate
  <2>. HIDE DEF week
  <2>2. Past(week) = Now(week, Len(week), daytime)
    BY <2>1 DEF Past, Now, RegularValues
  <2>. QED  BY <1>1, <2>1, <2>2, TimeValueIs
<1>7. \A i \in Active : resolve_time_values(excs[i].values, daytime) # <<>>
  BY DEF Active
<1>8. \A i \in Active : i \in Nat /\ excs[i].priority \in 1 .. 16
  BY <1>1 DEF Active, RegularPlan, RegularException
<1>9. \A i \in Past(week) : i \in Nat /\ TimeOf(week[i]) \in Nat
  <2>1. RegularValues(week)
    BY <1>1 DEF RegularPlan, RegularDate
  <2>. QED  BY <2>1 DEF Past, RegularValues, TimeOf
<1>10. HighestExceptionInForce <=>
    /\ effective => \A i \in Active :
         Highest(excs, Active, i) => sched_pv = resolve_time_values(excs[i].values, daytime)[1]
    /\ effective /\ Active = {} =>
         \A i \in Past(week) : Latest(week, Past(week), i) => sched_pv = week[i].value
    /\ (effective => Active = {} /\ Past(week) = {}) => sched_pv = plan.default
  BY DEF HighestExceptionInForce, Highest, Latest
<1>. HIDE DEF effective, exceptional, weekly, week, excs
<1>11. ASSUME effective, NEW i \in Active, Highest(excs, Active, i)
       PROVE  sched_pv = resolve_time_values(excs[i].values, daytime)[1]
  <2>1. PICK j \in Active : exceptional = resolve_time_values(excs[j].values, daytime)
                              /\ Highest(excs, Active, j)
    BY <1>5
  <2>2. i = j
    BY <1>8, <1>11, <2>1 DEF Highest
  <2>. QED  BY <1>4, <1>7, <1>11, <2>1, <2>2
<1>12. ASSUME effective, Active = {}, NEW i \in Past(week), Latest(week, Past(week), i)
       PROVE  sched_pv = week[i].value
  <2>1. PICK j \in Past(week) : weekly = <<week[j].value>> /\ Latest(week, Past(week), j)
    BY <1>6
  <2>2. i = j
    BY <1>9, <1>12, <2>1 DEF Latest
  <2>3. exceptional = <<>> /\ weekly # <<>> /\ weekly[1] = week[j].value
    BY <1>5, <1>12, <2>1
  <2>. QED  BY <1>4, <1>12, <2>2, <2>3
<1>13. ASSUME effective => Active = {} /\ Past(week) = {} PROVE sched_pv = plan.default
  BY <1>4, <1>5, <1>6, <1>13
<1>. QED  BY <1>10, <1>11, <1>12, <1>13

LEMMA ScheduledInForce ==
  ASSUME RegularSeasons, ScheduleOK PROVE ValueInForce
<1>. SeasonOK /\ TargetsOK /\ CycleOK
  BY DEF ScheduleOK
<1>1. ScheduleTypeOK
  <2>1. date.month \in 1 .. 12 /\ date.day \in 1 .. LastDay(date) /\ date.dow \in 1 .. 7
    <3>1. /\ date.month \in 1 .. 12 /\ date.dow \in 1 .. 7
          /\ date.day \in 1 .. 31 /\ date.day <= LastDay(date)
      BY DEF SeasonOK, RegularDate
    <3>. QED  BY <3>1, LastDayIs
  <2>2. Len(last_value) <= 1
    <3>1. CASE last_value = <<>>
      BY <3>1
    <3>2. CASE \E v : last_value = <<v>>
      BY <3>2
    <3>. QED  BY <3>1, <3>2 DEF TargetsOK
  <2>3. \A t \in ScheduleTargets : ~slots[t].exists => slots[t].value = UNSET
    BY DEF TargetsOK, IsSlot
  <2>. QED  BY <2>1, <2>2, <2>3 DEF ScheduleTypeOK, SeasonOK, TargetsOK
<1>2. CalendarMeansToday
  BY CalendarMeans DEF CalendarMeansToday, CycleOK
<1>3. HighestExceptionInForce
  <2>1. CASE resolved
    BY <2>1, HighestInForce
  <2>2. CASE ~resolved
    BY <2>2 DEF HighestExceptionInForce
  <2>. QED  BY <2>1, <2>2
<1>4. TargetsFollow
  <2>. SUFFICES ASSUME resolved, NEW t \in ScheduleTargets \ behind, slots[t].exists
                PROVE  slots[t].value = sched_pv
    BY DEF TargetsFollow
  <2>1. last_value = <<sched_pv>>
    BY DEF CycleOK
  <2>2. last_value # <<>> /\ last_value[1] = sched_pv
    BY <2>1
  <2>. QED  BY <2>2 DEF TargetsOK
<1>. QED  BY <1>1, <1>2, <1>3, <1>4 DEF ValueInForce

\* After a cycle of the schedule engine the Calendar, the Schedule and the
\* targets that take its writes have the values of the day and the time
\* (CalendarObject.evaluate, _resolve_exception_schedule,
\* _resolve_time_values, _apply_value).
THEOREM ValueInForceTheorem ==
  ASSUME RegularSeasons PROVE EnginesSpec => []ValueInForce
<1>1. EnginesSpec => EnginesInit /\ [][EnginesNext]_engines_vars
  BY PTL DEF EnginesSpec
<1>2. EnginesInit => ScheduleOK
  BY InitScheduled DEF EnginesInit
<1>3. ScheduleOK /\ [EnginesNext]_engines_vars => ScheduleOK'
  <2>1. [EnginesNext]_engines_vars => ScheduleNext \/ UNCHANGED schedule_vars
    BY DEF EnginesNext, EventPart, TrendPart, SchedulePart, AuditPart, Maintained, engines_vars
  <2>. QED  BY <2>1, StepScheduled
<1>4. ScheduleOK => ValueInForce
  BY ScheduledInForce
<1>. QED  BY <1>1, <1>2, <1>3, <1>4, PTL

-----------------------------------------------------------------------------
(* The buffer of a trend log.                                              *)

Logs ==
  [enabled : BOOLEAN, open : BOOLEAN, type : {"polled", "triggered", "cov"},
   target : Targets \cup {NO_TARGET}, trigger : BOOLEAN, align : BOOLEAN, size : Nat,
   stop_when_full : BOOLEAN, buffer : Seq(Records), count : Nat, total : Nat]

LogInv(l) == l \in Logs

LogFold == INSTANCE OperatorFacts WITH SeqSpace <- 1, MaxReassembly <- 1,
  Op <- append_record, Inv <- LogInv, Elements <- Records

LEMMA RecordIs ==
  ASSUME NEW n, NEW r, Record(r, n)
  PROVE  /\ log' = LogFold!Fold(log, [i \in 1 .. n |-> r])
         /\ recorded' = recorded \o [i \in 1 .. log'.total - log.total |-> r]
<1>1. FoldLeft(append_record, log, [i \in 1 .. n |-> r])
        = LogFold!Fold(log, [i \in 1 .. n |-> r])
  BY DEF LogFold!Fold, LogFold!FoldLeft, LogFold!MapThenFoldSet, FoldLeft,
         MapThenFoldSet, LogFold!Max, Max
<1>2. log' = FoldLeft(append_record, log, [i \in 1 .. n |-> r])
  BY DEF Record
<1>3. recorded' = recorded \o [i \in 1 .. log'.total - log.total |-> r]
  BY <1>2 DEF Record
<1>. QED  BY <1>1, <1>2, <1>3

\* The last of the records of rec, and one more.
LEMMA AppendToLatest ==
  ASSUME NEW S, NEW rec \in Seq(S), NEW start \in 1 .. Len(rec) + 1, NEW r \in S
  PROVE  Append(SubSeq(rec, start, Len(rec)), r)
           = SubSeq(Append(rec, r), start, Len(Append(rec, r)))
<1>1. /\ Append(rec, r) \in Seq(S) /\ Len(Append(rec, r)) = Len(rec) + 1 /\ Len(rec) \in Nat
      /\ Append(rec, r)[Len(rec) + 1] = r
      /\ \A i \in 1 .. Len(rec) : Append(rec, r)[i] = rec[i]
  OBVIOUS
<1>2. PICK new : new = Append(rec, r)
  BY Zenon
<1>3. SubSeq(new, start, Len(new)) = SubSeq(new, start, Len(rec)) \o <<r>>
  <2>1. start \in 1 .. Len(new) /\ Len(new) \in start .. Len(new) /\ new \in Seq(S)
    BY <1>1, <1>2
  <2>2. SubSeq(new, start, Len(new)) = SubSeq(new, start, Len(new) - 1) \o << new[Len(new)] >>
    BY <2>1, SubSeqRecursiveSecond
  <2>3. Len(new) - 1 = Len(rec) /\ new[Len(new)] = r
    BY <1>1, <1>2
  <2>. QED  BY <2>2, <2>3, Zenon
<1>4. SubSeq(new, start, Len(rec)) = SubSeq(rec, start, Len(rec))
  <2>1. \A i \in start .. Len(rec) : new[i] = rec[i] /\ rec[i] \in S
    BY <1>1, <1>2
  <2>2. /\ SubSeq(new, start, Len(rec)) \in Seq(S) /\ SubSeq(rec, start, Len(rec)) \in Seq(S)
        /\ Len(SubSeq(new, start, Len(rec))) = Len(SubSeq(rec, start, Len(rec)))
        /\ Len(SubSeq(rec, start, Len(rec))) = IF start <= Len(rec) THEN Len(rec) - start + 1 ELSE 0
        /\ \A i \in 1 .. Len(rec) - start + 1 :
             /\ SubSeq(new, start, Len(rec))[i] = new[start + i - 1]
             /\ SubSeq(rec, start, Len(rec))[i] = rec[start + i - 1]
    BY <1>1, <2>1, SubSeqProperties
  <2>3. \A i \in 1 .. Len(rec) - start + 1 : start + i - 1 \in start .. Len(rec)
    BY <1>1
  <2>4. \A i \in 1 .. Len(rec) - start + 1 :
          SubSeq(new, start, Len(rec))[i] = SubSeq(rec, start, Len(rec))[i]
    BY <2>1, <2>2, <2>3
  <2>5. 1 .. Len(SubSeq(rec, start, Len(rec))) \subseteq 1 .. Len(rec) - start + 1
    BY <1>1, <2>2
  <2>. QED  BY <2>2, <2>4, <2>5, SeqEqual, Zenon
<1>5. SubSeq(rec, start, Len(rec)) \in Seq(S)
  BY <1>1, SubSeqProperties
<1>. QED  BY <1>2, <1>3, <1>4, <1>5, AppendIsConcat

\* The log l when rec are the records it has taken.
Exact(l, rec) ==
  /\ l \in Logs /\ rec \in Seq(Records)
  /\ \E start \in 1 .. Len(rec) + 1 : l.buffer = SubSeq(rec, start, Len(rec))
  /\ l.count = Len(l.buffer) /\ l.total = Len(rec)
  /\ l.stop_when_full => l.buffer = rec

\* What is written of a log, and not what is recorded in it.
SameProperties(k, l) ==
  /\ k.enabled = l.enabled /\ k.open = l.open /\ k.type = l.type /\ k.target = l.target
  /\ k.trigger = l.trigger /\ k.align = l.align /\ k.size = l.size
  /\ k.stop_when_full = l.stop_when_full

LEMMA AppendIsExact ==
  ASSUME NEW l, NEW rec, Exact(l, rec), NEW r \in Records,
         NEW k, k = append_record(l, r)
  PROVE  /\ SameProperties(k, l)
         /\ Taken(l) => Exact(k, Append(rec, r))
         /\ ~Taken(l) => k = l
<1>1. ~Taken(l) => k = l
  BY DEF Taken, append_record
<1>2. CASE Taken(l)
  <2>1. PICK cut : cut = IF Full(l) THEN Room(l) ELSE l.buffer
    OBVIOUS
  <2>2. PICK b : b = Append(cut, r)
    BY Zenon
  <2>3. k = [l EXCEPT !.buffer = b, !.count = Len(b), !.total = @ + 1]
    BY <1>2, <2>1, <2>2 DEF Taken, append_record
  <2>4. /\ l \in Logs /\ rec \in Seq(Records) /\ Len(rec) \in Nat /\ l.total = Len(rec)
        /\ l.stop_when_full => l.buffer = rec
    BY DEF Exact
  <2>5. PICK start \in 1 .. Len(rec) + 1 : cut = SubSeq(rec, start, Len(rec))
    <3>1. PICK first \in 1 .. Len(rec) + 1 : l.buffer = SubSeq(rec, first, Len(rec))
      BY DEF Exact
    <3>2. CASE Full(l)
      <4>1. l.buffer # <<>>
        <5>1. l.size > 0 /\ Len(l.buffer) >= l.size /\ l.size \in Nat
          BY <2>4, <3>2 DEF Full, Logs
        <5>2. Len(<<>>) = 0
          OBVIOUS
        <5>. QED  BY <5>1, <5>2
      <4>2. first <= Len(rec)
        BY <2>4, <3>1, <4>1, SubSeqEmpty
      <4>3. Tail(SubSeq(rec, first, Len(rec))) = SubSeq(rec, first + 1, Len(rec))
        BY <2>4, <3>1, <4>2, HeadTailOfSubSeq
      <4>4. cut = SubSeq(rec, first + 1, Len(rec))
        BY <2>1, <3>1, <3>2, <4>3 DEF Room
      <4>5. first + 1 \in 1 .. Len(rec) + 1
        BY <2>4, <4>2
      <4>. QED  BY <4>4, <4>5, Zenon
    <3>3. CASE ~Full(l)
      BY <2>1, <3>1, <3>3
    <3>. QED  BY <3>2, <3>3
  <2>6. PICK new : new = Append(rec, r)
    BY Zenon
  <2>7. new \in Seq(Records) /\ Len(new) = Len(rec) + 1
    BY <2>4, <2>6
  <2>8. b = SubSeq(new, start, Len(new)) /\ start \in 1 .. Len(new) + 1
    BY <2>2, <2>4, <2>5, <2>6, <2>7, AppendToLatest
  <2>9. b \in Seq(Records) /\ Len(b) \in Nat
    BY <2>4, <2>7, <2>8, SubSeqProperties, ElementOfSeq
  <2>10. /\ k \in Logs /\ SameProperties(k, l) /\ k.buffer = b /\ k.count = Len(b)
         /\ k.total = l.total + 1
    <3>1. PICK n \in Nat : n = Len(b)
      BY <2>9
    <3>2. l.total + 1 \in Nat
      BY <2>4
    <3>3. k = [l EXCEPT !.buffer = b, !.count = n, !.total = @ + 1]
      BY <2>3, <3>1
    <3>4. /\ k \in Logs /\ k.buffer = b /\ k.count = n /\ k.total = l.total + 1
          /\ k.enabled = l.enabled /\ k.open = l.open /\ k.type = l.type /\ k.target = l.target
          /\ k.trigger = l.trigger /\ k.align = l.align /\ k.size = l.size
          /\ k.stop_when_full = l.stop_when_full
      BY <2>4, <2>9, <3>2, <3>3, Zenon DEF Logs
    <3>. QED  BY <3>1, <3>4 DEF SameProperties
  <2>11. l.stop_when_full => b = new
    BY <1>2, <2>1, <2>2, <2>4, <2>6 DEF Taken
  <2>12. Exact(k, new)
    BY <2>4, <2>7, <2>8, <2>10, <2>11 DEF Exact, SameProperties
  <2>. QED  BY <1>2, <2>6, <2>10, <2>12
<1>3. CASE ~Taken(l)
  BY <1>1, <1>3 DEF SameProperties
<1>. QED  BY <1>1, <1>2, <1>3

\* rec and k records more.
With(rec, r, k) == rec \o [i \in 1 .. k |-> r]

LEMMA OneMore ==
  ASSUME NEW S, NEW rec \in Seq(S), NEW r \in S, NEW k \in Nat
  PROVE  /\ With(rec, r, k) \in Seq(S) /\ Append(With(rec, r, k), r) = With(rec, r, k + 1)
         /\ Len(With(rec, r, k + 1)) = Len(With(rec, r, k)) + 1
<1>. DEFINE s == [i \in 1 .. k |-> r]
            t == [i \in 1 .. k + 1 |-> r]
<1>1. /\ s \in Seq(S) /\ Len(s) = k /\ \A i \in 1 .. k : s[i] = r
      /\ t \in Seq(S) /\ Len(t) = k + 1 /\ \A i \in 1 .. k + 1 : t[i] = r
  OBVIOUS
<1>. HIDE DEF s, t
<1>2. Append(s, r) = t
  <2>1. /\ Append(s, r) \in Seq(S) /\ Len(Append(s, r)) = k + 1
        /\ \A i \in 1 .. k + 1 : Append(s, r)[i] = r
    BY <1>1
  <2>. QED  BY <1>1, <2>1, SeqEqual
<1>3. rec \o s \in Seq(S)
  BY <1>1, ConcatProperties
<1>4. Append(rec \o s, r) = (rec \o s) \o <<r>>
  BY <1>3, AppendIsConcat
<1>5. (rec \o s) \o <<r>> = rec \o (s \o <<r>>)
  <2>1. PICK one \in Seq(S) : one = <<r>>
    <3>1. <<r>> \in Seq(S)
      OBVIOUS
    <3>. QED  BY <3>1, Zenon
  <2>2. PICK some \in Seq(S) : some = s
    BY <1>1
  <2>3. (rec \o some) \o one = rec \o (some \o one)
    BY ConcatAssociative, SMTT(30)
  <2>. QED  BY <2>1, <2>2, <2>3, Zenon
<1>6. s \o <<r>> = t
  BY <1>1, <1>2, AppendIsConcat
<1>7. Len(Append(rec \o s, r)) = Len(rec \o s) + 1
  BY <1>3, AppendProperties
<1>. QED  BY <1>3, <1>4, <1>5, <1>6, <1>7, Zenon DEF With, s, t

\* Several callbacks record one after the other.
LEMMA RecordIsExact ==
  ASSUME Exact(log, recorded), NEW r \in Records, NEW n \in Nat, Record(r, n)
  PROVE  Exact(log', recorded') /\ SameProperties(log', log)
<1>. DEFINE Some(l) == \E k \in Nat : /\ l.total = log.total + k /\ SameProperties(l, log)
                                      /\ Exact(l, With(recorded, r, k))
<1>1. PICK h : /\ h[0] = log /\ h[n] = LogFold!Fold(log, [i \in 1 .. n |-> r])
               /\ LogFold!Steps(h, [i \in 1 .. n |-> r], n)
  <2>1. PICK base : base = log
    OBVIOUS
  <2>2. PICK s : s = [i \in 1 .. n |-> r]
    BY Zenon
  <2>3. DOMAIN s = 1 .. n
    BY <2>2
  <2>4. \E h : h[0] = base /\ h[n] = LogFold!Fold(base, s) /\ LogFold!Steps(h, s, n)
    BY <2>3, LogFold!FoldIsIteration, SMTT(60)
  <2>. QED  BY <2>1, <2>2, <2>4
<1>2. /\ recorded \in Seq(Records) /\ log.total = Len(recorded) /\ log.total \in Nat
      /\ log \in Logs
  BY DEF Exact
<1>3. Some(log)
  <2>1. With(recorded, r, 0) = recorded
    <3>1. [i \in 1 .. 0 |-> r] = <<>>
      OBVIOUS
    <3>. QED  BY <1>2, <3>1, ConcatEmptySeq DEF With
  <2>2. log.total = log.total + 0 /\ SameProperties(log, log)
    BY <1>2 DEF SameProperties
  <2>. QED  BY <2>1, <2>2
<1>4. ASSUME NEW l, Some(l) PROVE Some(append_record(l, r))
  <2>1. PICK k \in Nat : /\ l.total = log.total + k /\ SameProperties(l, log)
                         /\ Exact(l, With(recorded, r, k))
    BY <1>4
  <2>2. PICK j : j = append_record(l, r)
    OBVIOUS
  <2>3. /\ SameProperties(j, l)
        /\ Taken(l) => Exact(j, With(recorded, r, k + 1))
        /\ ~Taken(l) => j = l
    <3>1. Append(With(recorded, r, k), r) = With(recorded, r, k + 1)
      BY <1>2, OneMore, Zenon
    <3>2. PICK rec : rec = With(recorded, r, k)
      OBVIOUS
    <3>. QED  BY <2>1, <2>2, <3>1, <3>2, AppendIsExact, Zenon
  <2>4. SameProperties(j, log)
    BY <2>1, <2>3 DEF SameProperties
  <2>5. Taken(l) => j.total = log.total + (k + 1) /\ k + 1 \in Nat
    <3>1. /\ Len(With(recorded, r, k)) = log.total + k
          /\ Len(With(recorded, r, k + 1)) = Len(With(recorded, r, k)) + 1
      BY <1>2, <2>1, OneMore, Zenon DEF Exact
    <3>. QED  BY <1>2, <2>3, <3>1 DEF Exact
  <2>. QED  BY <2>1, <2>2, <2>3, <2>4, <2>5
<1>. HIDE DEF Some
<1>5. Some(h[n])
  <2>. DEFINE Bad == { m \in 0 .. n : ~Some(h[m]) }
  <2>. SUFFICES ASSUME Bad # {} PROVE FALSE
    OBVIOUS
  <2>1. PICK m \in Bad : \A y \in Bad : m <= y
    <3>. Bad \in SUBSET Nat
      OBVIOUS
    <3>. HIDE DEF Bad
    <3>. QED  BY LogFold!LeastNat
  <2>2. m # 0
    BY <1>1, <1>3, <2>1
  <2>3. m \in 1 .. n /\ m - 1 \in 0 .. n /\ m - 1 \notin Bad
    BY <2>1, <2>2
  <2>4. Some(h[m - 1]) /\ h[m] = append_record(h[m - 1], r)
    BY <1>1, <2>3 DEF LogFold!Steps
  <2>. QED  BY <1>4, <2>1, <2>4
<1>6. log' = h[n] /\ recorded' = With(recorded, r, log'.total - log.total)
  BY <1>1, RecordIs, Zenon DEF With
<1>7. PICK k \in Nat : /\ log'.total = log.total + k /\ SameProperties(log', log)
                       /\ Exact(log', With(recorded, r, k))
  BY <1>5, <1>6 DEF Some
<1>8. log'.total - log.total = k
  BY <1>2, <1>7
<1>. QED  BY <1>6, <1>7, <1>8

LEMMA ValueRecorded ==
  ASSUME NEW l, Exact(l, recorded), RecordValue(l), NO_TARGET \notin Targets,
         \A t \in Targets : objects[t].pv \in Samples
  PROVE  Exact(log', recorded') /\ SameProperties(log', l)
<1>1. CASE l.target = NO_TARGET
  BY <1>1 DEF RecordValue, SameProperties
<1>2. CASE l.target # NO_TARGET
  <2>1. l.target \in Targets
    BY <1>2 DEF Exact, Logs
  <2>2. PICK r \in Records : r = [from |-> l.target, value |-> objects[l.target].pv]
    BY <2>1, Zenon DEF Records
  <2>3. /\ log' = append_record(l, r)
        /\ recorded' = IF Taken(l) THEN Append(recorded, r) ELSE recorded
    BY <1>2, <2>2 DEF RecordValue
  <2>. QED  BY <2>3, AppendIsExact
<1>. QED  BY <1>1, <1>2

-----------------------------------------------------------------------------
(* Times and slots.                                                        *)

LEMMA DivMod ==
  ASSUME NEW n \in Int, NEW d \in Nat \ {0}
  PROVE  /\ n \div d \in Int /\ n % d \in 0 .. d - 1 /\ n = d * (n \div d) + (n % d)
OBVIOUS

LEMMA DivOrder ==
  ASSUME NEW a \in Int, NEW b \in Int, NEW d \in Nat \ {0}
  PROVE  /\ a <= b => a \div d <= b \div d
         /\ a \div d = b \div d => b - a < d
         /\ a \div d <= 0 => a < d
         /\ a >= 0 => a \div d >= 0
OBVIOUS

LEMMA DivOfProduct ==
  ASSUME NEW d \in Nat \ {0}, NEW q \in Int
  PROVE  (d * q) \div d = q /\ d * q \in Int
OBVIOUS

LEMMA Q0 == ASSUME NEW d \in Nat \ {0}, NEW q \in Nat
  PROVE  q * d = d * q /\ d * q \in Nat
OBVIOUS

LEMMA DivMonotone ==
  ASSUME NEW a \in Int, NEW b \in Int, NEW d \in Nat \ {0}, a <= b
  PROVE  a \div d <= b \div d
OBVIOUS

LastMidnight(now, d) == (now \div d) * d

\* now and the last midnight, when a day has d ticks.
LEMMA DayFacts ==
  ASSUME NEW now \in Nat, NEW t \in Nat, t <= now, NEW d \in Nat \ {0}
  PROVE  /\ LastMidnight(now, d) \in Nat /\ now - LastMidnight(now, d) = now % d /\ now % d \in Nat
         /\ t >= LastMidnight(now, d) => t \div d = now \div d /\ t - LastMidnight(now, d) = t % d
<1>1. PICK q \in Int : q = now \div d
  BY DivMod
<1>2. PICK r \in Nat : r = now % d
  BY DivMod
<1>3. q \in Nat
  BY <1>1, DivOrder
<1>4. PICK m \in Nat : m = d * q
  BY <1>3, Q0
<1>5. m = LastMidnight(now, d)
  BY <1>1, <1>3, <1>4, Q0 DEF LastMidnight
<1>6. now = m + r
  BY <1>1, <1>2, <1>4, DivMod
<1>7. ASSUME t >= m PROVE t \div d = q /\ t - m = t % d
  <2>1. m \div d = q
    BY <1>4, DivOfProduct
  <2>2. PICK p \in Int : p = t \div d
    BY DivMod
  <2>3. q <= p
    BY <1>7, <2>1, <2>2, DivMonotone
  <2>4. p <= q
    BY <1>1, <2>2, DivMonotone
  <2>5. p = q
    BY <2>3, <2>4
  <2>6. PICK s \in Nat : s = t % d
    BY DivMod
  <2>7. t = d * p + s
    BY <2>2, <2>6, DivMod
  <2>8. t = m + s
    BY <1>4, <2>5, <2>7
  <2>9. t - m = s
    BY <2>8
  <2>. QED  BY <2>2, <2>5, <2>6, <2>9
<1>. QED  BY <1>1, <1>2, <1>5, <1>6, <1>7

LEMMA SameQuotient ==
  ASSUME NEW a \in Int, NEW b \in Int, NEW d \in Nat \ {0}, a \div d = b \div d
  PROVE  b - a < d
OBVIOUS

LEMMA NotYetOne ==
  ASSUME NEW a \in Int, NEW d \in Nat \ {0}, a \div d <= 0
  PROVE  a < d
OBVIOUS

\* int() of a quotient: toward zero.
Quotient(x, d) == IF x < 0 THEN -((-x) \div d) ELSE x \div d

\* Two times of which the later is in no later slot: they are in the same, or
\* both less than a slot from 0.
LEMMA NoLaterSlot ==
  ASSUME NEW then \in Int, NEW now \in Nat, then <= now, NEW d \in Nat \ {0}
  PROVE  \/ Quotient(now, d) > Quotient(then, d)
         \/ then >= 0 /\ then \div d = now \div d /\ now - then < d
         \/ then < 0 /\ -then < d /\ now < d
<1>1. PICK q \in Int : q = now \div d
  BY DivMod
<1>2. q = Quotient(now, d) /\ q \in Nat
  <2>1. ~(now < 0)
    OBVIOUS
  <2>. QED  BY <1>1, <2>1, DivOrder DEF Quotient
<1>5. ASSUME then < 0 PROVE (-then) \div d \in Nat
  <2>1. PICK n \in Nat : n = -then
    BY <1>5
  <2>2. n \div d \in Nat
    <3>1. n \div d \in Int /\ n \div d >= 0
      BY DivMod, DivOrder
    <3>. QED  BY <3>1
  <2>. QED  BY <2>1, <2>2
<1>. SUFFICES ASSUME ~(Quotient(now, d) > Quotient(then, d))
              PROVE  \/ then >= 0 /\ then \div d = now \div d /\ now - then < d
                     \/ then < 0 /\ -then < d /\ now < d
  OBVIOUS
<1>3. CASE then >= 0
  <2>1. PICK p \in Int : p = then \div d
    BY DivMod, Zenon
  <2>2. p = Quotient(then, d)
    BY <1>3, <2>1 DEF Quotient
  <2>3. p <= q
    BY <1>1, <2>1, DivMonotone
  <2>4. p = q
    BY <1>2, <2>2, <2>3
  <2>. QED  BY <1>1, <1>3, <2>1, <2>4, SameQuotient
<1>4. CASE then < 0
  <2>1. PICK n \in Nat : n = -then
    BY <1>4
  <2>2. PICK p \in Nat : p = n \div d
    BY <1>4, <1>5, <2>1
  <2>3. Quotient(then, d) = -p
    BY <1>4, <2>1, <2>2 DEF Quotient
  <2>4. q <= 0 /\ p <= 0
    BY <1>2, <2>3
  <2>5. now < d
    BY <1>1, <2>4, NotYetOne
  <2>6. n < d
    BY <2>2, <2>4, NotYetOne
  <2>. QED  BY <1>4, <2>1, <2>5, <2>6
<1>. QED  BY <1>3, <1>4

LEMMA MidnightFact ==
  ASSUME ticks \in Nat, NEW t \in Nat, t <= ticks
  PROVE  /\ Midnight \in Nat /\ ticks - Midnight = ticks % DayLength /\ ticks % DayLength \in Nat
         /\ t >= Midnight => /\ t \div DayLength = ticks \div DayLength
                             /\ t - Midnight = t % DayLength
<1>1. Midnight = LastMidnight(ticks, DayLength)
  BY DEF Midnight, LastMidnight
<1>2. DayLength \in Nat \ {0}
  BY TrendAssumption
<1>. QED  BY <1>1, <1>2, DayFacts, Zenon

\* A poll that is not due is not needed: its slot has had one, but for the
\* first slot of a day.
LEMMA NotDue ==
  ASSUME ticks \in Nat, last_poll \in 0 .. ticks, ~AlignedDue
  PROVE  \/ Slot(last_poll) = Slot(ticks)
         \/ /\ last_poll < Midnight /\ Midnight - last_poll < LogInterval + IntervalOffset
            /\ ticks - Midnight < LogInterval
<1>1. PICK d \in Nat \ {0} : d = LogInterval
  BY TrendAssumption
<1>2. PICK off \in Nat : off = IntervalOffset
  BY TrendAssumption
<1>3. PICK p \in Nat : p = last_poll
  OBVIOUS
<1>4. PICK day \in Nat : day = ticks % DayLength
  BY MidnightFact
<1>5. PICK m \in Nat : m = Midnight
  BY MidnightFact
<1>6. ticks - m = day /\ ticks = m + day /\ p <= ticks
  BY <1>3, <1>4, <1>5, MidnightFact
<1>7. PICK now \in Nat : now = ticks - m + off /\ now = day + off
  BY <1>6
<1>8. PICK then \in Int : then = p - m + off
  OBVIOUS
<1>9. then <= now
  BY <1>6, <1>7, <1>8
<1>10. ~(Quotient(now, d) > Quotient(then, d))
  <2>1. ~(Truncated(now) > Truncated(then))
    BY <1>2, <1>3, <1>5, <1>7, <1>8 DEF AlignedDue
  <2>2. Truncated(now) = Quotient(now, d) /\ Truncated(then) = Quotient(then, d)
    BY <1>1 DEF Truncated, Quotient
  <2>. QED  BY <2>1, <2>2
<1>11. \/ then >= 0 /\ then \div d = now \div d /\ now - then < d
       \/ then < 0 /\ -then < d /\ now < d
  BY <1>9, <1>10, NoLaterSlot
<1>12. CASE p >= m
  <2>1. then >= 0 /\ then \div d = now \div d
    BY <1>8, <1>11, <1>12
  <2>2. p \div DayLength = ticks \div DayLength /\ p - m = p % DayLength
    BY <1>5, <1>6, <1>12, MidnightFact
  <2>3. now = (ticks % DayLength) + off /\ then = (p % DayLength) + off
    BY <1>4, <1>7, <1>8, <2>2
  <2>4. Slot(p) = Slot(ticks)
    BY <1>1, <1>2, <2>1, <2>2, <2>3 DEF Slot
  <2>. QED  BY <1>3, <2>4
<1>13. CASE p < m
  <2>1. m - p < d + off /\ ticks - m < d
    BY <1>6, <1>7, <1>8, <1>11, <1>13
  <2>. QED  BY <1>1, <1>2, <1>3, <1>5, <1>13, <2>1
<1>. QED  BY <1>6, <1>12, <1>13

-----------------------------------------------------------------------------
(* A trend log and its callbacks.                                          *)

LogOK == setting \in LogSettings /\ Exact(log, recorded)

Objects == [Targets -> [pv : Samples, notified : BOOLEAN]]

CallbacksOK ==
  /\ objects \in Objects
  /\ subscribed \in BOOLEAN /\ lost_track \in BOOLEAN /\ current \in Targets \cup {NEVER}
  /\ tl_engine \in {"running", "stopped", "failed"}
  /\ stale \in [Targets -> Nat] /\ orphans \in [Targets -> Nat]
  /\ \A t \in Targets : Listening(t) + orphans[t] <= MaxCallbacks
  /\ OneCallback

PollsOK ==
  ticks \in Nat /\ resets \in Nat /\ last_poll \in {NEVER} \cup 0 .. ticks /\ SlotsPolled

TrendOK == LogOK /\ CallbacksOK /\ PollsOK

callback_vars == <<objects, subscribed, lost_track, current, tl_engine, stale, orphans>>

LEMMA NewLogIsExact ==
  ASSUME NEW l \in NewLogs
  PROVE  Exact(l, <<>>)
<1>1. <<>> \in Seq(Records) /\ Len(<<>>) = 0
  OBVIOUS
<1>2. l \in Logs /\ l.buffer = <<>> /\ l.count = 0 /\ l.total = 0
  <2>1. PICK empty \in Seq(Records) : empty = <<>>
    BY <1>1, Zenon
  <2>2. l \in [enabled : BOOLEAN, open : BOOLEAN, type : {"polled", "triggered", "cov"},
               target : Targets \cup {NO_TARGET}, trigger : BOOLEAN, align : BOOLEAN, size : Nat,
               stop_when_full : BOOLEAN, buffer : {empty}, count : {0}, total : {0}]
    BY <2>1 DEF NewLogs
  <2>3. l \in Logs /\ l.buffer = empty /\ l.count = 0 /\ l.total = 0
    BY <2>2 DEF Logs
  <2>. QED  BY <2>1, <2>3
<1>3. 1 \in 1 .. Len(<<>>) + 1 /\ <<>> = SubSeq(<<>>, 1, Len(<<>>))
  BY <1>1, SubSeqEmpty
<1>. QED  BY <1>1, <1>2, <1>3 DEF Exact

LEMMA InitTrend ==
  ASSUME TrendInit
  PROVE  TrendOK
<1>1. LogOK
  BY NewLogIsExact, TrendAssumption DEF TrendInit, LogOK
<1>2. CallbacksOK
  <2>1. objects \in Objects
    BY TrendAssumption DEF TrendInit, Objects
  <2>2. \A t \in Targets : stale[t] = 0 /\ orphans[t] = 0 /\ Listening(t) = 0
    BY TrendAssumption DEF TrendInit, Listening
  <2>3. stale \in [Targets -> Nat] /\ orphans \in [Targets -> Nat]
    BY DEF TrendInit
  <2>4. \A t \in Targets : Listening(t) + orphans[t] <= MaxCallbacks
    BY <2>2, TrendAssumption
  <2>5. OneCallback
    BY <2>2 DEF TrendInit, OneCallback
  <2>. QED  BY <2>1, <2>3, <2>4, <2>5, Zenon DEF TrendInit, CallbacksOK
<1>3. PollsOK
  BY DEF TrendInit, PollsOK, SlotsPolled
<1>. QED  BY <1>1, <1>2, <1>3 DEF TrendOK

-----------------------------------------------------------------------------
(* Polls.                                                                  *)

\* Whatever is not a poll leaves the polls right, if it keeps log.align or
\* makes the next poll the first.
LEMMA PollsKept ==
  ASSUME PollsOK, last_poll' = last_poll \/ last_poll' = NEVER,
         ticks' = ticks \/ ticks' = ticks + 1, resets' = resets \/ resets' = resets + 1,
         \/ scanned' = FALSE
         \/ UNCHANGED <<scanned, ticks, last_poll>> /\ log'.align = log.align
  PROVE  PollsOK'
<1>1. ticks' \in Nat /\ resets' \in Nat /\ last_poll' \in {NEVER} \cup 0 .. ticks'
  BY DEF PollsOK
<1>2. CASE scanned' = FALSE
  BY <1>1, <1>2 DEF PollsOK, SlotsPolled
<1>3. CASE UNCHANGED <<scanned, ticks, last_poll>> /\ log'.align = log.align
  BY <1>1, <1>3 DEF PollsOK, SlotsPolled, Midnight
<1>. QED  BY <1>2, <1>3, Zenon

LEMMA PollKeepsPolls ==
  ASSUME TrendOK, CyclePolled, log'.align = log.align
  PROVE  PollsOK'
<1>1. /\ ticks' = ticks /\ ticks \in Nat /\ last_poll \in {NEVER} \cup 0 .. ticks
      /\ resets' = resets /\ resets \in Nat
  BY DEF TrendOK, PollsOK, CyclePolled
<1>2. CASE PollDue
  <2>1. last_poll' = ticks
    BY <1>2 DEF CyclePolled
  <2>2. last_poll' # NEVER /\ Slot(last_poll') = Slot(ticks')
    BY <1>1, <2>1, TrendAssumption
  <2>. QED  BY <1>1, <2>1, <2>2 DEF PollsOK, SlotsPolled
<1>3. CASE ~PollDue
  <2>1. last_poll' = last_poll
    BY <1>3 DEF CyclePolled
  <2>2. CASE log.align
    <3>1. ~AlignedDue
      BY <1>3, <2>2 DEF PollDue
    <3>2. last_poll # NEVER
      BY <3>1 DEF AlignedDue
    <3>3. \/ Slot(last_poll) = Slot(ticks)
          \/ /\ last_poll < Midnight /\ Midnight - last_poll < LogInterval + IntervalOffset
             /\ ticks - Midnight < LogInterval
      BY <1>1, <3>1, <3>2, NotDue
    <3>. QED  BY <1>1, <2>1, <3>2, <3>3 DEF PollsOK, SlotsPolled, Midnight
  <2>3. CASE ~log.align
    BY <1>1, <2>1, <2>3 DEF PollsOK, SlotsPolled
  <2>. QED  BY <2>2, <2>3
<1>. QED  BY <1>2, <1>3

-----------------------------------------------------------------------------
(* Callbacks.                                                              *)

\* A cycle in which the log is not subscribed, or the engine stops.
LEMMA UnregisterKeepsCallbacks ==
  ASSUME TrendOK, Unregister, UNCHANGED <<objects, lost_track, stale, orphans>>,
         tl_engine' \in {"running", "stopped", "failed"}, log'.target = log.target
  PROVE  CallbacksOK'
<1>1. CallbacksOK
  BY DEF TrendOK
<1>2. subscribed' = FALSE /\ current' \in {current, NEVER}
  BY DEF Unregister
<1>3. ASSUME NEW t \in Targets
      PROVE  (Listening(t) + orphans[t] <= MaxCallbacks)'
  <2>1. current' = t => current = t
    BY <1>2, TrendAssumption
  <2>2. stale[t] \in Nat /\ orphans[t] \in Nat /\ Listening(t) + orphans[t] <= MaxCallbacks
        /\ MaxCallbacks \in Nat
    BY <1>1, TrendAssumption DEF CallbacksOK
  <2>. QED  BY <2>1, <2>2 DEF Listening
<1>4. OneCallback'
  <2>. SUFFICES ASSUME ~lost_track
                PROVE  current' = NEVER /\ \A t \in Targets : stale[t] = 0 /\ orphans[t] = 0
    BY <1>2 DEF OneCallback
  <2>1. OneCallback
    BY <1>1 DEF CallbacksOK
  <2>2. log.target \in Targets \cup {NO_TARGET}
    BY DEF TrendOK, LogOK, Exact, Logs
  <2>3. current # NEVER => subscribed /\ current = log.target /\ log.target # NO_TARGET
    BY <1>1, <2>1, TrendAssumption DEF OneCallback, CallbacksOK
  <2>. QED  BY <2>1, <2>3 DEF OneCallback, Unregister
<1>. QED  BY <1>1, <1>2, <1>3, <1>4, Zenon DEF CallbacksOK

LEMMA SubscribeKeepsCallbacks ==
  ASSUME TrendOK, CycleSubscribes
  PROVE  CallbacksOK'
<1>. PICK target : target = log.target
  OBVIOUS
<1>1. CallbacksOK /\ MaxCallbacks \in Nat
  BY TrendAssumption DEF TrendOK
<1>2. target \in Targets
  <2>1. target \in Targets \cup {NO_TARGET}
    BY DEF TrendOK, LogOK, Exact, Logs
  <2>. QED  BY <2>1 DEF CycleSubscribes, Unsubscribed
<1>3. /\ subscribed' = TRUE /\ current' = target
      /\ stale' = IF current = NEVER THEN stale ELSE [stale EXCEPT ![current] = @ + 1]
      /\ objects' = [objects EXCEPT ![target].notified = TRUE]
      /\ UNCHANGED <<log, orphans, lost_track, tl_engine>>
      /\ Listening(target) + orphans[target] < MaxCallbacks
      /\ ~subscribed
  BY DEF CycleSubscribes, Unsubscribed, Registrable
<1>4. objects' \in Objects /\ objects'[target].notified
  BY <1>1, <1>2, <1>3, Zenon DEF CallbacksOK, Objects
<1>5. stale' \in [Targets -> Nat]
  BY <1>1, <1>3 DEF CallbacksOK
<1>6. ASSUME NEW t \in Targets
      PROVE  (Listening(t) + orphans[t] <= MaxCallbacks)'
  <2>1. /\ stale[t] \in Nat /\ orphans[t] \in Nat /\ orphans'[t] = orphans[t]
        /\ Listening(t) + orphans[t] <= MaxCallbacks
    BY <1>1, <1>3 DEF CallbacksOK
  <2>2. stale'[t] = IF current = t THEN stale[t] + 1 ELSE stale[t]
    BY <1>1, <1>3, TrendAssumption DEF CallbacksOK
  <2>3. Listening(t) = stale[t] + (IF current = t THEN 1 ELSE 0)
    BY DEF Listening
  <2>4. Listening(t)' = stale'[t] + (IF target = t THEN 1 ELSE 0)
    BY <1>3 DEF Listening
  <2>5. Listening(t)' = Listening(t) + (IF target = t THEN 1 ELSE 0)
    BY <2>1, <2>2, <2>3, <2>4
  <2>6. Listening(t) \in Nat
    BY <2>1, <2>3
  <2>7. CASE target = t
    BY <1>1, <1>3, <2>1, <2>5, <2>6, <2>7
  <2>8. CASE target # t
    BY <1>1, <2>1, <2>5, <2>6, <2>8
  <2>. QED  BY <2>7, <2>8
<1>7. OneCallback'
  <2>. SUFFICES ASSUME ~lost_track
                PROVE  \A t \in Targets : stale'[t] = 0 /\ orphans[t] = 0
    BY <1>2, <1>3, <1>4, TrendAssumption DEF OneCallback
  <2>1. current = NEVER /\ \A t \in Targets : stale[t] = 0 /\ orphans[t] = 0
    BY <1>1, <1>3 DEF CallbacksOK, OneCallback
  <2>. QED  BY <1>3, <2>1
<1>. QED  BY <1>1, <1>2, <1>3, <1>4, <1>5, <1>6, <1>7 DEF CallbacksOK

LEMMA ReplaceLogKeepsCallbacks ==
  ASSUME TrendOK, ReplaceLog
  PROVE  CallbacksOK'
<1>1. CallbacksOK /\ MaxCallbacks \in Nat
  BY TrendAssumption DEF TrendOK
<1>2. /\ current' = NEVER /\ orphans' = [t \in Targets |-> orphans[t] + Listening(t)]
      /\ stale' = [t \in Targets |-> 0] /\ UNCHANGED <<objects, tl_engine, subscribed>>
      /\ lost_track' = (lost_track \/ subscribed \/ (\E t \in Targets : Listening(t) > 0))
  BY DEF ReplaceLog
<1>3. ASSUME NEW t \in Targets
      PROVE  /\ Listening(t) \in Nat /\ orphans'[t] = orphans[t] + Listening(t)
             /\ orphans'[t] \in Nat /\ (Listening(t) + orphans[t] <= MaxCallbacks)'
  <2>1. /\ stale[t] \in Nat /\ orphans[t] \in Nat /\ Listening(t) + orphans[t] <= MaxCallbacks
    BY <1>1 DEF CallbacksOK
  <2>2. Listening(t) \in Nat
    BY <2>1 DEF Listening
  <2>3. Listening(t)' = 0
    BY <1>2, TrendAssumption DEF Listening
  <2>. QED  BY <1>1, <1>2, <2>1, <2>2, <2>3
<1>4. stale' \in [Targets -> Nat] /\ orphans' \in [Targets -> Nat]
  <2>1. orphans' = [t \in Targets |-> orphans'[t]]
    BY <1>2
  <2>. QED  BY <1>2, <1>3, <2>1
<1>5. OneCallback'
  <2>. SUFFICES ASSUME ~lost_track'
                PROVE  ~subscribed /\ \A t \in Targets : orphans'[t] = 0
    BY <1>2 DEF OneCallback
  <2>1. ~lost_track /\ ~subscribed /\ \A t \in Targets : ~(Listening(t) > 0)
    BY <1>2, Zenon
  <2>2. \A t \in Targets : orphans[t] = 0
    BY <1>1, <2>1 DEF CallbacksOK, OneCallback
  <2>. QED  BY <1>3, <2>1, <2>2
<1>6. lost_track' \in BOOLEAN
  BY <1>2
<1>. QED  BY <1>1, <1>2, <1>3, <1>4, <1>5, <1>6 DEF CallbacksOK

\* A target is written or replaced.
LEMMA TargetKeepsCallbacks ==
  ASSUME TrendOK, UNCHANGED <<subscribed, current, stale, orphans, tl_engine>>,
         log'.target = log.target, NEW t \in Targets, NEW v \in Samples,
         \/ objects' = [objects EXCEPT ![t].pv = v] /\ lost_track' = lost_track
         \/ /\ objects' = [objects EXCEPT ![t] = [pv |-> v, notified |-> FALSE]]
            /\ lost_track' = (lost_track \/ Listening(t) > 0)
  PROVE  CallbacksOK'
<1>1. CallbacksOK
  BY DEF TrendOK
<1>2. objects' \in Objects
  <2>1. CASE objects' = [objects EXCEPT ![t].pv = v]
    BY <1>1, <2>1 DEF CallbacksOK, Objects
  <2>2. CASE objects' = [objects EXCEPT ![t] = [pv |-> v, notified |-> FALSE]]
    BY <1>1, <2>2 DEF CallbacksOK, Objects
  <2>. QED  BY <2>1, <2>2
<1>5. lost_track' \in BOOLEAN
  <2>1. lost_track \in BOOLEAN
    BY <1>1 DEF CallbacksOK
  <2>2. lost_track' = lost_track \/ lost_track' = (lost_track \/ Listening(t) > 0)
    OBVIOUS
  <2>. QED  BY <2>1, <2>2, Zenon
<1>3. \A u \in Targets : Listening(u)' = Listening(u)
  BY DEF Listening
<1>4. OneCallback'
  <2>. SUFFICES ASSUME ~lost_track', current # NEVER
                PROVE  objects'[current].notified
    BY <1>1 DEF CallbacksOK, OneCallback
  <2>1. ~lost_track /\ current \in Targets /\ objects[current].notified
    BY <1>1 DEF CallbacksOK, OneCallback
  <2>2. CASE objects' = [objects EXCEPT ![t].pv = v]
    BY <1>1, <2>1, <2>2 DEF CallbacksOK, Objects
  <2>3. CASE /\ objects' = [objects EXCEPT ![t] = [pv |-> v, notified |-> FALSE]]
             /\ lost_track' = (lost_track \/ Listening(t) > 0)
    <3>1. stale[t] \in Nat /\ ~(Listening(t) > 0)
      BY <1>1, <2>3, Zenon DEF CallbacksOK
    <3>2. current # t
      BY <3>1 DEF Listening
    <3>. QED  BY <1>1, <2>1, <2>3, <3>2 DEF CallbacksOK, Objects
  <2>. QED  BY <2>2, <2>3
<1>. QED  BY <1>1, <1>2, <1>3, <1>4, <1>5 DEF CallbacksOK

\* The reference is written only with a note if there is a subscription.
LEMMA WriteLogKeepsCallbacks ==
  ASSUME TrendOK, UNCHANGED <<objects, subscribed, current, stale, orphans>>,
         tl_engine' \in {"running", "stopped", "failed"},
         lost_track' = (lost_track \/ (current # NEVER /\ log'.target # log.target))
  PROVE  CallbacksOK'
<1>1. CallbacksOK
  BY DEF TrendOK
<1>2. lost_track' \in BOOLEAN
  BY <1>1 DEF CallbacksOK
<1>3. \A t \in Targets : Listening(t)' = Listening(t)
  BY DEF Listening
<1>4. OneCallback'
  BY <1>1 DEF CallbacksOK, OneCallback
<1>. QED  BY <1>1, <1>2, <1>3, <1>4 DEF CallbacksOK

-----------------------------------------------------------------------------
(* Steps of the engine and of what is around it.                           *)

LEMMA WriteLogKeepsLog ==
  ASSUME LogOK, WriteLog
  PROVE  LogOK'
<1>1. log \in Logs /\ Exact(log, recorded) /\ setting' = setting /\ recorded' = recorded
  BY Zenon DEF LogOK, Exact, WriteLog
<1>2. /\ log' \in Logs /\ log'.buffer = log.buffer /\ log'.count = log.count
      /\ log'.total = log.total /\ log'.stop_when_full = log.stop_when_full
  <2>1. CASE log' = [log EXCEPT !.enabled = ~@]
    BY <1>1, <2>1, Zenon DEF Logs
  <2>2. CASE log' = [log EXCEPT !.open = ~@]
    BY <1>1, <2>2, Zenon DEF Logs
  <2>3. CASE log' = [log EXCEPT !.align = ~@]
    BY <1>1, <2>3, Zenon DEF Logs
  <2>4. CASE log' = [log EXCEPT !.trigger = TRUE]
    BY <1>1, <2>4, Zenon DEF Logs
  <2>5. ASSUME NEW n \in 0 .. 2, log' = [log EXCEPT !.size = n]
        PROVE  /\ log' \in Logs /\ log'.buffer = log.buffer /\ log'.count = log.count
               /\ log'.total = log.total /\ log'.stop_when_full = log.stop_when_full
    BY <1>1, <2>5 DEF Logs
  <2>6. ASSUME NEW k \in {"polled", "triggered", "cov"}, log' = [log EXCEPT !.type = k]
        PROVE  /\ log' \in Logs /\ log'.buffer = log.buffer /\ log'.count = log.count
               /\ log'.total = log.total /\ log'.stop_when_full = log.stop_when_full
    BY <1>1, <2>6 DEF Logs
  <2>7. ASSUME NEW t \in Targets \cup {NO_TARGET}, log' = [log EXCEPT !.target = t]
        PROVE  /\ log' \in Logs /\ log'.buffer = log.buffer /\ log'.count = log.count
               /\ log'.total = log.total /\ log'.stop_when_full = log.stop_when_full
    BY <1>1, <2>7 DEF Logs
  <2>. QED  BY <2>1, <2>2, <2>3, <2>4, <2>5, <2>6, <2>7 DEF WriteLog
<1>. QED  BY <1>1, <1>2, Zenon DEF LogOK, Exact

LEMMA WriteTargetKeepsLog ==
  ASSUME TrendOK, NEW t \in Targets, WriteTarget(t)
  PROVE  LogOK' /\ SameProperties(log', log)
<1>1. PICK v \in Samples : OnChange(t, v)
  BY DEF WriteTarget
<1>2. LogOK /\ setting' = setting
  BY DEF TrendOK, WriteTarget
<1>3. CASE objects[t].notified /\ Logging(log)
  <2>1. PICK r \in Records : r = [from |-> t, value |-> v]
    BY Zenon DEF Records
  <2>2. PICK n \in Nat : n = Listening(t)
    BY DEF TrendOK, CallbacksOK, Listening
  <2>3. Record(r, n)
    BY <1>1, <1>3, <2>1, <2>2 DEF OnChange
  <2>. QED  BY <1>2, <2>3, RecordIsExact DEF LogOK
<1>4. CASE ~(objects[t].notified /\ Logging(log))
  BY <1>1, <1>2, <1>4 DEF OnChange, LogOK, SameProperties
<1>. QED  BY <1>3, <1>4

\* Every other step keeps the log, records a value or starts a new one.
LEMMA RecordKeepsLog ==
  ASSUME TrendOK, setting' = setting, NEW l, RecordValue(l),
         l = log \/ l = [log EXCEPT !.trigger = FALSE]
  PROVE  LogOK' /\ log'.target = log.target /\ log'.align = log.align
<1>1. Exact(log, recorded) /\ log \in Logs
  BY Zenon DEF TrendOK, LogOK, Exact
<1>2. Exact(l, recorded) /\ l.target = log.target /\ l.align = log.align
  <2>1. CASE l = log
    BY <1>1, <2>1
  <2>2. CASE l = [log EXCEPT !.trigger = FALSE]
    <3>1. /\ l \in Logs /\ l.buffer = log.buffer /\ l.count = log.count /\ l.total = log.total
          /\ l.stop_when_full = log.stop_when_full /\ l.target = log.target /\ l.align = log.align
      BY <1>1, <2>2, Zenon DEF Logs
    <3>. QED  BY <1>1, <3>1, Zenon DEF Exact
  <2>. QED  BY <2>1, <2>2
<1>3. \A t \in Targets : objects[t].pv \in Samples
  BY DEF TrendOK, CallbacksOK, Objects
<1>4. Exact(log', recorded') /\ SameProperties(log', l)
  BY <1>2, <1>3, ValueRecorded, TrendAssumption
<1>. QED  BY <1>2, <1>4 DEF TrendOK, LogOK, SameProperties

LEMMA PollKeepsTrend ==
  ASSUME TrendOK, CyclePolled
  PROVE  TrendOK'
<1>1. setting' = setting /\ Unregister /\ UNCHANGED <<objects, lost_track, stale, orphans, tl_engine>>
  BY DEF CyclePolled
<1>2. LogOK' /\ log'.target = log.target /\ log'.align = log.align
  <2>1. CASE PollDue
    BY <1>1, <2>1, RecordKeepsLog DEF CyclePolled
  <2>2. CASE ~PollDue
    BY <1>1, <2>2 DEF CyclePolled, TrendOK, LogOK
  <2>. QED  BY <2>1, <2>2
<1>3. CallbacksOK'
  BY <1>1, <1>2, UnregisterKeepsCallbacks DEF TrendOK, CallbacksOK
<1>. QED  BY <1>2, <1>3, PollKeepsPolls DEF TrendOK

LEMMA TriggerKeepsTrend ==
  ASSUME TrendOK, CycleTriggered
  PROVE  TrendOK'
<1>1. /\ setting' = setting /\ Unregister /\ scanned' = FALSE
      /\ UNCHANGED <<objects, lost_track, stale, orphans, tl_engine, last_poll, ticks, resets>>
  BY DEF CycleTriggered
<1>2. LogOK' /\ log'.target = log.target
  <2>1. CASE log.trigger
    BY <1>1, <2>1, RecordKeepsLog DEF CycleTriggered
  <2>2. CASE ~log.trigger
    BY <1>1, <2>2 DEF CycleTriggered, TrendOK, LogOK
  <2>. QED  BY <2>1, <2>2
<1>3. CallbacksOK'
  BY <1>1, <1>2, UnregisterKeepsCallbacks DEF TrendOK, CallbacksOK
<1>. QED  BY <1>1, <1>2, <1>3, PollsKept, Zenon DEF TrendOK

LEMMA StepTrend ==
  ASSUME TrendOK, TrendNext \/ UNCHANGED trend_vars
  PROVE  TrendOK'
<1>1. LogOK /\ CallbacksOK /\ PollsOK
  BY DEF TrendOK
<1>2. UNCHANGED <<log, setting, recorded>> => LogOK'
  BY <1>1 DEF LogOK
<1>3. CASE TrendTick
  <2>1. CallbacksOK'
    BY <1>1, <1>3, WriteLogKeepsCallbacks DEF TrendTick, CallbacksOK
  <2>. QED  BY <1>1, <1>2, <1>3, <2>1, PollsKept, Zenon DEF TrendTick, TrendOK
<1>4. CASE WriteLog
  <2>1. CallbacksOK'
    BY <1>1, <1>4, WriteLogKeepsCallbacks DEF WriteLog, CallbacksOK
  <2>2. PollsOK'
    BY <1>1, <1>4, PollsKept, Zenon DEF WriteLog
  <2>. QED  BY <1>1, <1>4, <2>1, <2>2, WriteLogKeepsLog DEF TrendOK
<1>5. ASSUME NEW t \in Targets, WriteTarget(t) PROVE TrendOK'
  <2>1. LogOK' /\ log'.target = log.target /\ log'.align = log.align
    BY <1>5, WriteTargetKeepsLog DEF SameProperties
  <2>2. PICK v \in Samples : objects' = [objects EXCEPT ![t].pv = v]
    BY <1>5, Zenon DEF WriteTarget
  <2>3. CallbacksOK'
    BY <1>5, <2>1, <2>2, TargetKeepsCallbacks, Zenon DEF WriteTarget
  <2>4. PollsOK'
    BY <1>1, <1>5, <2>1, PollsKept DEF WriteTarget
  <2>. QED  BY <2>1, <2>3, <2>4 DEF TrendOK
<1>6. ASSUME NEW t \in Targets, ReplaceTarget(t) PROVE TrendOK'
  <2>1. PICK v \in Samples : objects' = [objects EXCEPT ![t] = [pv |-> v, notified |-> FALSE]]
    BY <1>6, Zenon DEF ReplaceTarget
  <2>2. CallbacksOK'
    BY <1>6, <2>1, TargetKeepsCallbacks, Zenon DEF ReplaceTarget
  <2>3. PollsOK'
    BY <1>1, <1>6, PollsKept DEF ReplaceTarget
  <2>. QED  BY <1>2, <1>6, <2>2, <2>3 DEF ReplaceTarget, TrendOK
<1>7. CASE CycleOff
  <2>1. CallbacksOK'
    BY <1>1, <1>7, UnregisterKeepsCallbacks DEF CycleOff, CallbacksOK
  <2>. QED  BY <1>1, <1>2, <1>7, <2>1, PollsKept, Zenon DEF CycleOff, TrendOK
<1>8. CASE CycleSubscribes
  <2>1. CallbacksOK'
    BY <1>8, SubscribeKeepsCallbacks
  <2>. QED  BY <1>1, <1>2, <1>8, <2>1, PollsKept, Zenon DEF CycleSubscribes, TrendOK
<1>9. CASE CycleFails
  <2>1. CallbacksOK'
    BY <1>1, <1>9, WriteLogKeepsCallbacks DEF CycleFails, CallbacksOK
  <2>. QED  BY <1>1, <1>2, <1>9, <2>1, PollsKept, Zenon DEF CycleFails, TrendOK
<1>10. CASE StopTrend
  <2>1. CallbacksOK'
    BY <1>1, <1>10, UnregisterKeepsCallbacks DEF StopTrend
  <2>. QED  BY <1>1, <1>2, <1>10, <2>1, PollsKept, Zenon DEF StopTrend, TrendOK
<1>11. CASE StartTrend
  <2>1. CallbacksOK'
    BY <1>1, <1>11, WriteLogKeepsCallbacks DEF StartTrend, CallbacksOK
  <2>. QED  BY <1>1, <1>2, <1>11, <2>1, PollsKept, Zenon DEF StartTrend, TrendOK
<1>12. CASE ReplaceLog
  <2>1. LogOK'
    <3>1. setting \in LogSettings /\ setting' = setting /\ log' = setting.start /\ recorded' = <<>>
      BY <1>1, <1>12 DEF LogOK, ReplaceLog
    <3>2. PICK start \in NewLogs : start = setting.start
      BY <3>1, TrendAssumption
    <3>. QED  BY <3>1, <3>2, NewLogIsExact DEF LogOK
  <2>2. PollsOK'
    BY <1>1, <1>12, PollsKept, Zenon DEF ReplaceLog
  <2>. QED  BY <1>12, <2>1, <2>2, ReplaceLogKeepsCallbacks DEF TrendOK
<1>13. CASE UNCHANGED trend_vars
  <2>1. CallbacksOK'
    BY <1>1, <1>13, WriteLogKeepsCallbacks DEF trend_vars, CallbacksOK
  <2>. QED  BY <1>1, <1>2, <1>13, <2>1, PollsKept DEF trend_vars, TrendOK
<1>. QED
  BY <1>3, <1>4, <1>5, <1>6, <1>7, <1>8, <1>9, <1>10, <1>11, <1>12, <1>13,
     PollKeepsTrend, TriggerKeepsTrend DEF TrendNext, CycleTrend

LEMMA TrendIsExact == TrendOK => LogExact
<1>. SUFFICES ASSUME TrendOK PROVE LogExact
  OBVIOUS
<1>1. Exact(log, recorded) /\ log \in Logs /\ recorded \in Seq(Records)
  BY DEF TrendOK, LogOK, Exact
<1>2. log.buffer \in Seq(Records)
  BY <1>1 DEF Logs
<1>3. TrendTypeOK
  BY <1>1, <1>2 DEF TrendOK, LogOK, CallbacksOK, PollsOK, TrendTypeOK, Logs
<1>4. BufferIsLatest
  <2>1. PICK start \in 1 .. Len(recorded) + 1 : log.buffer = SubSeq(recorded, start, Len(recorded))
    BY <1>1 DEF Exact
  <2>2. Len(recorded) \in Nat
    BY <1>1
  <2>3. Len(log.buffer) = Len(recorded) - start + 1
    <3>1. Len(SubSeq(recorded, start, Len(recorded)))
            = IF start <= Len(recorded) THEN Len(recorded) - start + 1 ELSE 0
      <4>1. \A i \in start .. Len(recorded) : recorded[i] \in Records
        BY <1>1, <2>2, ElementOfSeq
      <4>. QED  BY <2>2, <4>1, SubSeqProperties
    <3>. QED  BY <2>1, <2>2, <3>1
  <2>4. /\ Len(log.buffer) <= Len(recorded)
        /\ Len(recorded) - Len(log.buffer) + 1 = start
    BY <2>2, <2>3
  <2>. QED  BY <1>1, <2>1, <2>4, Zenon DEF Exact, BufferIsLatest
<1>. QED  BY <1>3, <1>4 DEF TrendOK, CallbacksOK, PollsOK, LogExact

\* A trend log has the latest of its records and each once, at most one
\* callback while nothing took it away, and a record of each slot of the day,
\* whatever of its switches and its reference is written, whatever is replaced
\* and whenever the engine is stopped (append_record, _handle_cov,
\* _unregister_cov and _handle_polled).
THEOREM LogExactTheorem == EnginesSpec => []LogExact
<1>1. EnginesSpec => EnginesInit /\ [][EnginesNext]_engines_vars
  BY PTL DEF EnginesSpec
<1>2. EnginesInit => TrendOK
  BY InitTrend DEF EnginesInit
<1>3. TrendOK /\ [EnginesNext]_engines_vars => TrendOK'
  <2>. SUFFICES ASSUME TrendOK, [EnginesNext]_engines_vars PROVE TrendOK'
    OBVIOUS
  <2>1. TrendNext \/ UNCHANGED trend_vars
    BY DEF EnginesNext, EventPart, TrendPart, SchedulePart, AuditPart, Maintained, engines_vars
  <2>. QED  BY <2>1, StepTrend
<1>4. TrendOK => LogExact
  BY TrendIsExact
<1>. QED  BY <1>1, <1>2, <1>3, <1>4, PTL
-----------------------------------------------------------------------------
(* What a trend log records.                                               *)

\* A single callback records once what the log takes.
LEMMA RecordOnce ==
  ASSUME Exact(log, recorded), NEW r \in Records, Record(r, 1), Taken(log)
  PROVE  recorded' = Append(recorded, r)
<1>1. PICK h : /\ h[0] = log /\ h[1] = LogFold!Fold(log, [i \in 1 .. 1 |-> r])
               /\ LogFold!Steps(h, [i \in 1 .. 1 |-> r], 1)
  <2>1. PICK base : base = log
    OBVIOUS
  <2>2. PICK s : s = [i \in 1 .. 1 |-> r]
    BY Zenon
  <2>3. DOMAIN s = 1 .. 1 /\ 1 \in Nat
    BY <2>2
  <2>4. \E h : h[0] = base /\ h[1] = LogFold!Fold(base, s) /\ LogFold!Steps(h, s, 1)
    BY <2>3, LogFold!FoldIsIteration, SMTT(60)
  <2>. QED  BY <2>1, <2>2, <2>4
<1>2. h[1] = append_record(log, r)
  BY <1>1 DEF LogFold!Steps
<1>3. log' = append_record(log, r) /\ recorded' = recorded \o [i \in 1 .. log'.total - log.total |-> r]
  BY <1>1, <1>2, RecordIs, Zenon
<1>4. PICK l : l = log
  OBVIOUS
<1>5. PICK rec : rec = recorded
  OBVIOUS
<1>6. PICK k : k = append_record(l, r)
  OBVIOUS
<1>7. Exact(k, Append(rec, r)) /\ Exact(l, rec)
  BY <1>4, <1>5, <1>6, AppendIsExact
<1>8. l.total = Len(rec) /\ k.total = Len(rec) + 1 /\ rec \in Seq(Records) /\ Len(rec) \in Nat
  BY <1>7 DEF Exact
<1>9. k.total - l.total = 1
  BY <1>8
<1>10. [i \in 1 .. 1 |-> r] = <<r>>
  OBVIOUS
<1>11. recorded' = rec \o <<r>>
  BY <1>3, <1>4, <1>5, <1>6, <1>9, <1>10
<1>. QED  BY <1>5, <1>8, <1>11, AppendIsConcat

TrendStep == TrendNext \/ UNCHANGED trend_vars

LEMMA OnlyWhileLogging ==
  ASSUME TrendStep, recorded' # recorded, recorded' # <<>>
  PROVE  Logging(log)
<1>1. ASSUME NEW t \in Targets, WriteTarget(t) PROVE Logging(log)
  BY <1>1 DEF WriteTarget, OnChange
<1>2. CASE CycleTrend
  BY <1>2 DEF CycleTrend, CycleOff, CyclePolled, CycleTriggered, CycleSubscribes, CycleFails
<1>3. CASE ReplaceLog
  BY <1>3 DEF ReplaceLog
<1>4. ASSUME NEW t \in Targets, ReplaceTarget(t) PROVE FALSE
  BY <1>4 DEF ReplaceTarget
<1>5. ~TrendTick /\ ~WriteLog /\ ~StopTrend /\ ~StartTrend /\ ~UNCHANGED trend_vars
  BY DEF TrendTick, WriteLog, StopTrend, StartTrend, trend_vars
<1>. QED  BY <1>1, <1>2, <1>3, <1>4, <1>5 DEF TrendStep, TrendNext

LEMMA ChangeRecorded ==
  ASSUME TrendOK, TrendStep, NEW t \in Targets,
         ~lost_track, subscribed, log.target = t, Logging(log), Taken(log),
         objects'[t].pv # objects[t].pv, resets' = resets
  PROVE  recorded' = Append(recorded, [from |-> t, value |-> objects'[t].pv])
<1>1. objects \in Objects /\ resets \in Nat /\ Exact(log, recorded)
  BY DEF TrendOK, LogOK, CallbacksOK, PollsOK
<1>2. current = t /\ objects[t].notified /\ Listening(t) = 1
  <2>1. current = t /\ objects[t].notified /\ stale[t] = 0
    BY DEF TrendOK, CallbacksOK, OneCallback
  <2>. QED  BY <2>1 DEF Listening
<1>3. ASSUME NEW u \in Targets, WriteTarget(u)
      PROVE  recorded' = Append(recorded, [from |-> t, value |-> objects'[t].pv])
  <2>1. PICK v \in Samples : objects' = [objects EXCEPT ![u].pv = v] /\ OnChange(u, v)
    BY <1>3, Zenon DEF WriteTarget
  <2>2. u = t
    BY <1>1, <2>1 DEF Objects
  <2>3. objects'[t].pv = v
    BY <1>1, <2>1, <2>2 DEF Objects
  <2>4. PICK r \in Records : r = [from |-> t, value |-> v]
    BY Zenon DEF Records
  <2>5. Record(r, 1)
    BY <1>2, <2>1, <2>2, <2>4 DEF OnChange
  <2>. QED  BY <1>1, <2>3, <2>4, <2>5, RecordOnce
<1>4. ASSUME NEW u \in Targets, ReplaceTarget(u) PROVE FALSE
  BY <1>1, <1>4 DEF ReplaceTarget
<1>5. ~CycleSubscribes
  BY DEF CycleSubscribes, Unsubscribed
<1>6. UNCHANGED objects => FALSE
  OBVIOUS
<1>7. /\ ~TrendTick /\ ~WriteLog /\ ~StopTrend /\ ~StartTrend /\ ~UNCHANGED trend_vars
      /\ ~CycleOff /\ ~CyclePolled /\ ~CycleTriggered /\ ~CycleFails /\ ~ReplaceLog
  BY <1>6, Zenon DEF TrendTick, WriteLog, StopTrend, StartTrend, trend_vars, CycleOff, CyclePolled,
              CycleTriggered, CycleFails, ReplaceLog
<1>. QED  BY <1>3, <1>4, <1>5, <1>7 DEF TrendStep, TrendNext, CycleTrend

\* A poll that is due is in another slot than the last one.
LEMMA DueInNewSlot ==
  ASSUME ticks \in Nat, last_poll \in 0 .. ticks, AlignedDue
  PROVE  Slot(ticks) # Slot(last_poll)
<1>1. PICK p \in Nat : p = last_poll
  OBVIOUS
<1>2. PICK d \in Nat \ {0} : d = LogInterval
  BY TrendAssumption
<1>3. PICK off \in Nat : off = IntervalOffset
  BY TrendAssumption
<1>4. PICK day \in Nat : day = ticks % DayLength
  BY MidnightFact
<1>5. PICK m \in Nat : m = Midnight
  BY MidnightFact
<1>6. p <= ticks /\ ticks - m = day
  BY <1>1, <1>4, <1>5, MidnightFact
<1>7. (day + off) \div d \in Int
  BY DivMod
<1>8. DayLength \in Nat \ {0}
  BY TrendAssumption
<1>9. p \div DayLength \in Nat
  <2>1. p \div DayLength \in Int /\ p \div DayLength >= 0
    BY <1>8, DivMod, DivOrder
  <2>. QED  BY <2>1
<1>. SUFFICES ASSUME Slot(ticks) = Slot(last_poll) PROVE FALSE
  OBVIOUS
<1>10. /\ p \div DayLength = ticks \div DayLength
      /\ ((p % DayLength) + off) \div d = (day + off) \div d
  BY <1>1, <1>2, <1>3, <1>4 DEF Slot
<1>11. p >= m
  <2>1. PICK q \in Nat : q = p \div DayLength
    BY <1>9
  <2>2. m = DayLength * q
    BY <1>5, <1>10, <1>8, <2>1, Q0 DEF Midnight
  <2>3. PICK r \in Nat : r = p % DayLength
    BY <1>8, DivMod
  <2>4. p = DayLength * q + r
    BY <1>8, <2>1, <2>3, DivMod
  <2>. QED  BY <2>2, <2>4
<1>12. p - m = p % DayLength
  BY <1>5, <1>6, <1>11, MidnightFact
<1>13. PICK now \in Nat : now = ticks - m + off /\ now = day + off
  BY <1>6
<1>14. PICK then \in Nat : then = p - m + off /\ then = (p % DayLength) + off
  BY <1>11, <1>12
<1>15. Truncated(now) = now \div d /\ Truncated(then) = then \div d
  BY <1>2, <1>13, <1>14 DEF Truncated
<1>16. Truncated(now) > Truncated(then)
  BY <1>1, <1>3, <1>5, <1>13, <1>14, TrendAssumption DEF AlignedDue
<1>. QED  BY <1>10, <1>13, <1>14, <1>15, <1>16, <1>7

\* What a log is to record it records once: a change of the object it is
\* subscribed to, a poll of a slot; nothing while it is off (_on_change,
\* _handle_polled and _evaluate_trendlog).
THEOREM RecordedOnceTheorem == EnginesSpec => RecordedOnce
<1>1. EnginesSpec => EnginesInit /\ [][EnginesNext]_engines_vars
  BY PTL DEF EnginesSpec
<1>2. EnginesInit => TrendOK
  BY InitTrend DEF EnginesInit
<1>3. [EnginesNext]_engines_vars => TrendStep
  BY DEF EnginesNext, EventPart, TrendPart, SchedulePart, AuditPart, Maintained, engines_vars,
         TrendStep
<1>4. TrendOK /\ [EnginesNext]_engines_vars => TrendOK'
  BY <1>3, StepTrend DEF TrendStep
<1>5. [EnginesNext]_engines_vars =>
        [recorded' # recorded /\ recorded' # <<>> => Logging(log)]_trend_vars
  BY <1>3, OnlyWhileLogging
<1>6. TrendOK /\ [EnginesNext]_engines_vars =>
        [\A t \in Targets :
           /\ ~lost_track /\ subscribed /\ log.target = t /\ Logging(log) /\ Taken(log)
           /\ objects'[t].pv # objects[t].pv /\ resets' = resets
           => recorded' = Append(recorded, [from |-> t, value |-> objects'[t].pv])]_trend_vars
  BY <1>3, ChangeRecorded
<1>7. TrendOK /\ [EnginesNext]_engines_vars =>
        [CyclePolled /\ log.align /\ last_poll # NEVER /\ last_poll' # last_poll
           => Slot(ticks) # Slot(last_poll)]_trend_vars
  <2>. SUFFICES ASSUME TrendOK, CyclePolled, log.align, last_poll # NEVER, last_poll' # last_poll
                PROVE  Slot(ticks) # Slot(last_poll)
    OBVIOUS
  <2>1. ticks \in Nat /\ last_poll \in 0 .. ticks
    BY DEF TrendOK, PollsOK
  <2>2. AlignedDue
    BY DEF CyclePolled, PollDue
  <2>. QED  BY <2>1, <2>2, DueInNewSlot
<1>8. EnginesSpec => NothingWhileOff
  BY <1>1, <1>5, PTL DEF NothingWhileOff
<1>9. EnginesSpec => ChangesRecorded
  BY <1>1, <1>2, <1>4, <1>6, PTL DEF ChangesRecorded
<1>10. EnginesSpec => SlotPolledOnce
  BY <1>1, <1>2, <1>4, <1>7, PTL DEF SlotPolledOnce
<1>. QED  BY <1>8, <1>9, <1>10, PTL DEF RecordedOnce

-----------------------------------------------------------------------------
(* The buffer of an audit log.                                             *)

AuditOperations == {"write", "create", "delete"}

Whats == (AuditOperations \X Oids) \cup ({"received"} \X Nat)

AuditRecords == [number : Nat, what : Whats]

AuditLogs ==
  [oid : Oids, enabled : BOOLEAN, size : BufferSizes, stop_when_full : BOOLEAN,
   buffer : Seq(AuditRecords), counter : Nat, count : Nat, total : Nat,
   taken : Seq(AuditRecords)]

\* The buffer is what was taken since some record, the numbers end with the
\* counter.
Holds(l) ==
  /\ l \in AuditLogs /\ l.count \in 0 .. Len(l.buffer)
  /\ l.total = IF l.taken = <<>> THEN 0 ELSE l.counter
  /\ \A k \in 1 .. Len(l.taken) : l.taken[k].number = l.counter - Len(l.taken) + k
  /\ \E start \in 1 .. Len(l.taken) + 1 :
       /\ l.buffer = SubSeq(l.taken, start, Len(l.taken))
       /\ l.taken # <<>> => start <= Len(l.taken)
  /\ \E m \in BufferSizes : Len(l.buffer) <= m

SameSwitches(k, l) ==
  /\ k.oid = l.oid /\ k.enabled = l.enabled /\ k.size = l.size
  /\ k.stop_when_full = l.stop_when_full

\* What l has become k by: new records have new numbers.
Fresh(l, k) ==
  /\ k.counter >= l.counter
  /\ \A r \in ToSet(k.buffer) : r \in ToSet(l.buffer) \/ r.number > l.counter

LEMMA NewHolds ==
  ASSUME NEW l \in NewAuditLogs
  PROVE  Holds(l)
<1>1. <<>> \in Seq(AuditRecords) /\ Len(<<>>) = 0
  OBVIOUS
<1>2. /\ l \in AuditLogs /\ l.buffer = <<>> /\ l.taken = <<>> /\ l.count = 0 /\ l.total = 0
      /\ l.size \in BufferSizes
  <2>1. PICK empty \in Seq(AuditRecords) : empty = <<>>
    BY <1>1, Zenon
  <2>2. l \in [oid : Oids, enabled : BOOLEAN, size : BufferSizes, stop_when_full : BOOLEAN,
               buffer : {empty}, counter : {0}, count : {0}, total : {0}, taken : {empty}]
    BY <2>1 DEF NewAuditLogs
  <2>3. /\ l \in AuditLogs /\ l.buffer = empty /\ l.taken = empty /\ l.count = 0 /\ l.total = 0
        /\ l.size \in BufferSizes
    BY <2>2 DEF AuditLogs
  <2>. QED  BY <2>1, <2>3
<1>3. 1 \in 1 .. Len(<<>>) + 1 /\ <<>> = SubSeq(<<>>, 1, Len(<<>>))
  BY <1>1, SubSeqEmpty
<1>4. Len(l.buffer) <= l.size
  <2>1. l.size \in Nat /\ Len(l.buffer) = 0
    BY <1>1, <1>2, AuditAssumption, Zenon
  <2>2. PICK size \in Nat : size = l.size
    BY <2>1
  <2>3. 0 <= size
    OBVIOUS
  <2>. QED  BY <2>1, <2>2, <2>3
<1>. QED  BY <1>1, <1>2, <1>3, <1>4 DEF Holds

\* The room that is made, and what remains of the buffer.
LEMMA TrimmedIsLatest ==
  ASSUME NEW l, Holds(l), ~Refuses(l), ~NoRoomToMake(l)
  PROVE  /\ \E start \in 1 .. Len(l.taken) + 1 : Trimmed(l) = SubSeq(l.taken, start, Len(l.taken))
         /\ Trimmed(l) \in Seq(AuditRecords) /\ ToSet(Trimmed(l)) \subseteq ToSet(l.buffer)
         /\ \E m \in BufferSizes : Len(Trimmed(l)) + 1 <= m
<1>1. /\ l \in AuditLogs /\ l.taken \in Seq(AuditRecords) /\ l.buffer \in Seq(AuditRecords)
      /\ l.size \in Nat /\ l.size \in BufferSizes /\ l.enabled \in BOOLEAN
      /\ l.stop_when_full \in BOOLEAN
  BY AuditAssumption, Zenon DEF Holds, AuditLogs
<1>2. PICK first \in 1 .. Len(l.taken) + 1 :
        /\ l.buffer = SubSeq(l.taken, first, Len(l.taken))
        /\ l.taken # <<>> => first <= Len(l.taken)
  BY DEF Holds
<1>3. CASE Len(l.buffer) >= l.size
  <2>1. ~l.stop_when_full /\ l.enabled
    BY <1>1, <1>3 DEF Refuses
  <2>2. l.buffer # <<>>
    <3>. SUFFICES ASSUME l.buffer = <<>> PROVE FALSE
      OBVIOUS
    <3>1. l.size = 0
      BY <1>1, <1>3
    <3>. QED  BY <2>1, <3>1 DEF NoRoomToMake
  <2>3. l.taken # <<>> /\ first <= Len(l.taken)
    <3>1. first <= Len(l.taken)
      BY <1>1, <1>2, <2>2, SubSeqEmpty
    <3>2. Len(<<>>) = 0
      OBVIOUS
    <3>. QED  BY <1>2, <3>1, <3>2
  <2>4. Trimmed(l) = Tail(l.buffer)
    BY <1>3 DEF Trimmed
  <2>5. Tail(SubSeq(l.taken, first, Len(l.taken))) = SubSeq(l.taken, first + 1, Len(l.taken))
    BY <1>1, <1>2, <2>3, HeadTailOfSubSeq
  <2>6. Trimmed(l) = SubSeq(l.taken, first + 1, Len(l.taken)) /\ first + 1 \in 1 .. Len(l.taken) + 1
    BY <1>1, <1>2, <2>3, <2>4, <2>5
  <2>7. PICK b : b = l.buffer
    OBVIOUS
  <2>8. /\ b \in Seq(AuditRecords) /\ b # <<>> /\ Tail(b) \in Seq(AuditRecords)
        /\ Len(Tail(b)) = Len(b) - 1 /\ Len(b) \in Nat
        /\ \A i \in 1 .. Len(Tail(b)) : Tail(b)[i] = b[i + 1]
    BY <1>1, <2>2, <2>7
  <2>9. ToSet(Tail(b)) \subseteq ToSet(b)
    BY <2>8 DEF ToSet
  <2>10. PICK m \in BufferSizes : Len(b) <= m
    BY <2>7 DEF Holds
  <2>11. Len(Tail(b)) + 1 <= m
    BY <2>8, <2>10
  <2>. QED  BY <2>4, <2>6, <2>7, <2>8, <2>9, <2>10, <2>11, Zenon
<1>4. CASE ~(Len(l.buffer) >= l.size)
  <2>1. Trimmed(l) = l.buffer
    BY <1>4 DEF Trimmed
  <2>2. Len(l.buffer) + 1 <= l.size
    BY <1>1, <1>4
  <2>. QED  BY <1>1, <1>2, <2>1, <2>2
<1>. QED  BY <1>3, <1>4

LEMMA AppendHolds ==
  ASSUME NEW l, Holds(l), NEW what \in Whats, NEW k, k = append_record_to(l, what)
  PROVE  /\ Holds(k) /\ SameSwitches(k, l) /\ Fresh(l, k)
         /\ l.enabled /\ ~l.stop_when_full /\ ~NoRoomToMake(l) => Len(k.taken) = Len(l.taken) + 1
<1>1. /\ l \in AuditLogs /\ l.taken \in Seq(AuditRecords) /\ l.buffer \in Seq(AuditRecords)
      /\ l.counter \in Nat /\ Len(l.taken) \in Nat
  BY DEF Holds, AuditLogs
<1>2. CASE Refuses(l)
  <2>1. k = l /\ ~(l.enabled /\ ~l.stop_when_full)
    BY <1>2 DEF append_record_to, Refuses
  <2>. QED  BY <1>1, <2>1 DEF SameSwitches, Fresh
<1>3. CASE ~Refuses(l) /\ NoRoomToMake(l)
  <2>1. k = [l EXCEPT !.counter = @ + 1]
    BY <1>3 DEF append_record_to
  <2>2. /\ k \in AuditLogs /\ k.buffer = l.buffer /\ k.taken = l.taken /\ k.count = l.count
        /\ k.total = l.total /\ k.counter = l.counter + 1 /\ SameSwitches(k, l)
    BY <1>1, <2>1 DEF AuditLogs, SameSwitches
  <2>3. l.taken = <<>>
    <3>. SUFFICES ASSUME l.taken # <<>> PROVE FALSE
      OBVIOUS
    <3>1. PICK start \in 1 .. Len(l.taken) + 1 :
            l.buffer = SubSeq(l.taken, start, Len(l.taken)) /\ start <= Len(l.taken)
      BY DEF Holds
    <3>2. SubSeq(l.taken, start, Len(l.taken)) # <<>>
      <4>1. PICK t \in Seq(AuditRecords) : t = l.taken
        BY <1>1
      <4>2. Len(SubSeq(t, start, Len(t))) = Len(t) - start + 1
        BY <1>1, <3>1, <4>1
      <4>3. Len(t) - start + 1 # 0 /\ Len(<<>>) = 0
        BY <1>1, <3>1, <4>1
      <4>. QED  BY <4>1, <4>2, <4>3
    <3>. QED  BY <1>3, <3>1, <3>2 DEF NoRoomToMake
  <2>4. Holds(k)
    BY <1>1, <2>2, <2>3 DEF Holds
  <2>5. Fresh(l, k)
    BY <1>1, <2>2 DEF Fresh
  <2>. QED  BY <1>3, <2>2, <2>4, <2>5
<1>4. CASE ~Refuses(l) /\ ~NoRoomToMake(l)
  <2>1. PICK cut \in Seq(AuditRecords) : cut = Trimmed(l)
    BY <1>4, TrimmedIsLatest
  <2>2. PICK number \in Nat : number = l.counter + 1
    BY <1>1
  <2>3. PICK r \in AuditRecords : r = [number |-> number, what |-> what]
    BY Zenon DEF AuditRecords
  <2>4. PICK b : b = Append(cut, r)
    BY Zenon
  <2>5. PICK taken : taken = Append(l.taken, r)
    BY Zenon
  <2>6. /\ b \in Seq(AuditRecords) /\ Len(b) \in Nat /\ Len(b) = Len(cut) + 1
        /\ \A i \in 1 .. Len(b) : b[i] = IF i <= Len(cut) THEN cut[i] ELSE r
    BY <2>1, <2>4
  <2>7. /\ taken \in Seq(AuditRecords) /\ Len(taken) = Len(l.taken) + 1 /\ taken # <<>>
        /\ \A i \in 1 .. Len(taken) : taken[i] = IF i <= Len(l.taken) THEN l.taken[i] ELSE r
    BY <1>1, <2>5
  <2>8. k = [l EXCEPT !.counter = @ + 1, !.buffer = b, !.count = Len(b),
                      !.total = l.counter + 1, !.taken = Append(@, r)]
    BY <1>4, <2>1, <2>2, <2>3, <2>4 DEF append_record_to
  <2>9. PICK n \in Nat : n = Len(b)
    BY <2>6
  <2>10. k = [l EXCEPT !.counter = number, !.buffer = b, !.count = n, !.total = number,
                       !.taken = taken]
    BY <1>1, <2>2, <2>5, <2>8, <2>9 DEF AuditLogs
  <2>11. /\ k \in AuditLogs /\ k.buffer = b /\ k.taken = taken /\ k.count = n
         /\ k.total = number /\ k.counter = number
    BY <1>1, <2>6, <2>7, <2>10, Zenon DEF AuditLogs
  <2>12. SameSwitches(k, l)
    BY <1>1, <2>10 DEF AuditLogs, SameSwitches
  <2>13. PICK start \in 1 .. Len(l.taken) + 1 : cut = SubSeq(l.taken, start, Len(l.taken))
    BY <1>4, <2>1, TrimmedIsLatest
  <2>14. b = SubSeq(taken, start, Len(taken))
    BY <1>1, <2>3, <2>4, <2>5, <2>13, AppendToLatest, Zenon
  <2>15. start \in 1 .. Len(taken) + 1 /\ start <= Len(taken)
    BY <1>1, <2>7
  <2>16. PICK m \in BufferSizes : Len(b) <= m
    BY <1>4, <2>1, <2>6, TrimmedIsLatest
  <2>17. \A i \in 1 .. Len(taken) : taken[i].number = number - Len(taken) + i
    <3>. SUFFICES ASSUME NEW i \in 1 .. Len(taken)
                  PROVE  taken[i].number = number - Len(taken) + i
      OBVIOUS
    <3>1. i <= Len(l.taken) => l.taken[i].number = l.counter - Len(l.taken) + i
      BY <1>1 DEF Holds
    <3>2. r.number = number
      BY <2>3
    <3>3. CASE i <= Len(l.taken)
      <4>1. PICK a \in Nat : a = Len(l.taken)
        BY <1>1
      <4>2. PICK c \in Nat : c = l.counter
        BY <1>1
      <4>3. taken[i] = l.taken[i] /\ Len(taken) = a + 1 /\ number = c + 1
        BY <2>2, <2>7, <3>3, <4>1, <4>2
      <4>4. l.taken[i].number = c - a + i
        BY <3>1, <3>3, <4>1, <4>2
      <4>5. c - a + i = c + 1 - (a + 1) + i
        OBVIOUS
      <4>. QED  BY <4>3, <4>4, <4>5
    <3>4. CASE ~(i <= Len(l.taken))
      <4>1. i = Len(taken) /\ taken[i] = r
        BY <1>1, <2>7, <3>4
      <4>2. number = number - i + i
        BY <1>1, <2>2, <2>7
      <4>. QED  BY <3>2, <4>1, <4>2
    <3>. QED  BY <3>3, <3>4
  <2>18. Holds(k)
    <3>1. k.count \in 0 .. Len(k.buffer) /\ k.total = (IF k.taken = <<>> THEN 0 ELSE k.counter)
      BY <2>7, <2>9, <2>11
    <3>2. \A i \in 1 .. Len(k.taken) : k.taken[i].number = k.counter - Len(k.taken) + i
      BY <2>11, <2>17
    <3>3. \E first \in 1 .. Len(k.taken) + 1 :
            /\ k.buffer = SubSeq(k.taken, first, Len(k.taken))
            /\ k.taken # <<>> => first <= Len(k.taken)
      BY <2>11, <2>14, <2>15
    <3>4. \E most \in BufferSizes : Len(k.buffer) <= most
      BY <2>11, <2>16
    <3>. QED  BY <2>11, <3>1, <3>2, <3>3, <3>4 DEF Holds
  <2>19. Fresh(l, k)
    <3>1. ASSUME NEW x \in ToSet(b) PROVE x \in ToSet(l.buffer) \/ x.number > l.counter
      <4>1. PICK i \in 1 .. Len(b) : x = b[i]
        BY <2>6 DEF ToSet
      <4>2. CASE i <= Len(cut)
        <5>1. x \in ToSet(cut)
          BY <2>1, <2>6, <4>1, <4>2 DEF ToSet
        <5>. QED  BY <1>4, <2>1, <5>1, TrimmedIsLatest
      <4>3. CASE ~(i <= Len(cut))
        <5>1. x = r
          BY <2>6, <4>1, <4>3
        <5>. QED  BY <1>1, <2>2, <2>3, <5>1
      <4>. QED  BY <4>2, <4>3
    <3>. QED  BY <1>1, <2>2, <2>11, <3>1 DEF Fresh
  <2>. QED  BY <2>7, <2>11, <2>12, <2>18, <2>19
<1>. QED  BY <1>2, <1>3, <1>4

-----------------------------------------------------------------------------
(* Several records, in all logs.                                           *)

LogsOK(ls) ==
  /\ ls \in Seq(AuditLogs) /\ \A i \in DOMAIN ls : Holds(ls[i])
  /\ \A i, j \in DOMAIN ls : ls[i].oid = ls[j].oid => i = j

\* What the logs ls have become after m records, all taken if st is ok.
Grown(ls, st, m) ==
  /\ st.logs \in Seq(AuditLogs) /\ Len(st.logs) = Len(ls)
  /\ \A i \in DOMAIN ls :
       /\ Holds(st.logs[i]) /\ SameSwitches(st.logs[i], ls[i]) /\ Fresh(ls[i], st.logs[i])
       /\ st.ok /\ ls[i].enabled /\ ~ls[i].stop_when_full =>
            Len(st.logs[i].taken) = Len(ls[i].taken) + m

LEMMA FreshTrans ==
  ASSUME NEW l, NEW k, NEW j, Fresh(l, k), Fresh(k, j),
         l.counter \in Nat, k.counter \in Nat, j.counter \in Nat,
         \A r \in ToSet(j.buffer) : r.number \in Int
  PROVE  Fresh(l, j)
BY DEF Fresh

LEMMA RecordsAreNumbered ==
  ASSUME NEW l, Holds(l)
  PROVE  l.counter \in Nat /\ \A r \in ToSet(l.buffer) : r.number \in Nat /\ r \in AuditRecords
<1>1. l \in AuditLogs
  BY DEF Holds
<1>2. l.counter \in Nat /\ l.buffer \in Seq(AuditRecords)
  BY <1>1 DEF AuditLogs
<1>3. \A r \in ToSet(l.buffer) : r \in AuditRecords
  BY <1>2 DEF ToSet
<1>. QED  BY <1>2, <1>3 DEF AuditRecords

LEMMA DeliverOne ==
  ASSUME NEW ls \in Seq(AuditLogs), NEW m \in Nat, NEW st, Grown(ls, st, m), NEW what \in Whats,
         NEW new, new = deliver_one(st, what)
  PROVE  Grown(ls, new, m + 1)
<1>1. CASE ~st.ok
  BY <1>1, Zenon DEF deliver_one, Grown
<1>2. CASE st.ok
  <2>1. new.logs = append_to_logs(st.logs, what)
        /\ new.ok = \A j \in DOMAIN st.logs : ~NoRoomToMake(st.logs[j])
    BY <1>2 DEF deliver_one
  <2>2. /\ st.logs \in Seq(AuditLogs) /\ Len(st.logs) = Len(ls) /\ Len(ls) \in Nat
        /\ DOMAIN ls = 1 .. Len(ls) /\ DOMAIN st.logs = 1 .. Len(ls)
    BY DEF Grown
  <2>3. ASSUME NEW i \in DOMAIN ls
        PROVE  /\ Holds(new.logs[i]) /\ SameSwitches(new.logs[i], ls[i]) /\ Fresh(ls[i], new.logs[i])
               /\ new.ok /\ ls[i].enabled /\ ~ls[i].stop_when_full =>
                    Len(new.logs[i].taken) = Len(ls[i].taken) + (m + 1)
    <3>1. PICK l : l = st.logs[i]
      OBVIOUS
    <3>2. PICK k : k = append_record_to(l, what)
      OBVIOUS
    <3>3. /\ Holds(l) /\ SameSwitches(l, ls[i]) /\ Fresh(ls[i], l)
          /\ ls[i].enabled /\ ~ls[i].stop_when_full => Len(l.taken) = Len(ls[i].taken) + m
      BY <1>2, <3>1 DEF Grown
    <3>4. Holds(k) /\ SameSwitches(k, l) /\ Fresh(l, k)
      BY <3>2, <3>3, AppendHolds
    <3>5. new.logs[i] = IF \E j \in 1 .. i - 1 : NoRoomToMake(st.logs[j]) THEN l ELSE k
      BY <2>1, <2>2, <3>1, <3>2 DEF append_to_logs
    <3>6. Fresh(ls[i], k)
      <4>1. ls[i].counter \in Nat
        <5>1. ls[i] \in AuditLogs
          OBVIOUS
        <5>. QED  BY <5>1 DEF AuditLogs
      <4>2. PICK first : first = ls[i]
        OBVIOUS
      <4>3. k.counter \in Nat /\ l.counter \in Nat /\ \A r \in ToSet(k.buffer) : r.number \in Int
        BY <3>3, <3>4, RecordsAreNumbered
      <4>4. Fresh(first, l) /\ first.counter \in Nat
        BY <3>3, <4>1, <4>2
      <4>. QED  BY <3>4, <4>2, <4>3, <4>4, FreshTrans
    <3>7. SameSwitches(k, ls[i])
      BY <3>3, <3>4 DEF SameSwitches
    <3>8. new.ok /\ ls[i].enabled /\ ~ls[i].stop_when_full =>
            Len(new.logs[i].taken) = Len(ls[i].taken) + (m + 1)
      <4>. SUFFICES ASSUME new.ok, ls[i].enabled, ~ls[i].stop_when_full
                    PROVE  Len(new.logs[i].taken) = Len(ls[i].taken) + (m + 1)
        BY Zenon
      <4>1. \A j \in 1 .. Len(ls) : ~NoRoomToMake(st.logs[j])
        BY <2>1, <2>2, Zenon
      <4>2. new.logs[i] = k /\ ~NoRoomToMake(l)
        BY <2>2, <3>1, <3>5, <4>1
      <4>3. l.enabled /\ ~l.stop_when_full
        BY <3>3 DEF SameSwitches
      <4>4. Len(k.taken) = Len(l.taken) + 1
        BY <3>2, <3>3, <4>2, <4>3, AppendHolds
      <4>5. Len(ls[i].taken) \in Nat
        <5>1. ls[i] \in AuditLogs
          OBVIOUS
        <5>2. ls[i].taken \in Seq(AuditRecords)
          BY <5>1 DEF AuditLogs
        <5>. QED  BY <5>2
      <4>6. PICK first \in Nat : first = Len(ls[i].taken)
        BY <4>5
      <4>7. Len(l.taken) = first + m
        BY <3>3, <4>6
      <4>8. Len(k.taken) = first + m + 1
        BY <4>4, <4>7
      <4>9. first + m + 1 = first + (m + 1)
        OBVIOUS
      <4>. QED  BY <4>2, <4>6, <4>8, <4>9
    <3>. QED  BY <3>3, <3>4, <3>5, <3>6, <3>7, <3>8, Zenon
  <2>4. new.logs = [i \in 1 .. Len(ls) |-> new.logs[i]]
    BY <2>1, <2>2 DEF append_to_logs
  <2>5. \A i \in 1 .. Len(ls) : new.logs[i] \in AuditLogs
    BY <2>2, <2>3, Zenon DEF Holds
  <2>6. new.logs \in Seq(AuditLogs) /\ Len(new.logs) = Len(ls)
    BY <2>2, <2>4, <2>5
  <2>. QED  BY <2>3, <2>6, Zenon DEF Grown
<1>. QED  BY <1>1, <1>2

StateOK(st) == TRUE

DeliverFold == INSTANCE OperatorFacts WITH SeqSpace <- 1, MaxReassembly <- 1,
  Op <- deliver_one, Inv <- StateOK, Elements <- Whats

LEMMA DeliverIs ==
  ASSUME NEW ls, NEW whats
  PROVE  Deliver(ls, whats) = DeliverFold!Fold([logs |-> ls, ok |-> TRUE], whats)
BY DEF Deliver, DeliverFold!Fold, DeliverFold!FoldLeft, DeliverFold!MapThenFoldSet, FoldLeft,
       MapThenFoldSet, DeliverFold!Max, Max

LEMMA DeliverGrows ==
  ASSUME NEW ls, LogsOK(ls), NEW n \in Nat, NEW whats \in [1 .. n -> Whats],
         NEW st, st = Deliver(ls, whats)
  PROVE  Grown(ls, st, n)
<1>1. PICK base : base = [logs |-> ls, ok |-> TRUE]
  BY Zenon
<1>2. ls \in Seq(AuditLogs) /\ \A i \in DOMAIN ls : Holds(ls[i])
  BY DEF LogsOK
<1>3. PICK h : h[0] = base /\ h[n] = DeliverFold!Fold(base, whats) /\ DeliverFold!Steps(h, whats, n)
  BY DeliverFold!FoldIsIteration, SMTT(60)
<1>4. Grown(ls, base, 0)
  <2>1. ASSUME NEW i \in DOMAIN ls
        PROVE  /\ SameSwitches(ls[i], ls[i]) /\ Fresh(ls[i], ls[i])
               /\ Len(ls[i].taken) = Len(ls[i].taken) + 0
    <3>1. ls[i] \in AuditLogs
      BY <1>2
    <3>2. ls[i].counter \in Nat /\ ls[i].taken \in Seq(AuditRecords)
      BY <3>1 DEF AuditLogs
    <3>. QED  BY <3>2 DEF SameSwitches, Fresh
  <2>2. base.logs = ls
    BY <1>1
  <2>. QED  BY <1>2, <2>1, <2>2 DEF Grown
<1>5. Grown(ls, h[n], n)
  <2>. DEFINE Bad == { m \in 0 .. n : ~Grown(ls, h[m], m) }
  <2>. SUFFICES ASSUME Bad # {} PROVE FALSE
    OBVIOUS
  <2>1. PICK m \in Bad : \A y \in Bad : m <= y
    <3>. Bad \in SUBSET Nat
      OBVIOUS
    <3>. HIDE DEF Bad
    <3>. QED  BY DeliverFold!LeastNat
  <2>2. m # 0
    BY <1>3, <1>4, <2>1
  <2>3. m \in 1 .. n /\ m - 1 \in 0 .. n /\ m - 1 \notin Bad
    BY <2>1, <2>2
  <2>4. Grown(ls, h[m - 1], m - 1) /\ h[m] = deliver_one(h[m - 1], whats[m])
    BY <1>3, <2>3 DEF DeliverFold!Steps
  <2>5. whats[m] \in Whats /\ m - 1 \in Nat
    BY <2>3
  <2>6. Grown(ls, h[m], (m - 1) + 1)
    BY <1>2, <2>4, <2>5, DeliverOne
  <2>7. (m - 1) + 1 = m
    BY <2>3
  <2>. QED  BY <2>1, <2>6, <2>7
<1>. QED  BY <1>1, <1>3, <1>5, DeliverIs

-----------------------------------------------------------------------------
(* The records from a number on.                                           *)

Ascending(s) == \A i, j \in 1 .. Len(s) : i < j => s[i].number < s[j].number

\* What has been found among the first m records of b.
Filtered(st, b, m, at) ==
  /\ st \in [at : {at}, found : Seq(AuditRecords)] /\ Ascending(st.found)
  /\ \A k \in 1 .. Len(st.found) : \E i \in 1 .. m : st.found[k] = b[i] /\ b[i].number >= at
  /\ \A i \in 1 .. m : b[i].number >= at => \E k \in 1 .. Len(st.found) : st.found[k] = b[i]

LEMMA KeepFrom ==
  ASSUME NEW b \in Seq(AuditRecords), Ascending(b), NEW at \in Nat, NEW m \in 1 .. Len(b),
         NEW st, Filtered(st, b, m - 1, at), NEW new, new = keep_from(st, b[m])
  PROVE  Filtered(new, b, m, at)
<1>1. /\ st \in [at : {at}, found : Seq(AuditRecords)] /\ st.at = at
      /\ st.found \in Seq(AuditRecords) /\ Ascending(st.found)
      /\ \A k \in 1 .. Len(st.found) : \E i \in 1 .. m - 1 : st.found[k] = b[i] /\ b[i].number >= at
      /\ \A i \in 1 .. m - 1 : b[i].number >= at =>
           \E k \in 1 .. Len(st.found) : st.found[k] = b[i]
  BY DEF Filtered
<1>2. b[m] \in AuditRecords /\ \A i \in 1 .. m : b[i] \in AuditRecords /\ b[i].number \in Nat
  <2>1. \A i \in 1 .. Len(b) : b[i] \in AuditRecords
    OBVIOUS
  <2>2. \A i \in 1 .. m : i \in 1 .. Len(b)
    OBVIOUS
  <2>3. \A r \in AuditRecords : r.number \in Nat
    BY DEF AuditRecords
  <2>. QED  BY <2>1, <2>2, <2>3
<1>3. CASE b[m].number >= at
  <2>1. PICK r \in AuditRecords : r = b[m]
    BY <1>2
  <2>2. PICK s \in Seq(AuditRecords) : s = st.found
    BY <1>1
  <2>3. PICK f : f = Append(s, r)
    BY Zenon
  <2>4. /\ f \in Seq(AuditRecords) /\ Len(s) \in Nat /\ Len(f) = Len(s) + 1
        /\ \A k \in 1 .. Len(f) : f[k] = IF k <= Len(s) THEN s[k] ELSE r
    BY <2>3
  <2>5. new = [st EXCEPT !.found = f]
    BY <1>1, <1>3, <2>1, <2>2, <2>3 DEF keep_from
  <2>6. new \in [at : {at}, found : Seq(AuditRecords)] /\ new.found = f
    BY <1>1, <2>4, <2>5
  <2>7. ASSUME NEW k \in 1 .. Len(s)
        PROVE  s[k].number < r.number /\ s[k].number \in Nat
    <3>1. PICK i \in 1 .. m - 1 : s[k] = b[i]
      BY <1>1, <2>2
    <3>2. i \in 1 .. Len(b) /\ m \in 1 .. Len(b) /\ i < m /\ i \in 1 .. m
      OBVIOUS
    <3>3. b[i].number < b[m].number
      BY <3>2 DEF Ascending
    <3>. QED  BY <1>2, <2>1, <3>1, <3>2, <3>3
  <2>8. Ascending(f)
    <3>. SUFFICES ASSUME NEW i \in 1 .. Len(f), NEW j \in 1 .. Len(f), i < j
                  PROVE  f[i].number < f[j].number
      BY DEF Ascending
    <3>1. i \in 1 .. Len(s) /\ f[i] = s[i]
      BY <2>4
    <3>2. CASE j <= Len(s)
      <4>1. Ascending(s) /\ j \in 1 .. Len(s) /\ f[j] = s[j]
        BY <1>1, <2>2, <2>4, <3>2
      <4>. QED  BY <3>1, <4>1 DEF Ascending
    <3>3. CASE ~(j <= Len(s))
      BY <2>4, <2>7, <3>1, <3>3
    <3>. QED  BY <3>2, <3>3
  <2>9. ASSUME NEW k \in 1 .. Len(f) PROVE \E i \in 1 .. m : f[k] = b[i] /\ b[i].number >= at
    <3>1. CASE k <= Len(s)
      <4>1. k \in 1 .. Len(s) /\ f[k] = s[k]
        BY <2>4, <3>1
      <4>2. PICK i \in 1 .. m - 1 : s[k] = b[i] /\ b[i].number >= at
        BY <1>1, <2>2, <4>1
      <4>3. i \in 1 .. m
        OBVIOUS
      <4>. QED  BY <4>1, <4>2, <4>3
    <3>2. CASE ~(k <= Len(s))
      BY <1>3, <2>1, <2>4, <3>2
    <3>. QED  BY <3>1, <3>2
  <2>10. ASSUME NEW i \in 1 .. m, b[i].number >= at PROVE \E k \in 1 .. Len(f) : f[k] = b[i]
    <3>1. CASE i <= m - 1
      <4>1. i \in 1 .. m - 1
        BY <3>1
      <4>2. PICK k \in 1 .. Len(s) : s[k] = b[i]
        BY <1>1, <2>2, <2>10, <4>1
      <4>3. k \in 1 .. Len(f) /\ f[k] = s[k]
        BY <2>4
      <4>. QED  BY <4>2, <4>3
    <3>2. CASE ~(i <= m - 1)
      BY <2>1, <2>4, <3>2
    <3>. QED  BY <3>1, <3>2
  <2>. QED  BY <2>6, <2>8, <2>9, <2>10 DEF Filtered
<1>4. CASE ~(b[m].number >= at)
  <2>1. new = st
    BY <1>1, <1>4 DEF keep_from
  <2>2. \A k \in 1 .. Len(st.found) : \E i \in 1 .. m : st.found[k] = b[i] /\ b[i].number >= at
    BY <1>1
  <2>3. \A i \in 1 .. m : b[i].number >= at => \E k \in 1 .. Len(st.found) : st.found[k] = b[i]
    BY <1>1, <1>4
  <2>. QED  BY <1>1, <2>1, <2>2, <2>3 DEF Filtered
<1>. QED  BY <1>3, <1>4

PageFold == INSTANCE OperatorFacts WITH SeqSpace <- 1, MaxReassembly <- 1,
  Op <- keep_from, Inv <- StateOK, Elements <- AuditRecords

LEMMA FilterIs ==
  ASSUME NEW b \in Seq(AuditRecords), Ascending(b), NEW at \in Nat,
         NEW st, st = FoldLeft(keep_from, [at |-> at, found |-> <<>>], b)
  PROVE  Filtered(st, b, Len(b), at)
<1>1. PICK base : base = [at |-> at, found |-> <<>>]
  OBVIOUS
<1>2. PICK n \in Nat : n = Len(b) /\ DOMAIN b = 1 .. n
  OBVIOUS
<1>3. PICK h : h[0] = base /\ h[n] = PageFold!Fold(base, b) /\ PageFold!Steps(h, b, n)
  BY <1>2, PageFold!FoldIsIteration, SMTT(60)
<1>4. st = h[n]
  BY <1>1, <1>3 DEF PageFold!Fold, PageFold!FoldLeft, PageFold!MapThenFoldSet, FoldLeft,
                    MapThenFoldSet, PageFold!Max, Max
<1>5. Filtered(h[0], b, 0, at)
  <2>1. PICK empty \in Seq(AuditRecords) : empty = <<>> /\ Len(empty) = 0
    <3>1. <<>> \in Seq(AuditRecords) /\ Len(<<>>) = 0
      OBVIOUS
    <3>. QED  BY <3>1, Zenon
  <2>2. h[0] \in [at : {at}, found : Seq(AuditRecords)] /\ h[0].found = empty
    BY <1>1, <1>3, <2>1
  <2>. QED  BY <2>1, <2>2 DEF Filtered, Ascending
<1>6. Filtered(h[n], b, n, at)
  <2>. DEFINE Bad == { m \in 0 .. n : ~Filtered(h[m], b, m, at) }
  <2>. SUFFICES ASSUME Bad # {} PROVE FALSE
    OBVIOUS
  <2>1. PICK m \in Bad : \A y \in Bad : m <= y
    <3>. Bad \in SUBSET Nat
      OBVIOUS
    <3>. HIDE DEF Bad
    <3>. QED  BY PageFold!LeastNat
  <2>2. m # 0
    BY <1>5, <2>1
  <2>3. m \in 1 .. n /\ m - 1 \in 0 .. n /\ m - 1 \notin Bad
    BY <2>1, <2>2
  <2>4. Filtered(h[m - 1], b, m - 1, at) /\ h[m] = keep_from(h[m - 1], b[m])
    BY <1>3, <2>3 DEF PageFold!Steps
  <2>5. Filtered(h[m], b, m, at)
    BY <1>2, <2>3, <2>4, KeepFrom
  <2>. QED  BY <2>1, <2>5
<1>. QED  BY <1>2, <1>4, <1>6

-----------------------------------------------------------------------------
(* A client that reads a log.                                              *)

Pagers ==
  [log : Oids, at : Nat \cup {FROM_START}, seen : Seq(AuditRecords), over : BOOLEAN,
   same : BOOLEAN]

\* What the client has seen of the log is all that is in the buffer below the
\* number it goes on from.
ReadUpTo(p, l) ==
  /\ p.at = FROM_START => p.seen = <<>>
  /\ p.at # FROM_START =>
       /\ p.at <= l.counter + 1
       /\ \A r \in ToSet(l.buffer) : r.number < p.at => r \in ToSet(p.seen)
       /\ \A k \in 1 .. Len(p.seen) : p.seen[k].number < p.at
  /\ Ascending(p.seen)

LEMMA Compared ==
  ASSUME NEW x \in Nat, NEW y \in Nat
  PROVE  \E yes \in BOOLEAN : yes = (x <= y) /\ (yes => x <= y)
<1>1. CASE x <= y
  <2>1. TRUE = (x <= y)
    BY <1>1
  <2>. QED  BY <1>1, <2>1, Zenon
<1>2. CASE ~(x <= y)
  <2>1. FALSE = (x <= y)
    BY <1>2
  <2>. QED  BY <2>1, Zenon
<1>. QED  BY <1>1, <1>2

LEMMA BufferAscends ==
  ASSUME NEW l, Holds(l)
  PROVE  /\ Ascending(l.buffer)
         /\ \A k \in 1 .. Len(l.buffer) : l.buffer[k].number <= l.counter
<1>1. /\ l.taken \in Seq(AuditRecords) /\ l.buffer \in Seq(AuditRecords) /\ l.counter \in Nat
      /\ \A k \in 1 .. Len(l.taken) : l.taken[k].number = l.counter - Len(l.taken) + k
  BY Zenon DEF Holds, AuditLogs
<1>2. PICK start \in 1 .. Len(l.taken) + 1 : l.buffer = SubSeq(l.taken, start, Len(l.taken))
  BY DEF Holds
<1>3. PICK t \in Seq(AuditRecords) : t = l.taken
  BY <1>1
<1>4. PICK n \in Nat : n = Len(t)
  OBVIOUS
<1>5. PICK b \in Seq(AuditRecords) : b = l.buffer
  BY <1>1
<1>6. PICK c \in Nat : c = l.counter
  BY <1>1
<1>7. b = SubSeq(t, start, n) /\ start \in 1 .. n + 1
  BY <1>2, <1>3, <1>4, <1>5
<1>8. Len(b) = n - start + 1 /\ \A k \in 1 .. Len(b) : b[k] = t[start + k - 1]
  BY <1>4, <1>7
<1>9. \A k \in 1 .. n : t[k].number = c - n + k
  BY <1>1, <1>3, <1>4, <1>6
<1>10. \A k \in 1 .. Len(b) : b[k].number = c - n + (start + k - 1) /\ start + k - 1 <= n
  <2>. SUFFICES ASSUME NEW k \in 1 .. Len(b)
                PROVE  b[k].number = c - n + (start + k - 1) /\ start + k - 1 <= n
    BY Zenon
  <2>1. start + k - 1 \in 1 .. n
    BY <1>7, <1>8
  <2>2. PICK i \in 1 .. n : i = start + k - 1
    BY <2>1
  <2>3. b[k] = t[i] /\ t[i].number = c - n + i
    BY <1>8, <1>9, <2>2
  <2>. QED  BY <2>2, <2>3
<1>11. Ascending(b)
  <2>. SUFFICES ASSUME NEW i \in 1 .. Len(b), NEW j \in 1 .. Len(b), i < j
                PROVE  b[i].number < b[j].number
    BY DEF Ascending
  <2>1. b[i].number = c - n + (start + i - 1) /\ b[j].number = c - n + (start + j - 1)
    BY <1>10
  <2>2. c - n + (start + i - 1) < c - n + (start + j - 1)
    OBVIOUS
  <2>. QED  BY <2>1, <2>2
<1>12. \A k \in 1 .. Len(b) : b[k].number <= c
  BY <1>10
<1>. QED  BY <1>5, <1>6, <1>11, <1>12

\* What a query looks at: the records from the number on, in their order.
LEMMA FromStart ==
  ASSUME NEW l, Holds(l), NEW at \in Nat \cup {FROM_START}, NEW f, f = from_start(l, at)
  PROVE  /\ f \in Seq(AuditRecords) /\ Ascending(f)
         /\ ToSet(f) \subseteq ToSet(l.buffer)
         /\ at # FROM_START => \A k \in 1 .. Len(f) : f[k].number >= at
         /\ \A r \in ToSet(l.buffer) : at = FROM_START \/ r.number >= at => r \in ToSet(f)
<1>1. PICK b \in Seq(AuditRecords) : b = l.buffer /\ Ascending(b)
  BY BufferAscends, Zenon DEF Holds, AuditLogs
<1>2. CASE at = FROM_START
  <2>1. f = b
    BY <1>1, <1>2 DEF from_start
  <2>. QED  BY <1>1, <1>2, <2>1
<1>3. CASE at # FROM_START
  <2>1. at \in Nat
    BY <1>3
  <2>2. PICK st : st = FoldLeft(keep_from, [at |-> at, found |-> <<>>], b)
    OBVIOUS
  <2>3. f = st.found
    BY <1>1, <1>3, <2>2 DEF from_start
  <2>4. Filtered(st, b, Len(b), at)
    BY <1>1, <2>1, <2>2, FilterIs
  <2>5. /\ f \in Seq(AuditRecords) /\ Ascending(f)
        /\ \A k \in 1 .. Len(f) : \E i \in 1 .. Len(b) : f[k] = b[i] /\ b[i].number >= at
        /\ \A i \in 1 .. Len(b) : b[i].number >= at => \E k \in 1 .. Len(f) : f[k] = b[i]
    <3>1. /\ st.found \in Seq(AuditRecords) /\ Ascending(st.found)
          /\ \A k \in 1 .. Len(st.found) :
               \E i \in 1 .. Len(b) : st.found[k] = b[i] /\ b[i].number >= at
          /\ \A i \in 1 .. Len(b) :
               b[i].number >= at => \E k \in 1 .. Len(st.found) : st.found[k] = b[i]
      BY <2>4 DEF Filtered
    <3>. QED  BY <2>3, <3>1
  <2>6. DOMAIN f = 1 .. Len(f) /\ DOMAIN b = 1 .. Len(b)
    BY <2>5
  <2>7. ToSet(f) \subseteq ToSet(b)
    <3>. SUFFICES ASSUME NEW r \in ToSet(f) PROVE r \in ToSet(b)
      OBVIOUS
    <3>1. PICK k \in 1 .. Len(f) : r = f[k]
      BY <2>6 DEF ToSet
    <3>2. PICK i \in 1 .. Len(b) : f[k] = b[i]
      BY <2>5
    <3>. QED  BY <2>6, <3>1, <3>2 DEF ToSet
  <2>8. ASSUME NEW r \in ToSet(b), r.number >= at PROVE r \in ToSet(f)
    <3>1. PICK i \in 1 .. Len(b) : r = b[i]
      BY <2>6 DEF ToSet
    <3>2. PICK k \in 1 .. Len(f) : f[k] = b[i]
      BY <2>5, <2>8, <3>1
    <3>. QED  BY <2>6, <3>1, <3>2 DEF ToSet
  <2>9. \A k \in 1 .. Len(f) : f[k].number >= at
    BY <2>5
  <2>. QED  BY <1>1, <1>3, <2>5, <2>7, <2>8, <2>9
<1>. QED  BY <1>2, <1>3

\* A page leaves the client well typed, whatever it has read before.
LEMMA PageTyped ==
  ASSUME NEW l, Holds(l), NEW p \in Pagers, NEW count \in Nat \ {0},
         count = audit_setting.count, NEW k, k = next_page(p, l)
  PROVE  k \in Pagers
<1>. PICK f : f = from_start(l, p.at)
  OBVIOUS
<1>. PICK n : n = IF Len(f) <= count THEN Len(f) ELSE count
  OBVIOUS
<1>. PICK result : result = SubSeq(f, 1, n)
  BY Zenon
<1>0. k = [p EXCEPT !.seen = @ \o result, !.over = Len(f) <= count,
                    !.at = IF result = <<>> THEN @ ELSE result[n].number + 1]
  BY DEF next_page
<1>1. /\ p.log \in Oids /\ p.at \in Nat \cup {FROM_START} /\ p.seen \in Seq(AuditRecords)
      /\ p.same \in BOOLEAN
  BY DEF Pagers
<1>2. f \in Seq(AuditRecords)
  BY <1>1, FromStart, Zenon
<1>3. n \in 0 .. Len(f) /\ Len(f) \in Nat
  BY <1>2
<1>4. result \in Seq(AuditRecords) /\ Len(result) = n
  BY <1>2, <1>3
<1>5. PICK seen \in Seq(AuditRecords) : seen = p.seen \o result
  BY <1>1, <1>4, ConcatProperties, Zenon
<1>6. PICK over \in BOOLEAN : over = (Len(f) <= count)
  BY <1>3, Compared, Zenon
<1>7. PICK at \in Nat \cup {FROM_START} :
        at = IF result = <<>> THEN p.at ELSE result[n].number + 1
  <2>1. CASE result = <<>>
    BY <1>1, <2>1, Zenon
  <2>2. CASE result # <<>>
    <3>1. n \in 1 .. Len(result)
      BY <1>3, <1>4, <2>2, EmptySeq
    <3>2. result[n] \in AuditRecords
      BY <1>4, <3>1
    <3>3. PICK x \in Nat : x = result[n].number
      BY <3>2, Zenon DEF AuditRecords
    <3>4. x + 1 \in Nat
      OBVIOUS
    <3>. QED  BY <2>2, <3>3, <3>4
  <2>. QED  BY <2>1, <2>2
<1>8. k = [p EXCEPT !.seen = seen, !.over = over, !.at = at]
  BY <1>0, <1>5, <1>6, <1>7 DEF Pagers
<1>. QED  BY <1>1, <1>8, Zenon DEF Pagers

\* A page of the log, of which the client has read p, makes it k.
LEMMA PageReads ==
  ASSUME NEW l, Holds(l), NEW p \in Pagers, ReadUpTo(p, l), NEW count \in Nat \ {0},
         count = audit_setting.count, NEW k, k = next_page(p, l)
  PROVE  /\ k \in Pagers /\ ReadUpTo(k, l)
         /\ k.over => ToSet(l.buffer) \subseteq ToSet(k.seen)
<1>. PICK f : f = from_start(l, p.at)
  OBVIOUS
<1>. PICK n : n = IF Len(f) <= count THEN Len(f) ELSE count
  OBVIOUS
<1>. PICK result : result = SubSeq(f, 1, n)
  BY Zenon
<1>0. k = [p EXCEPT !.seen = @ \o result, !.over = Len(f) <= count,
                    !.at = IF result = <<>> THEN @ ELSE result[n].number + 1]
  BY DEF next_page
<1>1. /\ p.log \in Oids /\ p.at \in Nat \cup {FROM_START} /\ p.seen \in Seq(AuditRecords)
      /\ p.same \in BOOLEAN
  BY DEF Pagers
<1>2. /\ f \in Seq(AuditRecords) /\ Ascending(f) /\ ToSet(f) \subseteq ToSet(l.buffer)
      /\ p.at # FROM_START => \A i \in 1 .. Len(f) : f[i].number >= p.at
      /\ \A r \in ToSet(l.buffer) : p.at = FROM_START \/ r.number >= p.at => r \in ToSet(f)
  BY <1>1, FromStart, Zenon
<1>3. /\ n \in 0 .. Len(f) /\ Len(f) \in Nat /\ (n = 0 => Len(f) = 0)
      /\ (Len(f) <= count => n = Len(f)) /\ DOMAIN f = 1 .. Len(f)
  BY <1>2
<1>4. /\ result \in Seq(AuditRecords) /\ Len(result) = n
      /\ \A i \in 1 .. n : result[i] = f[i] /\ f[i] \in AuditRecords /\ f[i].number \in Nat
  <2>1. result \in Seq(AuditRecords) /\ Len(result) = n /\ \A i \in 1 .. n : result[i] = f[i]
    BY <1>2, <1>3
  <2>2. \A i \in 1 .. n : f[i] \in AuditRecords
    BY <1>2, <1>3
  <2>3. \A r \in AuditRecords : r.number \in Nat
    BY DEF AuditRecords
  <2>. QED  BY <2>1, <2>2, <2>3
<1>5. PICK old \in Seq(AuditRecords) : old = p.seen /\ Ascending(old)
  BY <1>1 DEF ReadUpTo
<1>6. PICK seen : seen = old \o result
  BY Zenon
<1>7. PICK a \in Nat : a = Len(old) /\ DOMAIN old = 1 .. a
  OBVIOUS
<1>8. /\ seen \in Seq(AuditRecords) /\ Len(seen) = a + n /\ DOMAIN seen = 1 .. a + n
      /\ \A i \in 1 .. a : seen[i] = old[i]
      /\ \A i \in 1 .. n : seen[a + i] = result[i]
  <2>1. PICK new \in Seq(AuditRecords) : new = result /\ Len(new) = n
    BY <1>4, Zenon
  <2>2. PICK all : all = old \o new
    BY Zenon
  <2>3. /\ all \in Seq(AuditRecords) /\ Len(all) = Len(old) + Len(new)
        /\ \A i \in 1 .. Len(old) : all[i] = old[i]
        /\ \A i \in 1 .. Len(new) : all[Len(old) + i] = new[i]
    BY <2>2
  <2>4. seen = all /\ DOMAIN all = 1 .. Len(all)
    BY <1>6, <2>1, <2>2, <2>3
  <2>. QED  BY <1>7, <2>1, <2>3, <2>4
<1>9. \A i \in 1 .. a + n : i <= a => i \in 1 .. a
  BY <1>3
<1>10. \A i \in 1 .. a + n : ~(i <= a) => i - a \in 1 .. n /\ seen[i] = f[i - a]
  <2>. SUFFICES ASSUME NEW i \in 1 .. a + n, ~(i <= a)
                PROVE  i - a \in 1 .. n /\ seen[i] = f[i - a]
    OBVIOUS
  <2>1. i - a \in 1 .. n /\ i = a + (i - a)
    BY <1>3
  <2>. QED  BY <1>4, <1>8, <2>1, Zenon
<1>11. PICK over \in BOOLEAN : over = (Len(f) <= count) /\ (over => n = Len(f))
  <2>1. PICK x \in Nat : x = Len(f)
    BY <1>3
  <2>2. PICK yes \in BOOLEAN : yes = (x <= count) /\ (yes => x <= count)
    BY Compared, Zenon
  <2>. QED  BY <1>3, <2>1, <2>2, Zenon
<1>14. k = [p EXCEPT !.seen = seen, !.over = over,
                     !.at = IF result = <<>> THEN p.at ELSE result[n].number + 1]
  BY <1>0, <1>5, <1>6, <1>11 DEF Pagers
<1>12. CASE n = 0
  <2>1. f = <<>> /\ result = <<>>
    BY <1>2, <1>3, <1>4, <1>12
  <2>2. seen = old
    BY <1>6, <2>1
  <2>3. k = [p EXCEPT !.over = over]
    BY <1>1, <1>5, <1>14, <2>1, <2>2, Zenon DEF Pagers
  <2>4. k \in Pagers /\ k.at = p.at /\ k.seen = p.seen
    BY <1>1, <2>3, Zenon DEF Pagers
  <2>5. ReadUpTo(k, l)
    BY <2>4 DEF ReadUpTo
  <2>6. ToSet(f) = {}
    <3>1. DOMAIN f = {}
      BY <1>3, <1>12
    <3>. QED  BY <3>1 DEF ToSet
  <2>7. ToSet(l.buffer) \subseteq ToSet(k.seen)
    <3>. SUFFICES ASSUME NEW r \in ToSet(l.buffer) PROVE r \in ToSet(p.seen)
      BY <2>4
    <3>1. p.at # FROM_START /\ ~(r.number >= p.at)
      BY <1>2, <2>6
    <3>2. r.number < p.at
      BY <1>1, <3>1, RecordsAreNumbered
    <3>. QED  BY <3>1, <3>2 DEF ReadUpTo
  <2>. QED  BY <2>4, <2>5, <2>7
<1>13. CASE n # 0
  <2>1. n \in 1 .. n /\ n \in 1 .. Len(f) /\ result # <<>>
    BY <1>3, <1>4, <1>13
  <2>2. PICK last \in Nat : last = f[n].number
    BY <1>4, <2>1
  <2>3. PICK next \in Nat : next = last + 1
    OBVIOUS
  <2>15. k = [p EXCEPT !.seen = seen, !.over = over, !.at = next]
    BY <1>4, <1>14, <2>1, <2>2, <2>3, Zenon
  <2>16. /\ k \in Pagers /\ k.at = next /\ k.seen = seen /\ k.over = over
    BY <1>1, <1>8, <2>15, Zenon DEF Pagers
  <2>4. /\ k \in Pagers /\ k.at = last + 1 /\ k.seen = seen /\ (k.over => n = Len(f))
        /\ k.at # FROM_START
    BY <1>11, <2>3, <2>16, AuditAssumption
  <2>5. f[n] \in ToSet(l.buffer) /\ last <= l.counter
    <3>1. f[n] \in ToSet(f)
      BY <1>3, <2>1 DEF ToSet
    <3>2. PICK b \in Seq(AuditRecords) : b = l.buffer
      BY DEF Holds, AuditLogs
    <3>3. \A i \in 1 .. Len(b) : b[i].number <= l.counter
      BY <3>2, BufferAscends
    <3>4. ASSUME NEW r \in ToSet(b) PROVE r.number <= l.counter
      <4>1. PICK i \in DOMAIN b : r = b[i]
        BY DEF ToSet
      <4>2. i \in 1 .. Len(b)
        OBVIOUS
      <4>. QED  BY <3>3, <4>1, <4>2
    <3>5. f[n] \in ToSet(l.buffer)
      BY <1>2, <3>1
    <3>. QED  BY <2>2, <3>2, <3>4, <3>5
  <2>6. \A i \in 1 .. n : f[i].number <= last
    <3>. SUFFICES ASSUME NEW i \in 1 .. n PROVE f[i].number <= last
      OBVIOUS
    <3>1. CASE i < n
      <4>1. i \in 1 .. Len(f)
        BY <1>3
      <4>2. f[i].number < f[n].number
        BY <1>2, <2>1, <3>1, <4>1 DEF Ascending
      <4>. QED  BY <1>4, <2>2, <4>2
    <3>2. CASE ~(i < n)
      <4>1. i = n
        BY <1>3, <3>2
      <4>. QED  BY <2>2, <4>1
    <3>. QED  BY <3>1, <3>2
  <2>7. p.at = FROM_START => a = 0
    <3>. SUFFICES ASSUME p.at = FROM_START PROVE a = 0
      OBVIOUS
    <3>1. old = <<>>
      BY <1>5 DEF ReadUpTo
    <3>. QED  BY <1>7, <3>1
  <2>8. \A i \in 1 .. a : old[i].number < last + 1 /\ \A j \in 1 .. n : old[i].number < f[j].number
    <3>. SUFFICES ASSUME NEW i \in 1 .. a, NEW j \in 1 .. n
                  PROVE  old[i].number < last + 1 /\ old[i].number < f[j].number
      BY <2>1
    <3>1. p.at # FROM_START /\ p.at \in Nat
      BY <1>1, <2>7
    <3>2. old[i].number < p.at
      BY <1>5, <1>7, <3>1 DEF ReadUpTo
    <3>3. j \in 1 .. Len(f) /\ f[j].number >= p.at /\ f[j].number <= last /\ f[j].number \in Nat
      <4>1. j \in 1 .. Len(f)
        BY <1>3
      <4>2. f[j].number >= p.at
        BY <1>2, <3>1, <4>1
      <4>. QED  BY <1>4, <2>6, <4>1, <4>2
    <3>4. old[i] \in AuditRecords
      BY <1>5, <1>7
    <3>5. old[i].number \in Nat
      BY <3>4 DEF AuditRecords
    <3>. QED  BY <3>1, <3>2, <3>3, <3>5
  <2>9. \A i \in 1 .. a + n : seen[i].number < last + 1
    <3>. SUFFICES ASSUME NEW i \in 1 .. a + n PROVE seen[i].number < last + 1
      OBVIOUS
    <3>1. CASE i <= a
      BY <1>8, <1>9, <2>8, <3>1
    <3>2. CASE ~(i <= a)
      <4>1. PICK y \in 1 .. n : seen[i] = f[y]
        BY <1>10, <3>2
      <4>2. f[y].number \in Nat /\ f[y].number <= last
        BY <1>4, <2>6
      <4>. QED  BY <4>1, <4>2
    <3>. QED  BY <3>1, <3>2
  <2>10. Ascending(seen)
    <3>. SUFFICES ASSUME NEW i \in 1 .. a + n, NEW j \in 1 .. a + n, i < j
                  PROVE  seen[i].number < seen[j].number
      BY <1>8 DEF Ascending
    <3>1. CASE j <= a
      <4>1. i \in 1 .. a /\ j \in 1 .. a /\ seen[i] = old[i] /\ seen[j] = old[j]
        BY <1>8, <1>9, <3>1
      <4>. QED  BY <1>5, <1>7, <4>1 DEF Ascending
    <3>2. CASE i <= a /\ ~(j <= a)
      <4>1. i \in 1 .. a /\ seen[i] = old[i] /\ j - a \in 1 .. n /\ seen[j] = f[j - a]
        BY <1>8, <1>9, <1>10, <3>2
      <4>. QED  BY <2>8, <4>1
    <3>3. CASE ~(i <= a)
      <4>3. ~(j <= a) /\ i - a < j - a
        BY <3>3
      <4>1. i - a \in 1 .. n /\ seen[i] = f[i - a] /\ j - a \in 1 .. n /\ seen[j] = f[j - a]
            /\ i - a < j - a
        BY <1>10, <3>3, <4>3, Zenon
      <4>2. i - a \in 1 .. Len(f) /\ j - a \in 1 .. Len(f)
        BY <1>3, <4>1
      <4>. QED  BY <1>2, <4>1, <4>2 DEF Ascending
    <3>. QED  BY <3>1, <3>2, <3>3
  <2>11. \A i \in 1 .. a : old[i] \in ToSet(seen)
    BY <1>3, <1>8 DEF ToSet
  <2>12. \A i \in 1 .. n : f[i] \in ToSet(seen)
    <3>. SUFFICES ASSUME NEW i \in 1 .. n PROVE f[i] \in ToSet(seen)
      OBVIOUS
    <3>1. a + i \in 1 .. a + n
      BY <1>3
    <3>2. a + i \in DOMAIN seen /\ seen[a + i] = f[i]
      BY <1>4, <1>8, <3>1
    <3>. QED  BY <3>2 DEF ToSet
  <2>13. ASSUME NEW r \in ToSet(l.buffer), r.number < last + 1 \/ k.over
         PROVE  r \in ToSet(seen)
    <3>1. r.number \in Nat
      BY RecordsAreNumbered
    <3>2. CASE p.at # FROM_START /\ r.number < p.at
      <4>1. r \in ToSet(old)
        BY <1>5, <3>2 DEF ReadUpTo
      <4>. QED  BY <1>7, <2>11, <4>1 DEF ToSet
    <3>3. CASE ~(p.at # FROM_START /\ r.number < p.at)
      <4>1. r \in ToSet(f)
        BY <1>1, <1>2, <3>1, <3>3
      <4>2. PICK i \in 1 .. Len(f) : r = f[i]
        BY <1>3, <4>1 DEF ToSet
      <4>3. i <= n
        <5>1. CASE k.over
          BY <1>3, <2>4, <5>1
        <5>2. CASE r.number < last + 1
          <6>. SUFFICES ASSUME n < i PROVE FALSE
            BY <1>3
          <6>1. f[n].number < f[i].number
            BY <1>2, <2>1 DEF Ascending
          <6>. QED  BY <2>2, <3>1, <4>2, <5>2, <6>1
        <5>. QED  BY <2>13, <5>1, <5>2
      <4>. QED  BY <2>12, <4>2, <4>3
    <3>. QED  BY <3>2, <3>3
  <2>14. ReadUpTo(k, l)
    <3>1. k.at <= l.counter + 1
      BY <2>4, <2>5, RecordsAreNumbered
    <3>2. \A r \in ToSet(l.buffer) : r.number < k.at => r \in ToSet(k.seen)
      BY <2>4, <2>13
    <3>3. \A i \in 1 .. Len(k.seen) : k.seen[i].number < k.at
      BY <1>8, <2>4, <2>9
    <3>. QED  BY <2>4, <2>10, <3>1, <3>2, <3>3 DEF ReadUpTo
  <2>. QED  BY <2>4, <2>13, <2>14
<1>. QED  BY <1>12, <1>13

-----------------------------------------------------------------------------
(* What a step does to the logs and to who reads them.                     *)

\* The logs ls, which a handler has prepared, are those that were there, by
\* name: they have taken the same.
Prepared(ls) ==
  /\ LogsOK(ls)
  /\ \A i \in DOMAIN logs, j \in DOMAIN ls :
       logs[i].oid = ls[j].oid =>
         logs[i].taken = ls[j].taken /\ logs[i].buffer = ls[j].buffer
         /\ logs[i].counter = ls[j].counter

\* The logs after the step are ls, with what they have taken since.
Followed(ls) ==
  /\ LogsOK(logs') /\ DOMAIN logs' = DOMAIN ls
  /\ \A i \in DOMAIN ls :
       logs'[i].oid = ls[i].oid /\ Holds(logs'[i]) /\ Fresh(ls[i], logs'[i])

PagerOK ==
  pager # NOT_PAGING =>
    /\ pager \in Pagers
    /\ pager.same => \E i \in DOMAIN logs : logs[i].oid = pager.log /\ ReadUpTo(pager, logs[i])

AuditOK ==
  /\ audit_setting \in AuditSettings /\ others \subseteq audit_setting.others
  /\ operations \in 0 .. audit_setting.operations /\ pages \in 0 .. audit_setting.pages
  /\ reporters \in Seq(AuditReporters) /\ LogsOK(logs) /\ PagerOK

LEMMA GrownLogs ==
  ASSUME NEW ls, LogsOK(ls), NEW m, NEW st, Grown(ls, st, m)
  PROVE  /\ LogsOK(st.logs) /\ DOMAIN st.logs = DOMAIN ls
         /\ \A i \in DOMAIN ls :
              /\ st.logs[i].oid = ls[i].oid /\ Holds(st.logs[i]) /\ Fresh(ls[i], st.logs[i])
              /\ st.logs[i].enabled = ls[i].enabled
              /\ st.logs[i].stop_when_full = ls[i].stop_when_full
<1>1. /\ st.logs \in Seq(AuditLogs) /\ Len(st.logs) = Len(ls) /\ ls \in Seq(AuditLogs)
      /\ \A i \in DOMAIN ls :
           Holds(st.logs[i]) /\ SameSwitches(st.logs[i], ls[i]) /\ Fresh(ls[i], st.logs[i])
  BY DEF LogsOK, Grown
<1>2. DOMAIN st.logs = DOMAIN ls
  BY <1>1
<1>3. \A i \in DOMAIN ls :
        /\ st.logs[i].oid = ls[i].oid /\ st.logs[i].enabled = ls[i].enabled
        /\ st.logs[i].stop_when_full = ls[i].stop_when_full
  BY <1>1 DEF SameSwitches
<1>4. \A i, j \in DOMAIN st.logs : st.logs[i].oid = st.logs[j].oid => i = j
  BY <1>2, <1>3 DEF LogsOK
<1>. QED  BY <1>1, <1>2, <1>3, <1>4 DEF LogsOK

\* What has been read of a log before is so of the log after.
LEMMA ReadFollows ==
  ASSUME NEW p \in Pagers, NEW l, NEW k, NEW j, ReadUpTo(p, l), Holds(l), Holds(j),
         l.buffer = k.buffer, l.counter = k.counter, Fresh(k, j)
  PROVE  ReadUpTo(p, j)
<1>1. l.counter \in Nat /\ j.counter \in Nat /\ j.counter >= l.counter
  BY RecordsAreNumbered DEF Fresh
<1>2. p.at \in Nat \cup {FROM_START}
  BY DEF Pagers
<1>3. ASSUME p.at # FROM_START, NEW r \in ToSet(j.buffer), r.number < p.at
      PROVE  r \in ToSet(p.seen)
  <2>1. r.number \in Nat
    BY RecordsAreNumbered
  <2>2. p.at <= l.counter + 1
    BY <1>3 DEF ReadUpTo
  <2>3. ~(r.number > k.counter)
    BY <1>1, <1>2, <1>3, <2>1, <2>2
  <2>4. r \in ToSet(l.buffer)
    BY <2>3 DEF Fresh
  <2>. QED  BY <1>3, <2>4 DEF ReadUpTo
<1>4. p.at # FROM_START => p.at <= j.counter + 1
  BY <1>1, <1>2 DEF ReadUpTo
<1>. QED  BY <1>3, <1>4 DEF ReadUpTo

LEMMA PagerFollows ==
  ASSUME PagerOK, LogsOK(logs), NEW ls, Prepared(ls), Followed(ls),
         pager' # NOT_PAGING => pager' \in Pagers,
         pager' # NOT_PAGING /\ pager'.same =>
           /\ pager' = pager
           /\ \E j \in DOMAIN ls : ls[j].oid = pager.log
  PROVE  PagerOK'
<1>. SUFFICES ASSUME pager' # NOT_PAGING, pager'.same
              PROVE  \E i \in DOMAIN logs' :
                       logs'[i].oid = pager'.log /\ ReadUpTo(pager', logs'[i])
  BY DEF PagerOK
<1>1. PICK j \in DOMAIN ls : ls[j].oid = pager.log
  OBVIOUS
<1>2. pager' = pager /\ pager \in Pagers
  OBVIOUS
<1>3. PICK i \in DOMAIN logs : logs[i].oid = pager.log /\ ReadUpTo(pager, logs[i])
  BY <1>2 DEF PagerOK
<1>4. logs[i].buffer = ls[j].buffer /\ logs[i].counter = ls[j].counter
  BY <1>1, <1>3 DEF Prepared
<1>5. Holds(logs[i]) /\ Holds(logs'[j]) /\ Fresh(ls[j], logs'[j])
  BY DEF LogsOK, Followed
<1>6. ReadUpTo(pager, logs'[j])
  <2>1. PICK p \in Pagers : p = pager
    BY <1>2
  <2>2. PICK l : l = logs[i]
    OBVIOUS
  <2>3. PICK k : k = ls[j]
    OBVIOUS
  <2>4. PICK n : n = logs'[j]
    OBVIOUS
  <2>. QED  BY <1>3, <1>4, <1>5, <2>1, <2>2, <2>3, <2>4, ReadFollows
<1>7. j \in DOMAIN logs' /\ logs'[j].oid = pager.log
  BY <1>1 DEF Followed
<1>. QED  BY <1>2, <1>6, <1>7

\* The reporters that are asked are those that are to report, finitely many.
LEMMA ReportersAsked ==
  ASSUME NEW rs \in Seq(AuditReporters), NEW operation \in AuditOperations, NEW target \in Oids
  PROVE  /\ Cardinality(Reporting(rs, operation, target)) \in Nat
         /\ Reporting(rs, operation, target) = ToReport(rs, operation, target)
<1>1. Cardinality(Reporting(rs, operation, target)) \in Nat
  <2>1. Len(rs) \in Nat /\ DOMAIN rs = 1 .. Len(rs)
    OBVIOUS
  <2>2. Reporting(rs, operation, target) \in SUBSET (1 .. Len(rs))
    BY <2>1 DEF Reporting
  <2>3. IsFiniteSet(1 .. Len(rs))
    BY <2>1, FS_Interval
  <2>. QED  BY <2>2, <2>3, FS_Subset, FS_CardinalityType
<1>2. ASSUME NEW r \in AuditReporters
      PROVE  (/\ monitors(r, target) /\ should_audit(r, operation)) <=>
             (/\ r.level \in {"all", "config", "default"}
              /\ r.operations # <<>> => operation \in r.operations[1]
              /\ r.monitored # <<>> =>
                   {target, [target EXCEPT !.instance = EveryInstance]}
                     \cap ToSet(r.monitored) # {})
  <2>1. r.level \in Levels /\ r.monitored \in Seq(Oids)
    BY DEF AuditReporters
  <2>2. should_audit(r, operation) <=>
          (/\ r.level \in {"all", "config", "default"}
           /\ r.operations # <<>> => operation \in r.operations[1])
    BY <2>1 DEF should_audit, Levels, AuditOperations
  <2>3. PICK ms \in Seq(Oids) : ms = r.monitored
    BY <2>1
  <2>4. \A m \in Oids : Covers(m, target) <=>
          m \in {target, [target EXCEPT !.instance = EveryInstance]}
    BY AuditAssumption DEF Covers, Oids
  <2>5. (\E i \in DOMAIN ms : Covers(ms[i], target)) <=>
          {target, [target EXCEPT !.instance = EveryInstance]} \cap ToSet(ms) # {}
    <3>1. \A i \in DOMAIN ms : ms[i] \in Oids
      OBVIOUS
    <3>2. \A i \in DOMAIN ms : Covers(ms[i], target) <=>
            ms[i] \in {target, [target EXCEPT !.instance = EveryInstance]}
      BY <2>4, <3>1
    <3>. QED  BY <3>2, Zenon DEF ToSet
  <2>. QED  BY <2>2, <2>3, <2>5 DEF monitors
<1>3. \A k \in DOMAIN rs : rs[k] \in AuditReporters
  OBVIOUS
<1>. QED  BY <1>1, <1>2, <1>3, Zenon DEF Reporting, ToReport

LEMMA RecordedFollows ==
  ASSUME AuditOK, NEW ls, Prepared(ls), NEW rs \in Seq(AuditReporters),
         NEW operation \in AuditOperations, NEW target \in Oids,
         Recorded(ls, rs, operation, target)
  PROVE  /\ Followed(ls) /\ reporters' \in Seq(AuditReporters) /\ InEachLog
         /\ audit_setting' = audit_setting /\ pages' = pages
         /\ operations' \in 0 .. audit_setting.operations
<1>1. PICK m \in Nat : /\ m = Cardinality(Reporting(rs, operation, target))
                       /\ m = Cardinality(ToReport(rs, operation, target))
  BY ReportersAsked
<1>2. PICK whats : whats = [i \in 1 .. m |-> <<operation, target>>]
  BY Zenon
<1>3. whats \in [1 .. m -> Whats]
  BY <1>2 DEF Whats
<1>4. PICK st : st = Deliver(ls, whats)
  OBVIOUS
<1>5. LogsOK(ls)
  BY DEF Prepared
<1>6. Grown(ls, st, m)
  BY <1>3, <1>4, <1>5, DeliverGrows
<1>7. logs' = st.logs /\ reporters' = rs /\ last_operation' = <<operation, target, st.ok>>
  BY <1>1, <1>2, <1>4 DEF Recorded, record_operation
<1>8. /\ LogsOK(st.logs) /\ DOMAIN st.logs = DOMAIN ls
      /\ \A i \in DOMAIN ls :
           /\ st.logs[i].oid = ls[i].oid /\ Holds(st.logs[i]) /\ Fresh(ls[i], st.logs[i])
           /\ st.logs[i].enabled = ls[i].enabled
           /\ st.logs[i].stop_when_full = ls[i].stop_when_full
  BY <1>5, <1>6, GrownLogs
<1>9. Followed(ls)
  BY <1>7, <1>8 DEF Followed
<1>10. InEachLog
  <2>. SUFFICES ASSUME last_operation'[3], NEW i \in DOMAIN logs, NEW j \in DOMAIN logs',
                       logs[i].oid = logs'[j].oid, logs'[j].enabled, ~logs'[j].stop_when_full
                PROVE  Len(logs'[j].taken) = Len(logs[i].taken)
                         + Cardinality(ToReport(reporters', last_operation'[1], last_operation'[2]))
    BY DEF InEachLog
  <2>1. st.ok /\ j \in DOMAIN ls /\ ls[j].enabled /\ ~ls[j].stop_when_full
    BY <1>7, <1>8
  <2>2. Len(st.logs[j].taken) = Len(ls[j].taken) + m
    BY <1>6, <2>1 DEF Grown
  <2>3. ls[j].oid = logs[i].oid
    BY <1>7, <1>8, <2>1
  <2>4. ls[j].taken = logs[i].taken
    BY <2>1, <2>3 DEF Prepared
  <2>5. ToReport(reporters', last_operation'[1], last_operation'[2]) = ToReport(rs, operation, target)
    BY <1>7
  <2>. QED  BY <1>1, <1>7, <2>2, <2>4, <2>5
<1>11. audit_setting.operations \in Nat
  BY AuditAssumption DEF AuditOK
<1>12. /\ audit_setting' = audit_setting /\ pages' = pages
       /\ operations' \in 0 .. audit_setting.operations
  BY <1>11 DEF AuditOK, Recorded
<1>. QED  BY <1>7, <1>9, <1>10, <1>12

LEMMA OperationKeepsAudit ==
  ASSUME AuditOK, NEW ls, Prepared(ls), NEW rs \in Seq(AuditReporters),
         NEW operation \in AuditOperations, NEW target \in Oids,
         Recorded(ls, rs, operation, target), others' \subseteq audit_setting.others,
         pager' # NOT_PAGING => pager' \in Pagers,
         pager' # NOT_PAGING /\ pager'.same =>
           /\ pager' = pager
           /\ \E j \in DOMAIN ls : ls[j].oid = pager.log
  PROVE  AuditOK' /\ InEachLog /\ ReadToEnd
<1>1. /\ Followed(ls) /\ reporters' \in Seq(AuditReporters) /\ InEachLog
      /\ audit_setting' = audit_setting /\ pages' = pages
      /\ operations' \in 0 .. audit_setting.operations
  BY RecordedFollows
<1>2. PagerOK'
  <2>1. PagerOK /\ LogsOK(logs)
    BY DEF AuditOK
  <2>. QED  BY <1>1, <2>1, PagerFollows
<1>3. ReadToEnd
  BY <1>1 DEF ReadToEnd
<1>4. LogsOK(logs')
  BY <1>1 DEF Followed
<1>. QED  BY <1>1, <1>2, <1>3, <1>4 DEF AuditOK

\* While no log is gone the client reads on.
LEMMA OperationBesidesReading ==
  ASSUME AuditOK, NEW ls, Prepared(ls), NEW rs \in Seq(AuditReporters),
         NEW operation \in AuditOperations, NEW target \in Oids,
         Recorded(ls, rs, operation, target), others' \subseteq audit_setting.others,
         pager' = pager, \A i \in DOMAIN logs : \E j \in DOMAIN ls : ls[j].oid = logs[i].oid
  PROVE  AuditOK' /\ InEachLog /\ ReadToEnd
<1>1. pager' # NOT_PAGING => pager' \in Pagers
  BY DEF AuditOK, PagerOK
<1>2. pager' # NOT_PAGING /\ pager'.same =>
        /\ pager' = pager
        /\ \E j \in DOMAIN ls : ls[j].oid = pager.log
  BY DEF AuditOK, PagerOK
<1>. QED  BY <1>1, <1>2, OperationKeepsAudit

LEMMA LogsArePrepared == LogsOK(logs) => Prepared(logs)
BY DEF Prepared, LogsOK

\* A step that changes none of the logs before it is recorded.
LEMMA PlainOperation ==
  ASSUME AuditOK, NEW rs \in Seq(AuditReporters), NEW operation \in AuditOperations,
         NEW target \in Oids, Recorded(logs, rs, operation, target),
         others' \subseteq audit_setting.others, pager' = pager
  PROVE  AuditOK' /\ InEachLog /\ ReadToEnd
<1>1. Prepared(logs)
  BY LogsArePrepared DEF AuditOK
<1>2. \A i \in DOMAIN logs : \E j \in DOMAIN logs : logs[j].oid = logs[i].oid
  OBVIOUS
<1>. QED  BY <1>1, <1>2, OperationBesidesReading

LEMMA OthersNamed ==
  ASSUME AuditOK
  PROVE  audit_setting.others \subseteq Oids /\ others \subseteq Oids
BY AuditAssumption DEF AuditOK

LEMMA OthersKeepAudit ==
  ASSUME AuditOK, WriteOther \/ CreateOther \/ DeleteOther
  PROVE  AuditOK' /\ InEachLog /\ ReadToEnd
<1>1. reporters \in Seq(AuditReporters) /\ others \subseteq audit_setting.others
  BY DEF AuditOK
<1>2. CASE WriteOther
  <2>1. PICK o \in others : Recorded(logs, reporters, "write", o)
    BY <1>2 DEF WriteOther
  <2>2. others' = others /\ pager' = pager
    BY <1>2 DEF WriteOther
  <2>. QED  BY <1>1, <2>1, <2>2, OthersNamed, PlainOperation DEF AuditOperations
<1>3. CASE CreateOther
  <2>1. PICK o \in audit_setting.others : Recorded(logs, reporters, "create", o) /\ others' = others \cup {o}
    BY <1>3 DEF CreateOther
  <2>2. others' \subseteq audit_setting.others /\ pager' = pager
    BY <1>1, <1>3, <2>1 DEF CreateOther
  <2>. QED  BY <1>1, <2>1, <2>2, OthersNamed, PlainOperation DEF AuditOperations
<1>4. CASE DeleteOther
  <2>1. PICK o \in others : Recorded(logs, reporters, "delete", o) /\ others' = others \ {o}
    BY <1>4 DEF DeleteOther
  <2>2. others' \subseteq audit_setting.others /\ pager' = pager
    BY <1>1, <1>4, <2>1 DEF DeleteOther
  <2>. QED  BY <1>1, <2>1, <2>2, OthersNamed, PlainOperation DEF AuditOperations
<1>. QED  BY <1>2, <1>3, <1>4

\* What RemoveAt leaves.
LEMMA LeftOver ==
  ASSUME NEW S, NEW s \in Seq(S), NEW i \in 1 .. Len(s), NEW t, t = RemoveAt(s, i)
  PROVE  /\ t \in Seq(S) /\ DOMAIN t = 1 .. Len(s) - 1
         /\ \A j \in 1 .. Len(s) - 1 : t[j] = IF j < i THEN s[j] ELSE s[j + 1]
<1>1. PICK front : front = SubSeq(s, 1, i - 1)
  BY Zenon
<1>2. PICK back : back = SubSeq(s, i + 1, Len(s))
  BY Zenon
<1>3. /\ front \in Seq(S) /\ Len(front) = i - 1
      /\ \A j \in 1 .. i - 1 : front[j] = s[j]
  BY <1>1
<1>4. /\ back \in Seq(S) /\ Len(back) = Len(s) - i
      /\ \A j \in 1 .. Len(s) - i : back[j] = s[i + j]
  BY <1>2
<1>5. t = front \o back
  BY <1>1, <1>2 DEF RemoveAt
<1>6. /\ t \in Seq(S) /\ Len(t) = Len(s) - 1 /\ DOMAIN t = 1 .. Len(s) - 1
      /\ \A j \in 1 .. i - 1 : t[j] = s[j]
      /\ \A j \in 1 .. Len(s) - i : t[(i - 1) + j] = s[i + j]
  <2>1. PICK a \in Seq(S) : a = front
    BY <1>3
  <2>2. PICK b \in Seq(S) : b = back
    BY <1>4
  <2>3. PICK c : c = a \o b
    BY Zenon
  <2>4. /\ c \in Seq(S) /\ Len(c) = Len(a) + Len(b) /\ DOMAIN c = 1 .. Len(c)
        /\ \A j \in 1 .. Len(a) : c[j] = a[j]
        /\ \A j \in 1 .. Len(b) : c[Len(a) + j] = b[j]
    BY <2>3
  <2>5. t = c
    BY <1>5, <2>1, <2>2, <2>3
  <2>6. Len(c) = Len(s) - 1
    BY <1>3, <1>4, <2>1, <2>2, <2>4
  <2>7. \A j \in 1 .. i - 1 : c[j] = s[j]
    BY <1>3, <2>1, <2>4
  <2>8. \A j \in 1 .. Len(s) - i : c[(i - 1) + j] = s[i + j]
    BY <1>3, <1>4, <2>1, <2>2, <2>4, Zenon
  <2>. QED  BY <2>4, <2>5, <2>6, <2>7, <2>8
<1>7. ASSUME NEW j \in 1 .. Len(s) - 1, ~(j < i) PROVE t[j] = s[j + 1]
  <2>1. PICK k \in 1 .. Len(s) - i : j = (i - 1) + k
    <3>1. j - (i - 1) \in 1 .. Len(s) - i /\ j = (i - 1) + (j - (i - 1))
      BY <1>7
    <3>. QED  BY <3>1
  <2>2. i + k = j + 1
    BY <2>1
  <2>. QED  BY <1>6, <2>1, <2>2
<1>. QED  BY <1>6, <1>7

LEMMA ReportersKeepAudit ==
  ASSUME AuditOK, WriteReporter \/ DeleteReporter
  PROVE  AuditOK' /\ InEachLog /\ ReadToEnd
<1>1. reporters \in Seq(AuditReporters) /\ others \subseteq audit_setting.others
  BY DEF AuditOK
<1>2. \A i \in DOMAIN reporters : reporters[i] \in AuditReporters /\ reporters[i].oid \in Oids
  <2>1. \A r \in AuditReporters : r.oid \in Oids
    BY DEF AuditReporters
  <2>2. \A i \in DOMAIN reporters : reporters[i] \in AuditReporters
    BY <1>1
  <2>. QED  BY <2>1, <2>2
<1>3. CASE WriteReporter
  <2>1. PICK i \in DOMAIN reporters, v \in AuditLevels :
          Recorded(logs, [reporters EXCEPT ![i].level = v], "write", reporters[i].oid)
    BY <1>3 DEF WriteReporter
  <2>2. PICK r : r = [reporters[i] EXCEPT !.level = v]
    BY Zenon
  <2>3. r \in AuditReporters
    BY <1>2, <2>2, AuditAssumption, Zenon DEF AuditReporters
  <2>4. PICK rs : rs = [reporters EXCEPT ![i].level = v]
    BY Zenon
  <2>5. rs = [reporters EXCEPT ![i] = r]
    BY <2>2, <2>4
  <2>6. rs \in Seq(AuditReporters)
    BY <1>1, <2>3, <2>5
  <2>7. others' = others /\ pager' = pager
    BY <1>3 DEF WriteReporter
  <2>. QED  BY <1>1, <1>2, <2>1, <2>4, <2>6, <2>7, PlainOperation, Zenon DEF AuditOperations
<1>4. CASE DeleteReporter
  <2>1. PICK i \in DOMAIN reporters :
          Recorded(logs, RemoveAt(reporters, i), "delete", reporters[i].oid)
    BY <1>4 DEF DeleteReporter
  <2>2. PICK rs : rs = RemoveAt(reporters, i)
    OBVIOUS
  <2>3. PICK s \in Seq(AuditReporters) : s = reporters
    BY <1>1
  <2>4. i \in 1 .. Len(s)
    BY <2>3
  <2>5. rs \in Seq(AuditReporters)
    BY <2>2, <2>3, <2>4, LeftOver
  <2>6. others' = others /\ pager' = pager
    BY <1>4 DEF DeleteReporter
  <2>. QED  BY <1>1, <1>2, <2>1, <2>2, <2>5, <2>6, PlainOperation DEF AuditOperations
<1>. QED  BY <1>3, <1>4

LEMMA LogsNamed ==
  ASSUME LogsOK(logs)
  PROVE  /\ logs \in Seq(AuditLogs) /\ Len(logs) \in Nat /\ DOMAIN logs = 1 .. Len(logs)
         /\ \A i \in DOMAIN logs : logs[i] \in AuditLogs /\ logs[i].oid \in Oids /\ Holds(logs[i])
<1>1. logs \in Seq(AuditLogs) /\ \A i \in DOMAIN logs : Holds(logs[i])
  BY DEF LogsOK
<1>2. \A l \in AuditLogs : l.oid \in Oids
  BY DEF AuditLogs
<1>. QED  BY <1>1, <1>2

\* What is written of a log is none of what it has taken.
LEMMA WrittenHolds ==
  ASSUME NEW l, Holds(l),
         NEW k \in {[l EXCEPT !.enabled = ~@], [l EXCEPT !.stop_when_full = ~@],
                    [l EXCEPT !.count = 0]} \cup {[l EXCEPT !.size = n] : n \in BufferSizes}
  PROVE  /\ Holds(k) /\ k.oid = l.oid /\ k.taken = l.taken /\ k.buffer = l.buffer
         /\ k.counter = l.counter
<1>1. l \in AuditLogs
  BY DEF Holds
<1>2. Len(l.buffer) \in Nat
  <2>1. l.buffer \in Seq(AuditRecords)
    BY <1>1 DEF AuditLogs
  <2>. QED  BY <2>1
<1>3. PICK on \in BOOLEAN, stop \in BOOLEAN : on = ~l.enabled /\ stop = ~l.stop_when_full
  BY <1>1, Zenon DEF AuditLogs
<1>4. \/ k = [l EXCEPT !.enabled = on] \/ k = [l EXCEPT !.stop_when_full = stop]
      \/ k = [l EXCEPT !.count = 0]
      \/ \E n \in BufferSizes : k = [l EXCEPT !.size = n]
  BY <1>1, <1>3 DEF AuditLogs
<1>5. /\ k \in AuditLogs /\ k.oid = l.oid /\ k.taken = l.taken /\ k.buffer = l.buffer
      /\ k.counter = l.counter /\ k.total = l.total /\ k.count \in {l.count, 0}
  BY <1>1, <1>4, AuditAssumption DEF AuditLogs
<1>6. k.count \in 0 .. Len(k.buffer)
  BY <1>2, <1>5 DEF Holds
<1>. QED  BY <1>5, <1>6, Zenon DEF Holds

LEMMA WriteAuditLogKeepsAudit ==
  ASSUME AuditOK, WriteAuditLog
  PROVE  AuditOK' /\ InEachLog /\ ReadToEnd
<1>1. /\ LogsOK(logs) /\ reporters \in Seq(AuditReporters) /\ others \subseteq audit_setting.others
      /\ others' = others /\ pager' = pager
  BY DEF AuditOK, WriteAuditLog
<1>2. PICK i \in DOMAIN logs :
        \E l \in {[logs[i] EXCEPT !.enabled = ~@], [logs[i] EXCEPT !.stop_when_full = ~@],
                  [logs[i] EXCEPT !.count = 0]}
                 \cup {[logs[i] EXCEPT !.size = n] : n \in BufferSizes} :
          Recorded([logs EXCEPT ![i] = l], reporters, "write", l.oid)
  BY Zenon DEF WriteAuditLog
<1>3. PICK l \in {[logs[i] EXCEPT !.enabled = ~@], [logs[i] EXCEPT !.stop_when_full = ~@],
                  [logs[i] EXCEPT !.count = 0]}
                 \cup {[logs[i] EXCEPT !.size = n] : n \in BufferSizes} :
        Recorded([logs EXCEPT ![i] = l], reporters, "write", l.oid)
  BY <1>2, Zenon
<1>4. /\ Holds(l) /\ l.oid = logs[i].oid /\ l.taken = logs[i].taken
      /\ l.buffer = logs[i].buffer /\ l.counter = logs[i].counter
  <2>1. PICK was : was = logs[i]
    OBVIOUS
  <2>2. Holds(was)
    BY <1>1, <2>1, LogsNamed
  <2>3. PICK k : k = l
    OBVIOUS
  <2>4. k \in {[was EXCEPT !.enabled = ~@], [was EXCEPT !.stop_when_full = ~@],
               [was EXCEPT !.count = 0]} \cup {[was EXCEPT !.size = n] : n \in BufferSizes}
    BY <2>1, <2>3
  <2>. QED  BY <2>1, <2>2, <2>3, <2>4, WrittenHolds
<1>5. PICK ls : ls = [logs EXCEPT ![i] = l]
  BY Zenon
<1>6. /\ ls \in Seq(AuditLogs) /\ DOMAIN ls = DOMAIN logs /\ ls[i] = l
      /\ \A j \in DOMAIN logs : j # i => ls[j] = logs[j]
  <2>1. l \in AuditLogs
    BY <1>4 DEF Holds
  <2>. QED  BY <1>1, <1>5, <2>1, LogsNamed
<1>7. \A j \in DOMAIN logs :
        /\ Holds(ls[j]) /\ ls[j].oid = logs[j].oid /\ ls[j].taken = logs[j].taken
        /\ ls[j].buffer = logs[j].buffer /\ ls[j].counter = logs[j].counter
  BY <1>1, <1>4, <1>6, LogsNamed
<1>8. LogsOK(ls)
  BY <1>1, <1>6, <1>7 DEF LogsOK
<1>9. Prepared(ls)
  BY <1>1, <1>6, <1>7, <1>8 DEF Prepared, LogsOK
<1>10. \A j \in DOMAIN logs : \E k \in DOMAIN ls : ls[k].oid = logs[j].oid
  BY <1>6, <1>7
<1>11. Recorded(ls, reporters, "write", l.oid) /\ l.oid \in Oids
  BY <1>1, <1>3, <1>4, <1>5, LogsNamed
<1>. QED  BY <1>1, <1>9, <1>10, <1>11, OperationBesidesReading DEF AuditOperations

LEMMA SettingLogs ==
  ASSUME AuditOK, NEW i \in DOMAIN audit_setting.logs
  PROVE  audit_setting.logs[i] \in NewAuditLogs /\ audit_setting.logs[i].oid \in Oids
         /\ Holds(audit_setting.logs[i])
<1>1. audit_setting.logs \in Seq(NewAuditLogs)
  BY AuditAssumption DEF AuditOK
<1>2. PICK l : l = audit_setting.logs[i]
  OBVIOUS
<1>3. l \in NewAuditLogs
  BY <1>1, <1>2
<1>4. l.oid \in Oids
  BY <1>3 DEF NewAuditLogs
<1>5. Holds(l)
  BY <1>3, NewHolds
<1>. QED  BY <1>2, <1>3, <1>4, <1>5

LEMMA CreateAuditLogKeepsAudit ==
  ASSUME AuditOK, CreateAuditLog
  PROVE  AuditOK' /\ InEachLog /\ ReadToEnd
<1>1. /\ LogsOK(logs) /\ reporters \in Seq(AuditReporters) /\ others \subseteq audit_setting.others
      /\ others' = others /\ pager' = pager
  BY DEF AuditOK, CreateAuditLog
<1>2. PICK i \in DOMAIN audit_setting.logs :
        /\ Unused(audit_setting.logs[i].oid)
        /\ Recorded(Append(logs, audit_setting.logs[i]), reporters, "create",
                    audit_setting.logs[i].oid)
  BY DEF CreateAuditLog
<1>3. PICK l : l = audit_setting.logs[i]
  OBVIOUS
<1>4. l.oid \in Oids /\ Holds(l) /\ l \in AuditLogs
  BY <1>3, SettingLogs DEF Holds
<1>5. PICK ls : ls = Append(logs, l)
  BY Zenon
<1>6. PICK n \in Nat : n = Len(logs) /\ DOMAIN logs = 1 .. n /\ logs \in Seq(AuditLogs)
  BY <1>1, LogsNamed, Zenon
<1>7. /\ ls \in Seq(AuditLogs) /\ DOMAIN ls = 1 .. n + 1 /\ ls[n + 1] = l
      /\ \A j \in 1 .. n : ls[j] = logs[j]
  BY <1>4, <1>5, <1>6
<1>8. \A j \in 1 .. n : Holds(logs[j]) /\ logs[j].oid # l.oid
  BY <1>1, <1>2, <1>3, <1>6, LogsNamed DEF Unused
<1>9. \A j \in 1 .. n + 1 : j \in 1 .. n \/ j = n + 1
  BY <1>6
<1>10. LogsOK(ls)
  <2>1. \A j \in 1 .. n + 1 : Holds(ls[j])
    BY <1>4, <1>7, <1>8, <1>9
  <2>2. ASSUME NEW j \in 1 .. n + 1, NEW k \in 1 .. n + 1, ls[j].oid = ls[k].oid PROVE j = k
    <3>1. CASE j \in 1 .. n /\ k \in 1 .. n
      BY <1>1, <1>6, <1>7, <2>2, <3>1 DEF LogsOK
    <3>2. CASE ~(j \in 1 .. n /\ k \in 1 .. n)
      BY <1>7, <1>8, <1>9, <2>2, <3>2
    <3>. QED  BY <3>1, <3>2
  <2>. QED  BY <1>7, <2>1, <2>2 DEF LogsOK
<1>11. Prepared(ls)
  <2>. SUFFICES ASSUME NEW j \in DOMAIN logs, NEW k \in DOMAIN ls, logs[j].oid = ls[k].oid
                PROVE  ls[k] = logs[j]
    BY <1>10 DEF Prepared
  <2>1. j \in 1 .. n + 1 /\ ls[j] = logs[j]
    BY <1>6, <1>7
  <2>2. j = k
    BY <1>7, <1>10, <2>1 DEF LogsOK
  <2>. QED  BY <2>1, <2>2
<1>12. \A j \in DOMAIN logs : \E k \in DOMAIN ls : ls[k].oid = logs[j].oid
  BY <1>6, <1>7
<1>13. Recorded(ls, reporters, "create", l.oid)
  BY <1>2, <1>3, <1>5
<1>. QED  BY <1>1, <1>4, <1>11, <1>12, <1>13, OperationBesidesReading DEF AuditOperations

LEMMA DeleteAuditLogKeepsAudit ==
  ASSUME AuditOK, DeleteAuditLog
  PROVE  AuditOK' /\ InEachLog /\ ReadToEnd
<1>1. /\ LogsOK(logs) /\ reporters \in Seq(AuditReporters) /\ others \subseteq audit_setting.others
      /\ others' = others /\ PagerOK
  BY DEF AuditOK, DeleteAuditLog
<1>2. PICK i \in DOMAIN logs :
        /\ Recorded(RemoveAt(logs, i), reporters, "delete", logs[i].oid)
        /\ pager' = IF pager # NOT_PAGING /\ pager.log = logs[i].oid
                      THEN [pager EXCEPT !.same = FALSE] ELSE pager
  BY DEF DeleteAuditLog
<1>3. PICK n \in Nat : n = Len(logs) /\ DOMAIN logs = 1 .. n /\ logs \in Seq(AuditLogs)
  BY <1>1, LogsNamed, Zenon
<1>4. PICK was \in Seq(AuditLogs) : was = logs
  BY <1>3
<1>5. PICK ls : ls = RemoveAt(was, i)
  OBVIOUS
<1>6. /\ ls \in Seq(AuditLogs) /\ DOMAIN ls = 1 .. n - 1
      /\ \A j \in 1 .. n - 1 : ls[j] = IF j < i THEN was[j] ELSE was[j + 1]
  BY <1>3, <1>4, <1>5, LeftOver
<1>7. ASSUME NEW j \in 1 .. n - 1
      PROVE  \E k \in 1 .. n : /\ k = (IF j < i THEN j ELSE j + 1) /\ k # i
                               /\ ls[j] = logs[k] /\ Holds(logs[k])
  <2>1. PICK k \in 1 .. n : k = (IF j < i THEN j ELSE j + 1) /\ k # i
    <3>1. i \in 1 .. n
      BY <1>3
    <3>2. (IF j < i THEN j ELSE j + 1) \in 1 .. n /\ (IF j < i THEN j ELSE j + 1) # i
      BY <3>1
    <3>. QED  BY <3>2
  <2>2. ls[j] = logs[k] /\ Holds(logs[k])
    BY <1>1, <1>3, <1>4, <1>6, <2>1, LogsNamed, Zenon
  <2>. QED  BY <2>1, <2>2
<1>8. ASSUME NEW k \in 1 .. n, k # i
      PROVE  \E j \in 1 .. n - 1 : ls[j] = logs[k]
  <2>1. i \in 1 .. n
    BY <1>3
  <2>2. CASE k < i
    <3>1. k \in 1 .. n - 1 /\ ls[k] = logs[k]
      BY <1>4, <1>6, <2>1, <2>2
    <3>. QED  BY <3>1
  <2>3. CASE k > i
    <3>1. k - 1 \in 1 .. n - 1 /\ ~(k - 1 < i) /\ (k - 1) + 1 = k
      BY <2>1, <2>3
    <3>2. ls[k - 1] = logs[k]
      BY <1>4, <1>6, <3>1
    <3>. QED  BY <3>1, <3>2
  <2>. QED  BY <1>8, <2>1, <2>2, <2>3
<1>9. LogsOK(ls)
  <2>1. \A j \in 1 .. n - 1 : Holds(ls[j])
    BY <1>7
  <2>2. ASSUME NEW j \in 1 .. n - 1, NEW k \in 1 .. n - 1, ls[j].oid = ls[k].oid PROVE j = k
    <3>1. PICK x \in 1 .. n : x = (IF j < i THEN j ELSE j + 1) /\ ls[j] = logs[x]
      BY <1>7
    <3>2. PICK y \in 1 .. n : y = (IF k < i THEN k ELSE k + 1) /\ ls[k] = logs[y]
      BY <1>7
    <3>3. x = y
      BY <1>1, <1>3, <2>2, <3>1, <3>2, Zenon DEF LogsOK
    <3>4. i \in Nat
      BY <1>3
    <3>. QED  BY <3>1, <3>2, <3>3, <3>4
  <2>. QED  BY <1>6, <2>1, <2>2 DEF LogsOK
<1>10. Prepared(ls)
  <2>. SUFFICES ASSUME NEW j \in DOMAIN logs, NEW k \in DOMAIN ls, logs[j].oid = ls[k].oid
                PROVE  ls[k] = logs[j]
    BY <1>9 DEF Prepared
  <2>1. PICK x \in 1 .. n : ls[k] = logs[x]
    BY <1>6, <1>7
  <2>2. x = j
    BY <1>1, <1>3, <2>1 DEF LogsOK
  <2>. QED  BY <2>1, <2>2
<1>11. pager' # NOT_PAGING => pager' \in Pagers
  BY <1>1, <1>2, Zenon DEF PagerOK, Pagers
<1>12. ASSUME pager' # NOT_PAGING, pager'.same
       PROVE  pager' = pager /\ \E j \in DOMAIN ls : ls[j].oid = pager.log
  <2>1. pager' = pager /\ pager.log # logs[i].oid
    <3>1. CASE pager # NOT_PAGING /\ pager.log = logs[i].oid
      BY <1>1, <1>2, <1>12, <3>1 DEF PagerOK, Pagers
    <3>2. CASE ~(pager # NOT_PAGING /\ pager.log = logs[i].oid)
      BY <1>2, <1>12, <3>2
    <3>. QED  BY <3>1, <3>2
  <2>2. PICK k \in DOMAIN logs : logs[k].oid = pager.log
    BY <1>1, <1>12, <2>1 DEF PagerOK
  <2>3. PICK j \in 1 .. n - 1 : ls[j] = logs[k]
    BY <1>3, <1>8, <2>1, <2>2
  <2>. QED  BY <1>6, <2>1, <2>2, <2>3
<1>13. Recorded(ls, reporters, "delete", logs[i].oid) /\ logs[i].oid \in Oids
  BY <1>1, <1>2, <1>4, <1>5, LogsNamed
<1>. QED  BY <1>1, <1>10, <1>11, <1>12, <1>13, OperationKeepsAudit DEF AuditOperations

LEMMA NotificationsKeepAudit ==
  ASSUME AuditOK, NotificationsReceived
  PROVE  AuditOK' /\ InEachLog /\ ReadToEnd
<1>1. PICK n \in 1 .. 2 :
        LET st == Deliver(logs, [i \in 1 .. n |-> <<"received", i>>])
        IN logs' = st.logs /\ last_operation' = <<"received", n, st.ok>>
  BY Zenon DEF NotificationsReceived
<1>2. PICK ls : ls = logs /\ LogsOK(ls)
  BY DEF AuditOK
<1>3. PICK whats : whats = [i \in 1 .. n |-> <<"received", i>>]
  BY Zenon
<1>4. whats \in [1 .. n -> Whats] /\ n \in Nat
  BY <1>3 DEF Whats
<1>5. PICK st : st = Deliver(ls, whats)
  OBVIOUS
<1>6. logs' = st.logs /\ last_operation' = <<"received", n, st.ok>>
  BY <1>1, <1>2, <1>3, <1>5
<1>7. Grown(ls, st, n)
  BY <1>2, <1>4, <1>5, DeliverGrows
<1>8. Followed(ls)
  BY <1>2, <1>6, <1>7, GrownLogs DEF Followed
<1>9. UNCHANGED <<audit_setting, reporters, others, pager, pages>>
  BY DEF NotificationsReceived
<1>10. PagerOK'
  <2>1. Prepared(ls)
    BY <1>2, LogsArePrepared
  <2>2. PagerOK /\ LogsOK(logs)
    BY DEF AuditOK
  <2>3. pager' # NOT_PAGING => pager' \in Pagers
    BY <1>9, <2>2 DEF PagerOK
  <2>4. pager' # NOT_PAGING /\ pager'.same =>
          pager' = pager /\ \E j \in DOMAIN ls : ls[j].oid = pager.log
    BY <1>2, <1>9, <2>2 DEF PagerOK
  <2>. QED  BY <1>8, <2>1, <2>2, <2>3, <2>4, PagerFollows
<1>11. InEachLog
  <2>1. last_operation'[1] = "received"
    BY <1>6
  <2>. QED  BY <2>1 DEF InEachLog
<1>12. operations' \in 0 .. audit_setting.operations
  <2>1. audit_setting.operations \in Nat
    BY AuditAssumption DEF AuditOK
  <2>. QED  BY <2>1 DEF AuditOK, NotificationsReceived
<1>13. LogsOK(logs')
  BY <1>8 DEF Followed
<1>. QED  BY <1>9, <1>10, <1>11, <1>12, <1>13 DEF AuditOK, ReadToEnd

LEMMA StartPagingKeepsAudit ==
  ASSUME AuditOK, StartPaging
  PROVE  AuditOK' /\ InEachLog /\ ReadToEnd
<1>1. UNCHANGED <<audit_setting, logs, reporters, others, last_operation, operations, pages>>
  BY DEF StartPaging
<1>2. PICK i \in DOMAIN logs :
        pager' = [log |-> logs[i].oid, at |-> FROM_START, seen |-> <<>>, over |-> FALSE,
                  same |-> TRUE]
  BY Zenon DEF StartPaging
<1>3. logs[i].oid \in Oids
  BY LogsNamed DEF AuditOK
<1>4. PICK empty \in Seq(AuditRecords) : empty = <<>> /\ Len(empty) = 0
  <2>1. <<>> \in Seq(AuditRecords) /\ Len(<<>>) = 0
    OBVIOUS
  <2>. QED  BY <2>1, Zenon
<1>5. pager' \in Pagers /\ pager'.log = logs[i].oid /\ pager'.at = FROM_START /\ pager'.seen = empty
  BY <1>2, <1>3, <1>4 DEF Pagers
<1>6. ReadUpTo(pager', logs'[i])
  BY <1>4, <1>5 DEF ReadUpTo, Ascending
<1>7. PagerOK'
  BY <1>1, <1>5, <1>6 DEF PagerOK
<1>. QED  BY <1>1, <1>7 DEF AuditOK, InEachLog, ReadToEnd

LEMMA PageKeepsAudit ==
  ASSUME AuditOK, Page
  PROVE  AuditOK' /\ InEachLog /\ ReadToEnd
<1>1. /\ UNCHANGED <<audit_setting, logs, reporters, others, last_operation, operations>>
      /\ pages' = pages + 1 /\ pages < audit_setting.pages /\ pager # NOT_PAGING
  BY DEF Page
<1>2. pages' \in 0 .. audit_setting.pages /\ audit_setting.count \in Nat \ {0}
  <2>1. audit_setting.pages \in Nat /\ audit_setting.count \in Nat \ {0}
    BY AuditAssumption DEF AuditOK
  <2>. QED  BY <1>1, <2>1 DEF AuditOK
<1>3. PagerOK /\ LogsOK(logs) /\ pager \in Pagers
  BY <1>1 DEF AuditOK, PagerOK
<1>4. CASE pager' = NOT_PAGING
  <2>1. PagerOK'
    BY <1>4 DEF PagerOK
  <2>. QED  BY <1>1, <1>2, <1>4, <2>1 DEF AuditOK, InEachLog, ReadToEnd
<1>5. CASE pager' # NOT_PAGING
  <2>1. PICK i \in DOMAIN logs : logs[i].oid = pager.log /\ pager' = next_page(pager, logs[i])
    BY <1>5 DEF Page
  <2>2. PICK l : l = logs[i] /\ Holds(l)
    BY <1>3, LogsNamed
  <2>3. PICK p \in Pagers : p = pager
    BY <1>3
  <2>4. PICK count \in Nat \ {0} : count = audit_setting.count
    BY <1>2
  <2>8. PICK k : k = next_page(p, l)
    OBVIOUS
  <2>9. pager' = k
    BY <2>1, <2>2, <2>3, <2>8
  <2>10. k.same = p.same /\ k.log = p.log
    BY <2>8 DEF next_page, Pagers
  <2>11. k \in Pagers
    BY <2>2, <2>4, <2>8, PageTyped
  <2>12. p.same => ReadUpTo(p, l)
    <3>. SUFFICES ASSUME p.same PROVE ReadUpTo(p, l)
      OBVIOUS
    <3>1. PICK j \in DOMAIN logs : logs[j].oid = pager.log /\ ReadUpTo(pager, logs[j])
      BY <1>1, <1>3, <2>3 DEF PagerOK
    <3>2. j = i
      BY <1>3, <2>1, <3>1 DEF LogsOK
    <3>. QED  BY <2>2, <2>3, <3>1, <3>2
  <2>13. p.same => /\ ReadUpTo(k, l)
                   /\ k.over => ToSet(l.buffer) \subseteq ToSet(k.seen)
    <3>. SUFFICES ASSUME p.same
                  PROVE  ReadUpTo(k, l) /\ (k.over => ToSet(l.buffer) \subseteq ToSet(k.seen))
      OBVIOUS
    <3>1. ReadUpTo(p, l)
      BY <2>12
    <3>. QED  BY <2>2, <2>4, <2>8, <3>1, PageReads
  <2>14. PagerOK'
    BY <1>1, <2>1, <2>2, <2>3, <2>9, <2>10, <2>11, <2>13 DEF PagerOK
  <2>15. ReadToEnd
    <3>. SUFFICES ASSUME pager'.over, pager'.same, NEW j \in DOMAIN logs, logs[j].oid = pager'.log
                  PROVE  /\ ToSet(logs[j].buffer) \subseteq ToSet(pager'.seen)
                         /\ \A m \in 2 .. Len(pager'.seen) :
                              pager'.seen[m].number > pager'.seen[m - 1].number
      BY DEF ReadToEnd
    <3>1. j = i
      BY <1>3, <2>1, <2>3, <2>9, <2>10 DEF LogsOK
    <3>2. ReadUpTo(k, l) /\ ToSet(l.buffer) \subseteq ToSet(k.seen)
      BY <2>9, <2>10, <2>13
    <3>3. PICK s \in Seq(AuditRecords) : s = k.seen /\ Ascending(s)
      BY <2>11, <3>2 DEF Pagers, ReadUpTo
    <3>4. \A m \in 1 .. Len(s) : s[m].number \in Nat
      <4>1. \A r \in AuditRecords : r.number \in Nat
        BY DEF AuditRecords
      <4>. QED  BY <4>1
    <3>5. ASSUME NEW m \in 2 .. Len(s) PROVE s[m].number > s[m - 1].number
      <4>1. m - 1 \in 1 .. Len(s) /\ m \in 1 .. Len(s) /\ m - 1 < m
        OBVIOUS
      <4>2. s[m - 1].number < s[m].number
        BY <3>3, <4>1 DEF Ascending
      <4>. QED  BY <3>4, <4>1, <4>2
    <3>. QED  BY <2>2, <2>9, <3>1, <3>2, <3>3, <3>5
  <2>. QED  BY <1>1, <1>2, <2>14, <2>15 DEF AuditOK, InEachLog
<1>. QED  BY <1>4, <1>5

LEMMA InitAudit == AuditInit => AuditOK
<1>. SUFFICES ASSUME AuditInit PROVE AuditOK
  OBVIOUS
<1>1. /\ audit_setting \in AuditSettings /\ logs = audit_setting.logs
      /\ reporters = audit_setting.reporters /\ others = audit_setting.others
      /\ pager = NOT_PAGING /\ operations = 0 /\ pages = 0
  BY DEF AuditInit
<1>2. PICK ls : ls = logs
  OBVIOUS
<1>3. ls \in Seq(NewAuditLogs) /\ \A i, j \in DOMAIN ls : ls[i].oid = ls[j].oid => i = j
  BY <1>1, <1>2, AuditAssumption
<1>4. \A i \in DOMAIN ls : ls[i] \in NewAuditLogs
  BY <1>3
<1>5. \A i \in DOMAIN ls : Holds(ls[i])
  BY <1>4, NewHolds
<1>6. ls \in Seq(AuditLogs)
  <2>1. \A i \in 1 .. Len(ls) : ls[i] \in AuditLogs
    BY <1>3, <1>5 DEF Holds
  <2>2. ls = [i \in 1 .. Len(ls) |-> ls[i]] /\ Len(ls) \in Nat
    BY <1>3
  <2>. QED  BY <2>1, <2>2, IsASeq
<1>7. LogsOK(logs)
  BY <1>2, <1>3, <1>5, <1>6 DEF LogsOK
<1>8. /\ reporters \in Seq(AuditReporters)
      /\ 0 \in 0 .. audit_setting.operations /\ 0 \in 0 .. audit_setting.pages
  BY <1>1, AuditAssumption
<1>. QED  BY <1>1, <1>7, <1>8 DEF AuditOK, PagerOK

LEMMA StepAudit ==
  ASSUME AuditOK, AuditNext \/ UNCHANGED audit_vars
  PROVE  AuditOK' /\ InEachLog /\ ReadToEnd
<1>1. CASE UNCHANGED audit_vars
  <2>1. /\ audit_setting' = audit_setting /\ logs' = logs /\ reporters' = reporters
        /\ others' = others /\ pager' = pager /\ operations' = operations /\ pages' = pages
    BY <1>1 DEF audit_vars
  <2>2. PagerOK'
    BY <2>1 DEF AuditOK, PagerOK
  <2>. QED  BY <2>1, <2>2 DEF AuditOK, InEachLog, ReadToEnd
<1>2. CASE AuditNext
  BY <1>2, OthersKeepAudit, WriteAuditLogKeepsAudit, ReportersKeepAudit, CreateAuditLogKeepsAudit,
     DeleteAuditLogKeepsAudit, NotificationsKeepAudit, StartPagingKeepsAudit, PageKeepsAudit
     DEF AuditNext, Operation
<1>. QED  BY <1>1, <1>2

LEMMA HeldIsTail ==
  ASSUME NEW l, Holds(l)
  PROVE  LET n == Len(l.buffer)
         IN /\ l.buffer = SubSeq(l.taken, Len(l.taken) - n + 1, Len(l.taken))
            /\ \A k \in 2 .. Len(l.taken) : l.taken[k].number = l.taken[k - 1].number + 1
            /\ l.taken # <<>> => l.buffer # <<>> /\ Last(l.taken).number = l.total
            /\ \E m \in BufferSizes : n <= m
<1>1. PICK t \in Seq(AuditRecords) : t = l.taken
  BY DEF Holds, AuditLogs
<1>2. PICK n \in Nat : n = Len(t) /\ DOMAIN t = 1 .. n
  OBVIOUS
<1>3. PICK b \in Seq(AuditRecords) : b = l.buffer
  BY DEF Holds, AuditLogs
<1>4. PICK c \in Nat : c = l.counter
  BY DEF Holds, AuditLogs
<1>5. PICK start \in 1 .. n + 1 : b = SubSeq(t, start, n) /\ (t # <<>> => start <= n)
  BY <1>1, <1>2, <1>3 DEF Holds
<1>6. \A k \in 1 .. n : t[k].number = c - n + k
  BY <1>1, <1>2, <1>4 DEF Holds
<1>7. Len(b) = n - start + 1
  BY <1>2, <1>5
<1>8. PICK size \in Nat : size = Len(b) /\ n - size + 1 = start
  BY <1>5, <1>7
<1>9. ASSUME NEW k \in 2 .. n PROVE t[k].number = t[k - 1].number + 1
  <2>1. PICK j \in 1 .. n : j = k - 1 /\ k = j + 1 /\ k \in 1 .. n
    OBVIOUS
  <2>2. PICK e \in Int : e = c - n + j
    OBVIOUS
  <2>3. c - n + k = e + 1
    BY <2>1, <2>2
  <2>4. t[j].number = e
    BY <1>6, <2>2
  <2>5. t[k].number = e + 1
    BY <1>6, <2>1, <2>3
  <2>6. t[k].number = t[j].number + 1
    BY <2>4, <2>5
  <2>. QED  BY <2>1, <2>6
<1>10. ASSUME t # <<>> PROVE b # <<>> /\ Last(t).number = l.total
  <2>1. start <= n /\ n \in 1 .. n
    BY <1>5, <1>10
  <2>2. b # <<>>
    <3>1. Len(<<>>) = 0
      OBVIOUS
    <3>2. Len(b) # 0
      BY <1>7, <2>1
    <3>. QED  BY <3>1, <3>2
  <2>3. Last(t) = t[n]
    BY <1>2 DEF Last
  <2>4. t[n].number = c - n + n
    BY <1>6, <2>1
  <2>5. l.total = c
    BY <1>1, <1>4, <1>10 DEF Holds
  <2>. QED  BY <2>2, <2>3, <2>4, <2>5
<1>11. \E m \in BufferSizes : Len(b) <= m
  BY <1>3 DEF Holds
<1>. QED  BY <1>1, <1>2, <1>3, <1>5, <1>8, <1>9, <1>10, <1>11, Zenon

LEMMA AuditHolds == AuditOK => AuditTypeOK /\ LogIsTail
<1>. SUFFICES ASSUME AuditOK PROVE AuditTypeOK /\ LogIsTail
  OBVIOUS
<1>1. /\ \A i \in DOMAIN logs : Holds(logs[i])
      /\ \A i, j \in DOMAIN logs : logs[i].oid = logs[j].oid => i = j
  BY DEF AuditOK, LogsOK
<1>2. LogIsTail
  BY <1>1, HeldIsTail, Zenon DEF LogIsTail
<1>3. ASSUME NEW i \in DOMAIN logs
      PROVE  /\ logs[i].counter \in Nat /\ logs[i].total \in 0 .. logs[i].counter
             /\ logs[i].count \in 0 .. Len(logs[i].buffer)
  <2>1. PICK l : l = logs[i] /\ Holds(l)
    BY <1>1
  <2>2. l.counter \in Nat /\ (l.total = 0 \/ l.total = l.counter) /\ l.count \in 0 .. Len(l.buffer)
    BY <2>1 DEF Holds, AuditLogs
  <2>. QED  BY <2>1, <2>2
<1>. QED  BY <1>1, <1>2, <1>3 DEF AuditOK, AuditTypeOK

\* The audit trail: an audit log keeps the latest records, consecutively
\* numbered; a client that reads it page by page to the end misses none that
\* is there then and sees none twice; an operation that was answered well is
\* in each log once for each reporter (append_record, handle_audit_log_query,
\* record_operation).
THEOREM TrailCompleteTheorem == EnginesSpec => TrailComplete
<1>1. EnginesSpec => EnginesInit /\ [][EnginesNext]_engines_vars
  BY PTL DEF EnginesSpec
<1>2. EnginesInit => AuditOK
  BY InitAudit DEF EnginesInit
<1>3. [EnginesNext]_engines_vars => AuditNext \/ UNCHANGED audit_vars
  BY DEF EnginesNext, EventPart, TrendPart, SchedulePart, AuditPart, Maintained, engines_vars
<1>4. AuditOK /\ [EnginesNext]_engines_vars => AuditOK'
  BY <1>3, StepAudit
<1>5. AuditOK /\ [EnginesNext]_engines_vars => [ReadToEnd]_audit_vars
  BY <1>3, StepAudit
<1>6. AuditOK /\ [EnginesNext]_engines_vars => [InEachLog]_audit_vars
  BY <1>3, StepAudit
<1>7. AuditOK => AuditTypeOK /\ LogIsTail
  BY AuditHolds
<1>8. EnginesSpec => [](AuditTypeOK /\ LogIsTail)
  BY <1>1, <1>2, <1>4, <1>7, PTL
<1>9. EnginesSpec => PagingComplete
  BY <1>1, <1>2, <1>4, <1>5, PTL DEF PagingComplete
<1>10. EnginesSpec => RecordedByEach
  BY <1>1, <1>2, <1>4, <1>6, PTL DEF RecordedByEach
<1>. QED  BY <1>8, <1>9, <1>10, PTL DEF TrailComplete
=============================================================================
