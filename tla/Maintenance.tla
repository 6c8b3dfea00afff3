----------------------------- MODULE Maintenance -----------------------------
(***************************************************************************)
(* Maintenance of a device by its clients: the backup and the restoration  *)
(* of its configuration files (handle_reinitialize_device of app/server.py *)
(* against backup_device and restore_device of app/client.py, with the     *)
(* streams of objects/file.py), its virtual terminal sessions, and         *)
(* DeviceCommunicationControl with its timer (app/application.py).         *)
(*                                                                         *)
(* A request and its answer are one step; either may be lost, which the    *)
(* client learns as an exception that ends what it was doing.  Passwords   *)
(* and object identifiers are taken to be right.                           *)
(***************************************************************************)
EXTENDS Naturals, Sequences, FiniteSets, SequencesExt

CONSTANTS
  Clients, Files,
  Octets,               \* octets that others write
  ChunkSize,            \* chunk_size of _download_file
  MaxSessions,          \* max_vt_sessions
  MaintenanceSettings,  \* the devices and bounds considered
  NO_SESSION            \* an identifier no session was given

FileRecords == [data : Seq(Octets \cup {0}), stream : BOOLEAN, read_only : BOOLEAN]

\* configuration_files of BackupData.
BackupFiles == [file : Files, data : Seq(Octets \cup {0})]

ASSUME MaintenanceAssumption ==
  /\ ChunkSize \in Nat \ {0} /\ MaxSessions \in Nat /\ NO_SESSION \notin Nat
  /\ \A s \in MaintenanceSettings :
       /\ s.configuration \in Seq(Files) /\ s.files \in [Files -> FileRecords]
       /\ s.archive \subseteq Seq(BackupFiles)

VARIABLES
  maintained,          \* the member of MaintenanceSettings, which does not change
  device,              \* Backup_And_Restore_State and System_Status
  files,               \* [data, stream, read_only] of each File object
  worker,              \* what backup_device or restore_device of each client is at
  sessions, counter,   \* _vt_sessions and _vt_session_counter
  held,                \* the sessions each client has open, as far as it knows
  dcc, dcc_timers,     \* _dcc_state and the timers under way
  control,             \* history: the last DeviceCommunicationControl
  jobs, meddling, calls  \* bounded: procedures, other file and state changes, others

transfer_vars == <<device, files, worker, jobs, meddling>>
session_vars == <<sessions, counter, held>>
dcc_vars == <<dcc, dcc_timers, control>>
maintenance_vars == <<maintained, transfer_vars, session_vars, dcc_vars, calls>>

-----------------------------------------------------------------------------
(* FileObject.                                                             *)

Padding(n) == [i \in 1 .. n |-> 0]

write_stream(data, start, new) ==
  LET padded == data \o Padding(IF start > Len(data) THEN start - Len(data) ELSE 0)
  IN SubSeq(padded, 1, start) \o new \o SubSeq(padded, start + Len(new) + 1, Len(padded))

read_stream(data, start, count) ==
  [data |-> SubSeq(data, start + 1,
                   IF start + count < Len(data) THEN start + count ELSE Len(data)),
   end_of_file |-> start + count >= Len(data)]

-----------------------------------------------------------------------------
(* ReinitializeDevice.  PERFORMING_A_BACKUP and PERFORMING_A_RESTORE are   *)
(* never entered.                                                          *)

Operational == [state |-> "idle", status |-> "operational"]

Reinitialized ==
  [START_BACKUP  |-> [state |-> "preparing_for_backup", status |-> "backup_in_progress"],
   START_RESTORE |-> [state |-> "preparing_for_restore", status |-> "download_in_progress"],
   END_BACKUP |-> Operational, END_RESTORE |-> Operational, ABORT_RESTORE |-> Operational]

(* A mutant that starts a restoration at any time.                         *)
AcceptsAnyRestore(request) ==
  CASE request = "START_BACKUP" -> device.state = "idle"
    [] request = "END_BACKUP" -> device.state = "preparing_for_backup"
    [] OTHER -> TRUE

Accepts(request) ==
  CASE request \in {"START_BACKUP", "START_RESTORE"} -> device.state = "idle"
    [] request = "END_BACKUP" -> device.state = "preparing_for_backup"
    [] OTHER -> device.state = "preparing_for_restore"

handle_reinitialize_device(request) ==
  device' = IF Accepts(request) THEN Reinitialized[request] ELSE device

-----------------------------------------------------------------------------
(* backup_device and restore_device.  before and crossed are history: the  *)
(* files at the start, and whether others changed files or the state, or   *)
(* were at work as well.                                                   *)

Resting == {"idle", "done", "failed"}

AtWork == {c \in Clients : worker[c].at \notin Resting}

NoWork ==
  [at |-> "idle", procedure |-> "none", contents |-> <<>>, next |-> 1, buf |-> <<>>,
   before |-> <<>>, crossed |-> FALSE]

(* A service other than ReinitializeDevice and DeviceCommunicationControl  *)
(* is not dispatched while communication is disabled (_dispatch_request).  *)
Dispatched == dcc # "DISABLE"

(* c goes on with w when it has the answer, and else raises.               *)
GetsAnswer(c, w) ==
  \E x \in {w, [w EXCEPT !.at = "failed"]} : worker' = [worker EXCEPT ![c] = x]

Raises(c) == worker' = [worker EXCEPT ![c].at = "failed"]

start_procedure(c, procedure, contents) ==
  LET request == IF procedure = "backup" THEN "START_BACKUP" ELSE "START_RESTORE"
  IN /\ c \notin AtWork
     /\ jobs < maintained.jobs /\ jobs' = jobs + 1
     /\ handle_reinitialize_device(request)
     /\ LET w == [NoWork EXCEPT !.at = "polling", !.procedure = procedure,
                    !.contents = contents, !.before = files, !.crossed = AtWork # {}]
        IN IF Accepts(request) THEN GetsAnswer(c, w)
             ELSE worker' = [worker EXCEPT ![c] = [w EXCEPT !.at = "failed"]]
     /\ UNCHANGED <<files, meddling>>

(* The state is read until it is one of the procedure, for at most 300 s:  *)
(* until then the step is not taken.                                       *)
poll_backup_restore_state(c) ==
  /\ worker[c].at = "polling" /\ Dispatched
  /\ LET w == worker[c] IN
     IF device.state = IF w.procedure = "backup" THEN "preparing_for_backup"
                                                 ELSE "preparing_for_restore"
       THEN GetsAnswer(c, [w EXCEPT
              !.at = IF w.procedure = "backup" THEN "listing" ELSE "uploading"])
       ELSE Raises(c)
  /\ UNCHANGED <<device, files, jobs, meddling>>

read_configuration_files(c) ==
  /\ worker[c].at = "listing" /\ Dispatched
  /\ GetsAnswer(c, [worker[c] EXCEPT
       !.at = "downloading",
       !.contents = [i \in DOMAIN maintained.configuration |->
                       [file |-> maintained.configuration[i], data |-> <<>>]]])
  /\ UNCHANGED <<device, files, jobs, meddling>>

(* One AtomicReadFile of _download_file: the next chunk of the next file.  *)
download_file(c) ==
  /\ worker[c].at = "downloading" /\ worker[c].next <= Len(worker[c].contents) /\ Dispatched
  /\ LET w == worker[c]
         f == files[w.contents[w.next].file]
         ack == read_stream(f.data, Len(w.buf), ChunkSize)
     IN IF ~f.stream THEN Raises(c)
          ELSE GetsAnswer(c, IF ack.end_of_file
                 THEN [w EXCEPT !.contents[w.next].data = w.buf \o ack.data,
                                !.next = @ + 1, !.buf = <<>>]
                 ELSE [w EXCEPT !.buf = @ \o ack.data])
  /\ UNCHANGED <<device, files, jobs, meddling>>

(* One AtomicWriteFile of restore_device: the next file.                   *)
upload_file(c) ==
  /\ worker[c].at = "uploading" /\ worker[c].next <= Len(worker[c].contents) /\ Dispatched
  /\ LET w == worker[c]
         b == w.contents[w.next]
         f == files[b.file]
     IN IF ~f.stream \/ f.read_only
          THEN Raises(c) /\ files' = files
          ELSE /\ files' = [files EXCEPT ![b.file].data = write_stream(@, 0, b.data)]
               /\ GetsAnswer(c, [w EXCEPT !.next = @ + 1])
  /\ UNCHANGED <<device, jobs, meddling>>

end_procedure(c) ==
  /\ worker[c].at \in {"downloading", "uploading"} /\ worker[c].next > Len(worker[c].contents)
  /\ LET request == IF worker[c].procedure = "backup" THEN "END_BACKUP" ELSE "END_RESTORE"
     IN /\ handle_reinitialize_device(request)
        /\ IF Accepts(request) THEN GetsAnswer(c, [worker[c] EXCEPT !.at = "done"]) ELSE Raises(c)
  /\ UNCHANGED <<files, jobs, meddling>>

(* A request is lost, or dropped because communication is disabled.        *)
request_lost(c) ==
  /\ c \in AtWork /\ Raises(c)
  /\ UNCHANGED <<device, files, jobs, meddling>>

Crossed == [c \in Clients |-> [worker[c] EXCEPT !.crossed = @ \/ c \in AtWork]]

(* AtomicWriteFile by others, at any time: no state is asked for.          *)
handle_atomic_write_file ==
  /\ meddling < maintained.meddling /\ meddling' = meddling + 1 /\ Dispatched
  /\ \E f \in Files, o \in Octets : \E start \in {0, Len(files[f].data), Len(files[f].data) + 1} :
       /\ files[f].stream /\ ~files[f].read_only
       /\ files' = [files EXCEPT ![f].data = write_stream(@, start, <<o>>)]
  /\ worker' = Crossed
  /\ UNCHANGED <<device, jobs>>

(* Whoever knows the password may end a procedure of another client: it is *)
(* the only way out of one whose client has failed.                        *)
reinitialized_by_others ==
  /\ meddling < maintained.meddling /\ meddling' = meddling + 1
  /\ \E request \in {"END_BACKUP", "END_RESTORE", "ABORT_RESTORE"} :
       Accepts(request) /\ handle_reinitialize_device(request)
  /\ worker' = Crossed
  /\ UNCHANGED <<files, jobs>>

Procedures ==
  /\ \E c \in Clients :
       \/ start_procedure(c, "backup", <<>>)
       \/ \E contents \in maintained.archive : start_procedure(c, "restore", contents)
       \/ poll_backup_restore_state(c) \/ read_configuration_files(c)
       \/ download_file(c) \/ upload_file(c) \/ end_procedure(c) \/ request_lost(c)
  /\ UNCHANGED <<maintained, session_vars, dcc_vars, calls>>

Meddling ==
  /\ handle_atomic_write_file \/ reinitialized_by_others
  /\ UNCHANGED <<maintained, session_vars, dcc_vars, calls>>

-----------------------------------------------------------------------------
(* Virtual terminals.                                                      *)

Call == calls < maintained.calls /\ calls' = calls + 1

(* Of what a client does not get the answer to it does not know.           *)
handle_vt_open(c) ==
  /\ Call /\ Dispatched /\ Cardinality(DOMAIN sessions) < MaxSessions
  /\ counter' = counter + 1
  /\ sessions' = [i \in DOMAIN sessions \cup {counter'} |->
                    IF i = counter' THEN c ELSE sessions[i]]
  /\ \E got \in {{}, {counter'}} : held' = [held EXCEPT ![c] = @ \cup got]
  /\ UNCHANGED <<maintained, transfer_vars, dcc_vars>>

Owned(c, id) == id \in DOMAIN sessions /\ sessions[id] = c

(* The sessions are closed one by one up to the first that cannot be: the  *)
(* others stay open though the client is told of an error.                 *)
handle_vt_close(c) ==
  /\ Call /\ Dispatched
  /\ \E ids \in {s \in [1 .. 2 -> 1 .. counter \cup {NO_SESSION}] : s[1] # s[2]} :
       LET refused == {i \in DOMAIN ids : ~Owned(c, ids[i])}
           closed == {ids[i] : i \in {j \in DOMAIN ids : \A k \in refused : j < k}}
       IN /\ sessions' = [i \in DOMAIN sessions \ closed |-> sessions[i]]
          /\ held' = [held EXCEPT ![c] = @ \ Range(ids)]
  /\ UNCHANGED <<maintained, transfer_vars, counter, dcc_vars>>

-----------------------------------------------------------------------------
(* DeviceCommunicationControl.                                             *)

TimerOf(state, limited) == IF limited /\ state # "ENABLE" THEN 1 ELSE 0

set_dcc_state ==
  /\ Call
  /\ \E state \in {"ENABLE", "DISABLE", "DISABLE_INITIATION"}, limited \in BOOLEAN :
       /\ dcc' = state /\ dcc_timers' = TimerOf(state, limited)
       /\ control' = [state |-> state, limited |-> limited]
  /\ UNCHANGED <<maintained, transfer_vars, session_vars>>

dcc_timer_expired ==
  /\ dcc_timers > 0
  /\ dcc' = "ENABLE" /\ dcc_timers' = dcc_timers - 1
  /\ UNCHANGED <<maintained, control, transfer_vars, session_vars, calls>>

-----------------------------------------------------------------------------
MaintenanceInit ==
  /\ maintained \in MaintenanceSettings
  /\ device = Operational /\ files = maintained.files
  /\ worker = [c \in Clients |-> NoWork]
  /\ sessions = <<>> /\ counter = 0 /\ held = [c \in Clients |-> {}]
  /\ dcc = "ENABLE" /\ dcc_timers = 0 /\ control = [state |-> "ENABLE", limited |-> FALSE]
  /\ jobs = 0 /\ meddling = 0 /\ calls = 0

MaintenanceNext ==
  \/ Procedures \/ Meddling
  \/ \E c \in Clients : handle_vt_open(c) \/ handle_vt_close(c)
  \/ set_dcc_state \/ dcc_timer_expired

-----------------------------------------------------------------------------
MaintenanceTypeOK ==
  /\ device \in Range(Reinitialized)
  /\ \A f \in Files : files[f].data \in Seq(Octets \cup {0})
  /\ \A c \in Clients : worker[c].next \in 1 .. Len(worker[c].contents) + 1
  /\ DOMAIN sessions \subseteq 1 .. counter /\ dcc_timers \in {0, 1}

(* The files as they were when the procedure of w started.                 *)
Before(w, file) == w.before[file].data

(* A backup that others did not cross, by writing or by ending it, is the  *)
(* configuration as it was at one time, file by file and to the last octet.*)
BackupIsSnapshot ==
  \A c \in Clients :
    LET w == worker[c] IN
    w.at = "done" /\ w.procedure = "backup" /\ ~w.crossed =>
      w.contents = [i \in DOMAIN maintained.configuration |->
                      [file |-> maintained.configuration[i],
                       data |-> Before(w, maintained.configuration[i])]]

(* A restoration that others did not cross leaves each file as it is in the*)
(* backup, followed by the rest of what was there if that was longer: files*)
(* are not made shorter.                                                   *)
RestoredInFull ==
  \A c \in Clients :
    LET w == worker[c] IN
    w.at = "uploading" /\ w.next > Len(w.contents) /\ ~w.crossed =>
      \A i \in DOMAIN w.contents :
        LET old == Before(w, w.contents[i].file)
            new == w.contents[i].data
        IN files[w.contents[i].file].data = new \o SubSeq(old, Len(new) + 1, Len(old))

(* Two clients are never at work together, unless one procedure was ended  *)
(* by a third party, and the device is not operational as long as one is.  *)
OneAtATime ==
  \A c \in AtWork : ~worker[c].crossed =>
    AtWork = {c} /\ device.status # "operational"

(* A device that is not operational has a client at work, or one that has  *)
(* failed without ending its procedure: nobody else leaves it so.          *)
SomebodyIsToBlame ==
  device # Operational => \E c \in Clients : worker[c].at \notin {"idle", "done"}

(* A session that a client has opened and not closed is there and its own. *)
SessionsHeld == \A c \in Clients : \A id \in held[c] : Owned(c, id)

(* Communication is as the last request wants it, or enabled again if that *)
(* was for a time: no timer of an earlier one cuts it short.               *)
ControlledAsAsked ==
  /\ dcc = control.state \/ (dcc = "ENABLE" /\ control.limited)
  /\ (dcc # "ENABLE" /\ control.limited) => dcc_timers = 1

(* Clients and their procedures are kept apart: the above together.       *)
KeptApart ==
  /\ MaintenanceTypeOK /\ BackupIsSnapshot /\ RestoredInFull /\ OneAtATime
  /\ SomebodyIsToBlame /\ SessionsHeld /\ ControlledAsAsked

-----------------------------------------------------------------------------
(* What RestoredInFull needs of the backups: each file is there once, as it *)
(* is where Configuration_Files has no repetitions.                        *)
EachFileOnce ==
  \A s \in MaintenanceSettings : \A b \in s.archive :
    \A i, j \in DOMAIN b : b[i].file = b[j].file => i = j
=============================================================================
