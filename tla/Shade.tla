------------------------------- MODULE Shade --------------------------------
(***************************************************************************)
(* The helper process of one run (stax-shade/src/main.rs), as stax-server  *)
(* starts it, next to the ingest sink it feeds.  It attaches to its target *)
(* or launches it suspended, registers with the server, opens the ingest   *)
(* sink and, for a launched target, a pump for its terminal; it drives a   *)
(* session of the staxd client, whose first batch resumes the target; and  *)
(* then it winds everything up in a fixed order.                           *)
(*                                                                         *)
(* The session is what StaxdClient shows of it: it returns some time after *)
(* it is asked to stop, and may return by itself; it leaves the parser     *)
(* worker, which owns the sink, behind when that does not end in time.     *)
(* The server relays the terminal's output to the frontend that asked for  *)
(* the launch, one event at a time; a frontend that does not read holds    *)
(* the relay up, and with it the shade's sends.  Starting a shade by hand  *)
(* without a server, terminal input and the size of the terminal are left  *)
(* out.                                                                    *)
(***************************************************************************)
EXTENDS IngestSink, FiniteSets

CONSTANTS
  MaxWrites,     \* bound: what a target writes to its terminal
  MaxEmitted     \* bound: events and calls of a run, by launched

ASSUME ShadeAssumption == MaxWrites \in Nat /\ MaxEmitted \in [BOOLEAN -> Nat]

VARIABLES
  shade,        \* where run and run_recording are
  launched,     \* AttachMode::Launch
  pty,          \* it was launched with a size for a terminal
  driven,       \* drive_session has been entered
  \* the target
  target,       \* "suspended", "running", "exited" or "reaped"
  preResume,    \* the Option<PreResume> is still there
  resumed,      \* how often it was resumed
  childExit,    \* the shade knows how its child ended
  \* the session
  commands,     \* the command channel: "open", "stop" or "closed"
  result,       \* what drive_session returned
  worker,       \* the parser worker: "none", "running" or "ended"
  firstBatch,
  \* the terminal pump
  writes, read,     \* chunks the target has written, and the reader has read
  reader,       \* "none", "reading" or "done"
  output,       \* the events on their way to output_task
  senders,      \* the pump still holds its sender
  outputTask,   \* "none", "sending", "failed" or "closed"
  shown,        \* what the server has got of it
  frontend      \* "reading", or "stalled": no send on its path completes

process  == <<shade, launched, pty, driven>>
tgt      == <<target, preResume, resumed, childExit>>
session  == <<commands, result, worker, firstBatch>>
terminal == <<writes, read, reader, output, senders, outputTask, shown>>
vars == <<process, tgt, session, terminal, ingestVars>>
allVars == <<vars, frontend>>

\* TerminalOutput: the chunks by number, the ExitStatus and the Error of a
\* failed read.
Chunk     == 1..MaxWrites
Exit      == 0
ReadError == MaxWrites + 1

Init ==
  /\ shade = "start" /\ launched \in BOOLEAN /\ driven = FALSE
  /\ pty \in BOOLEAN /\ (pty => launched)
  /\ frontend = "reading"
  /\ target = (IF launched THEN "none" ELSE "running")
  /\ preResume = FALSE /\ resumed = 0 /\ childExit = FALSE
  /\ commands = "open" /\ result = "none" /\ worker = "none"
  /\ firstBatch = FALSE
  /\ writes = 0 /\ read = 0 /\ reader = "none" /\ output = <<>>
  /\ senders = FALSE /\ outputTask = "none" /\ shown = <<>>
  /\ IngestInit

TypeOK ==
  /\ IngestTypeOK
  /\ shade \in {"start", "register", "connect", "terminal", "drive", "stopping",
                "resume", "terminate", "report", "pump", "forwarder", "exit",
                "exited"}
  /\ target \in {"none", "suspended", "running", "exited", "reaped"}
  /\ result \in {"none", "ok", "failed", "timedOut"}
  /\ worker \in {"none", "running", "ended"}
  /\ read \in 0..writes /\ writes \in 0..MaxWrites
  /\ frontend \in {"reading", "stalled"}
  /\ {launched, pty, driven, preResume, childExit, firstBatch, senders} \subseteq BOOLEAN

-----------------------------------------------------------------------------
(* The target and the server *)

TargetExits ==
  /\ target = "running" /\ shade # "exited"
  /\ target' = "exited"
  /\ UNCHANGED <<process, preResume, resumed, childExit, session, terminal,
                 ingestVars>>

TargetWrites ==
  /\ pty /\ target = "running" /\ writes < MaxWrites
  /\ writes' = writes + 1
  /\ UNCHANGED <<process, tgt, session, read, reader, output, senders,
                 outputTask, shown, ingestVars>>

\* stax-server sends ShadeCommand::Stop, or its end of the channel closes.
ServerCommands ==
  /\ commands = "open" /\ driven
  /\ commands' \in {"stop", "closed"}
  /\ UNCHANGED <<process, tgt, result, worker, firstBatch, terminal, ingestVars>>

-----------------------------------------------------------------------------
(* run and run_recording, until the session starts *)

\* The child is spawned suspended and its task is had; one whose task cannot
\* be had is killed and reaped.
LaunchSuspended ==
  \/ target' = "suspended" /\ preResume' = TRUE /\ shade' = "register"
  \/ target' \in {"none", "reaped"} /\ shade' = "exit" /\ UNCHANGED preResume

\* launch_suspended, or task_for_pid of a process that is there.
Attach ==
  /\ shade = "start"
  /\ IF launched THEN LaunchSuspended
     ELSE shade' \in {"register", "exit"} /\ UNCHANGED <<target, preResume>>
  /\ UNCHANGED <<launched, pty, driven, resumed, childExit, session, terminal,
                 ingestVars>>

\* register_with_server: accepted, rejected, or failed.
Register ==
  /\ shade = "register"
  /\ shade' \in {"connect", "exit"}
  /\ UNCHANGED <<launched, pty, driven, tgt, session, terminal, ingestVars>>

\* connect_to_existing_run.
ConnectIngest ==
  /\ shade = "connect"
  /\ \/ shade' = "terminal" /\ SpawnForwarders
     \/ shade' = "exit" /\ UNCHANGED ingestVars
  /\ UNCHANGED <<launched, pty, driven, tgt, session, terminal>>

DropSink ==
  /\ sink' = "dropped"
  /\ UNCHANGED <<enqueued, published, forward, calls, stopRequested, server>>

\* start_terminal_pump, if there is a terminal; when it fails, the sink is
\* dropped with everything else.  Then the command task and the session start.
StartTerminal ==
  /\ shade = "terminal"
  /\ \/ /\ shade' = "drive" /\ driven' = TRUE
        /\ IF pty
           THEN reader' = "reading" /\ outputTask' = "sending" /\ senders' = TRUE
           ELSE UNCHANGED <<reader, outputTask, senders>>
        /\ worker' = "running"
        /\ UNCHANGED ingestVars
     \/ /\ pty
        /\ shade' = "exit" /\ DropSink
        /\ UNCHANGED <<driven, reader, outputTask, senders, worker>>
  /\ UNCHANGED <<launched, pty, tgt, commands, result, firstBatch, writes, read,
                 output, shown>>

-----------------------------------------------------------------------------
(* The session and its hooks *)

\* PreResume::resume, which may fail.
Resume ==
  /\ preResume' = FALSE
  /\ \/ /\ target' = IF target = "suspended" THEN "running" ELSE target
        /\ resumed' = resumed + 1
     \/ UNCHANGED <<target, resumed>>

\* on_first_batch.
FirstBatch ==
  /\ shade = "drive" /\ ~firstBatch
  /\ firstBatch' = TRUE
  /\ IF preResume THEN Resume ELSE UNCHANGED <<target, preResume, resumed>>
  /\ UNCHANGED <<process, childExit, commands, result, worker, terminal,
                 ingestVars>>

\* waitpid with WNOHANG finds the child's exit and reaps it.
LaunchedChildExited ==
  /\ launched /\ target = "exited"
  /\ target' = "reaped" /\ childExit' = TRUE

\* should_stop: the server's flag, or the exit of the child.
ShouldStop ==
  /\ shade = "drive"
  /\ \/ commands = "stop" /\ UNCHANGED <<target, childExit>>
     \/ commands # "stop" /\ LaunchedChildExited
  /\ shade' = "stopping"
  /\ UNCHANGED <<launched, pty, driven, preResume, resumed, session, terminal,
                 ingestVars>>

\* The session returns, by itself or because it was stopped.  It has joined
\* the worker, or never started one, unless the join timed out; Rpc errors
\* come before the time-out is reported.
DriveReturns ==
  /\ shade \in {"drive", "stopping"}
  /\ \/ result' \in {"ok", "failed"} /\ worker = "ended"
     \/ result' = "failed" /\ worker # "ended"
     \/ result' = "timedOut" /\ worker # "ended"
  /\ shade' = "resume"
  /\ UNCHANGED <<launched, pty, driven, tgt, commands, worker, firstBatch, terminal,
                 ingestVars>>

\* The worker ends, now or after it was left behind, and drops the sink.
WorkerEnds ==
  /\ worker = "running" /\ shade \notin {"drive", "exited"}
  /\ worker' = "ended" /\ DropSink
  /\ UNCHANGED <<process, tgt, commands, result, firstBatch, terminal>>

-----------------------------------------------------------------------------
(* The end of run_recording *)

\* Resume a target that is still suspended; an error returns at once.
ResumeNow ==
  /\ shade = "resume"
  /\ IF preResume
     THEN Resume /\ shade' = IF resumed' > resumed THEN "terminate" ELSE "exit"
     ELSE shade' = "terminate" /\ UNCHANGED <<target, preResume, resumed>>
  /\ UNCHANGED <<launched, pty, driven, childExit, session, terminal, ingestVars>>

\* Mutant: only a session that ended well terminates the child.
TerminateChild_WhenOk ==
  /\ shade = "terminate"
  /\ IF launched /\ ~childExit /\ result = "ok"
     THEN target' = "reaped" /\ childExit' = TRUE
     ELSE UNCHANGED <<target, childExit>>
  /\ shade' = "report"
  /\ UNCHANGED <<launched, pty, driven, preResume, resumed, session, terminal,
                 ingestVars>>

\* terminate_launched_child: reap it, kill it first if it runs.
TerminateChild ==
  /\ shade = "terminate"
  /\ IF launched /\ ~childExit
     THEN target' = "reaped" /\ childExit' = TRUE
     ELSE UNCHANGED <<target, childExit>>
  /\ shade' = "report"
  /\ UNCHANGED <<launched, pty, driven, preResume, resumed, session, terminal,
                 ingestVars>>

\* Mutant: finish waits for the output task and keeps its own sender.
ReportExit_KeepsSender ==
  /\ shade = "report"
  /\ IF pty
     THEN /\ output' = IF childExit /\ outputTask = "sending"
                       THEN Append(output, Exit) ELSE output
          /\ shade' = "pump"
     ELSE shade' = "forwarder" /\ UNCHANGED output
  /\ UNCHANGED <<launched, pty, driven, tgt, session, writes, read, reader, senders,
                 outputTask, shown, ingestVars>>

\* With a terminal: report_exit, and finish drops the pump's sender.
ReportExit ==
  /\ shade = "report"
  /\ IF pty
     THEN /\ output' = IF childExit /\ outputTask = "sending"
                       THEN Append(output, Exit) ELSE output
          /\ senders' = FALSE
          /\ shade' = "pump"
     ELSE shade' = "forwarder" /\ UNCHANGED <<output, senders>>
  /\ UNCHANGED <<launched, pty, driven, tgt, session, writes, read, reader,
                 outputTask, shown, ingestVars>>

\* output_task.await.
FinishPump ==
  /\ shade = "pump" /\ outputTask \in {"closed", "failed"}
  /\ shade' = "forwarder"
  /\ UNCHANGED <<launched, pty, driven, tgt, session, terminal, ingestVars>>

\* forwarder.await, for at most five seconds if the worker was left behind.
AwaitForwarder ==
  /\ shade = "forwarder"
  /\ Joined \/ result = "timedOut"
  /\ shade' = "exit"
  /\ UNCHANGED <<launched, pty, driven, tgt, session, terminal, ingestVars>>

\* main returns: dropping the tokio runtime waits for the blocking pool, where
\* the reliable forwarder runs; then the process and its threads are gone.
ProcessExits ==
  /\ shade = "exit" /\ reliable \in {"none", "done"}
  /\ shade' = "exited"
  /\ UNCHANGED <<launched, pty, driven, tgt, session, terminal, ingestVars>>

-----------------------------------------------------------------------------
(* The terminal pump *)

\* The reader thread: a chunk, or the end once the last holder of the slave
\* side has closed it.
ReadPty ==
  /\ reader = "reading" /\ read < writes
  /\ read' = read + 1
  /\ IF outputTask = "sending"
     THEN output' = Append(output, read + 1) /\ UNCHANGED reader
     ELSE reader' = "done" /\ UNCHANGED output
  /\ UNCHANGED <<process, tgt, session, writes, senders, outputTask, shown,
                 ingestVars>>

\* Any error but EINTR and EIO is reported and ends the thread.
ReadFails ==
  /\ reader = "reading"
  /\ output' = IF outputTask = "sending" THEN Append(output, ReadError) ELSE output
  /\ reader' = "done"
  /\ UNCHANGED <<process, tgt, session, writes, read, senders, outputTask, shown,
                 ingestVars>>

\* The end of the file, or EIO.
PtyCloses ==
  /\ reader = "reading" /\ read = writes /\ target \in {"exited", "reaped"}
  /\ reader' = "done"
  /\ UNCHANGED <<process, tgt, session, writes, read, output, senders,
                 outputTask, shown, ingestVars>>

\* output_task sends an event, which completes when the frontend reads; the
\* server may have gone.
SendOutput ==
  /\ outputTask = "sending" /\ output # <<>>
  /\ output' = Tail(output)
  /\ \/ /\ frontend = "reading"
        /\ shown' = Append(shown, Head(output)) /\ UNCHANGED outputTask
     \/ outputTask' = "failed" /\ UNCHANGED shown
  /\ UNCHANGED <<process, tgt, session, writes, read, reader, senders,
                 ingestVars>>

\* Mutant: the output is closed as soon as the pump is told to finish.
CloseOutput_AtFinish ==
  /\ outputTask = "sending" /\ output = <<>> /\ ~senders
  /\ outputTask' = "closed"
  /\ UNCHANGED <<process, tgt, session, writes, read, reader, output, senders,
                 shown, ingestVars>>

\* Every sender is gone, the reader's among them.
CloseOutput ==
  /\ outputTask = "sending" /\ output = <<>> /\ ~senders /\ reader = "done"
  /\ outputTask' = "closed"
  /\ UNCHANGED <<process, tgt, session, writes, read, reader, output, senders,
                 shown, ingestVars>>

-----------------------------------------------------------------------------
Lifecycle ==
  \/ Attach \/ Register \/ ConnectIngest \/ StartTerminal
  \/ ResumeNow \/ TerminateChild \/ ReportExit \/ FinishPump \/ AwaitForwarder
  \/ ProcessExits

ReaderThread == ReadPty \/ PtyCloses \/ ReadFails
OutputTask   == SendOutput \/ CloseOutput

\* The reader thread and the output task, until the process is gone.
Pump == shade # "exited" /\ (ReaderThread \/ OutputTask)

\* The worker is what emits the events; target-attached is published before.
Recording ==
  /\ shade # "exited"
  /\ \/ worker = "running" /\ enqueued + published < MaxEmitted[launched] /\ Emit
     \/ Forwarder \/ Reliable \/ ServerApplies \/ ServerDropsRx
  /\ UNCHANGED <<process, tgt, session, terminal>>

ShadeNext ==
  \/ TargetExits \/ TargetWrites \/ ServerCommands
  \/ Lifecycle \/ FirstBatch \/ ShouldStop \/ DriveReturns \/ WorkerEnds
  \/ Pump \/ Recording

\* The frontend stops reading, or reads on, whenever it likes; with nothing to
\* send nobody can tell.
FrontendTurns ==
  /\ outputTask = "sending" /\ output # <<>> /\ shade # "exited"
  /\ frontend' \in {"reading", "stalled"} \ {frontend}
  /\ UNCHANGED vars

Next == (ShadeNext /\ UNCHANGED frontend) \/ FrontendTurns

Spec == Init /\ [][Next]_allVars

\* The shade's own steps are taken, the forwarders and the pump run, and a
\* session that was asked to stop returns (StaxdClient).  A send completes while
\* the frontend reads; that it does read is not assumed.  A killed target's
\* terminal is closed: a descendant that holds it open closes it some time.
\* The parser worker comes back from its scans.
FairSpec ==
  /\ Spec
  /\ WF_vars(Lifecycle \/ ShouldStop \/ (shade = "stopping" /\ DriveReturns))
  /\ WF_vars(Pump /\ ReaderThread)
  /\ WF_vars(Pump /\ (CloseOutput \/ (frontend = "reading" /\ SendOutput)))
  /\ WF_vars(Recording /\ Forwarder) /\ WF_vars(Recording /\ Reliable)
  /\ WF_vars(Recording /\ ServerApplies)
  /\ WF_vars(WorkerEnds)

-----------------------------------------------------------------------------
(* Properties *)

\* A launched target runs only once the recording is ready or has ended, is
\* resumed once, and does not outlive a session, however that ended; only a
\* task_resume that failed at the very end leaves it behind.
LaunchedTargetIsOwned ==
  launched =>
    /\ resumed > 0 => firstBatch \/ result # "none"
    /\ resumed <= 1
    /\ shade \in {"report", "pump", "forwarder"} => target = "reaped" /\ childExit
    /\ shade = "exited" /\ driven /\ resumed > 0 => target = "reaped"

\* A pump that closes its output has shown everything the target wrote, in
\* order, or said that reading it failed, and once how the target ended.
\* Whatever happens to it, what it has shown is the beginning of that: its
\* chunk n is the nth the target wrote.
ChunksUpTo(i) == Cardinality({j \in 1..i : shown[j] \in Chunk})

OutputComplete ==
  /\ \A i \in DOMAIN shown : shown[i] \in Chunk => shown[i] = ChunksUpTo(i)
  /\ outputTask = "closed" =>
       /\ \/ ChunksUpTo(Len(shown)) = writes
          \/ \E i \in DOMAIN shown : shown[i] = ReadError
       /\ Cardinality({i \in DOMAIN shown : shown[i] = Exit}) = 1

\* Once the server says stop, or the launched target ends, the shade exits,
\* unless it waits for its terminal's output to be taken by a frontend that
\* does not read: nothing but that frontend can hold it.
StoppedShadeExits ==
  (commands = "stop" \/ (launched /\ driven /\ target \in {"exited", "reaped"}))
    ~> (shade = "exited" \/ (shade = "pump" /\ frontend = "stalled"))
=============================================================================
