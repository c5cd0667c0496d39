-------------------------------- MODULE Dap --------------------------------
(***************************************************************************)
(* The debug adapter (src/dap.rs) and the run it hosts                     *)
(* (lib.rs eval_file_debug): one thread that either reads requests in its  *)
(* main loop, runs the script, or sits at a stop reading requests from     *)
(* inside the DBG_LINE builtin.  The client is the environment: it writes  *)
(* requests at any moment, whether or not the adapter is reading, and may  *)
(* close its end.                                                          *)
(*                                                                         *)
(* The script is any sequence of statement markers, prints and partial     *)
(* prints.  Its standard output is a pipe whose write end blocks and whose *)
(* read end only this same thread drains, at a stop and after the run.     *)
(* Output is counted in chunks; a chunk printed without a newline waits in *)
(* the line buffer of std::io::Stdout (tail) until the next newline.       *)
(*                                                                         *)
(* Requests that change nothing but are answered (threads, stackTrace,     *)
(* scopes, variables, evaluate, pause, configurationDone, ...) are the one *)
(* command "query"; next, stepIn and stepOut are "next"; disconnect and    *)
(* terminate are "terminate".  A read error is the end of the input.       *)
(***************************************************************************)
EXTENDS Integers, Sequences

CONSTANTS
    Paths,        \* script files the client may name
    Lines,        \* source lines, positive (marker line 0 never stops)
    Markers,      \* Markers[p]: the lines of p that compile to a DBG_LINE marker
    MaxRequests,  \* bound: requests the client sends
    MaxSteps,     \* bound: markers and prints of one session
    PipeCap,      \* chunks the stdout pipe holds before a write blocks
    TailCap       \* chunks the line buffer holds before it writes through

ASSUME PathsAssumption == Paths # {}
ASSUME LinesAssumption == Lines \subseteq Nat \ {0}
ASSUME MarkersAssumption == Markers \in [Paths -> SUBSET Lines]
ASSUME BoundsAssumption ==
    /\ MaxRequests \in Nat /\ MaxSteps \in Nat
    /\ PipeCap \in Nat /\ TailCap \in Nat \ {0}

NoPath == "none"   \* the empty program string before anything named a file
ASSUME NoPathAssumption == NoPath \notin Paths

VARIABLES
    inbox,        \* requests written by the client and not yet read
    sent,         \* how many requests the client wrote (the next one's seq - 1)
    eof,          \* the client closed its end
    phase,        \* "idle" (main loop), "running", "stopped", "exited"
    breakpoints, verified, mode, program, seq, active,   \* DebugState
    launched,     \* the file eval_file_debug runs
    line,         \* the last marker executed
    steps,        \* markers and prints executed so far
    printed, tail, pipe, forwarded,   \* output: total, in Stdout, in the pipe, sent
    told,         \* told[p]: lines of p the client was last told are verified
    out           \* every message on the protocol channel, in order

client  == <<inbox, sent, eof>>
debug   == <<breakpoints, verified, mode, program, active>>
output  == <<printed, tail, pipe, forwarded>>
wire    == <<seq, out>>
vars == <<inbox, sent, eof, phase, breakpoints, verified, mode, program, seq,
          active, launched, line, steps, printed, tail, pipe, forwarded, told, out>>

Phases == {"idle", "running", "stopped", "exited"}
Plain  == {"query", "initialize", "continue", "next", "terminate"}
Commands == Plain \cup {"setBreakpoints", "launch"}
Requests ==
    [cmd : Plain, path : {NoPath}, lines : {{}}]
    \cup [cmd : {"setBreakpoints"}, path : Paths, lines : SUBSET Lines]
    \cup [cmd : {"launch"}, path : Paths \cup {NoPath}, lines : {{}}]

\* A message before it has its sequence number: a response names the request
\* it answers, an "output" event the number of chunks it carries.
Response(r) == [type |-> "response", what |-> r.cmd, arg |-> r.seq]
Event(e, n) == [type |-> "event", what |-> e, arg |-> n]

Messages == [type : {"response", "event"},
             what : Commands \cup {"initialized", "stopped", "output", "terminated"},
             arg : Nat, seq : Nat]

\* send(): each message takes next_seq() as it is written.
Emit(ms) ==
    /\ out' = out \o [i \in 1..Len(ms) |->
                        [type |-> ms[i].type, what |-> ms[i].what,
                         arg |-> ms[i].arg, seq |-> seq + i - 1]]
    /\ seq' = seq + Len(ms)

\* drain_output(): what it sends, which is nothing when the pipe is empty.
Drained(n) == IF n = 0 THEN <<>> ELSE <<Event("output", n)>>

Init ==
    /\ inbox = <<>> /\ sent = 0 /\ eof = FALSE
    /\ phase = "idle"
    /\ breakpoints = {} /\ verified = {} /\ mode = "Continue"
    /\ program = NoPath /\ seq = 1 /\ active = FALSE
    /\ launched = NoPath /\ line = 0 /\ steps = 0
    /\ printed = 0 /\ tail = 0 /\ pipe = 0 /\ forwarded = 0
    /\ told = [p \in Paths |-> {}]
    /\ out = <<>>

-----------------------------------------------------------------------------
(* The client. *)

Send(r) ==
    /\ ~eof /\ sent < MaxRequests
    /\ inbox' = Append(inbox, [cmd |-> r.cmd, path |-> r.path, lines |-> r.lines,
                               seq |-> sent + 1])
    /\ sent' = sent + 1
    /\ UNCHANGED <<eof, phase, debug, launched, line, steps, output, told, wire>>

Close ==
    /\ ~eof
    /\ eof' = TRUE
    /\ UNCHANGED <<inbox, sent, phase, debug, launched, line, steps, output,
                   told, wire>>

-----------------------------------------------------------------------------
(* The main loop of run(), and the loop of on_debug_line at a stop.  Both   *)
(* read with read_message, so both take the oldest request.                 *)

Reading == phase \in {"idle", "stopped"} /\ inbox # <<>>
Read(cmd) == Reading /\ Head(inbox).cmd = cmd /\ inbox' = Tail(inbox)

\* Mutant: the stop loop has no default arm, so launch and initialize sit there.
AcknowledgeKnown ==
    /\ \/ Read("query")
       \/ phase = "idle" /\ (Read("continue") \/ Read("next"))
    /\ Emit(<<Response(Head(inbox))>>)
    /\ UNCHANGED <<sent, eof, phase, debug, launched, line, steps, output, told>>

\* A request neither loop acts on: it is acknowledged.  In the main loop the
\* resume commands are such requests; at a stop, launch and initialize are.
Acknowledge ==
    /\ \/ Read("query")
       \/ phase = "idle" /\ (Read("continue") \/ Read("next"))
       \/ phase = "stopped" /\ (Read("launch") \/ Read("initialize"))
    /\ Emit(<<Response(Head(inbox))>>)
    /\ UNCHANGED <<sent, eof, phase, debug, launched, line, steps, output, told>>

Initialize ==
    /\ phase = "idle" /\ Read("initialize")
    /\ Emit(<<Response(Head(inbox)), Event("initialized", 0)>>)
    /\ UNCHANGED <<sent, eof, phase, debug, launched, line, steps, output, told>>

\* Mutant: new lines are added to the old ones instead of replacing them.
SetBreakpointsAdds ==
    /\ Read("setBreakpoints")
    /\ LET r == Head(inbox)
       IN  /\ program' = r.path
           /\ breakpoints' = breakpoints \cup r.lines
           /\ verified' = Markers[r.path]
           /\ told' = [told EXCEPT ![r.path] = r.lines \cap Markers[r.path]]
           /\ Emit(<<Response(r)>>)
    /\ UNCHANGED <<sent, eof, phase, mode, active, launched, line, steps, output>>

\* set_breakpoints: one set of lines and one set of markers, whatever the file.
\* The request names its file: without one (dap.rs:174) program stays and no
\* line is verified.
SetBreakpoints ==
    /\ Read("setBreakpoints")
    /\ LET r == Head(inbox)
       IN  /\ program' = r.path
           /\ breakpoints' = r.lines
           /\ verified' = Markers[r.path]
           /\ told' = [told EXCEPT ![r.path] = r.lines \cap Markers[r.path]]
           /\ Emit(<<Response(r)>>)
    /\ UNCHANGED <<sent, eof, phase, mode, active, launched, line, steps, output>>

\* Mutant: launch without a program returns before it answers.
LaunchUnanswered ==
    /\ phase = "idle" /\ Read("launch")
    /\ LET r == Head(inbox)
       IN  IF r.path = NoPath
           THEN UNCHANGED <<phase, program, mode, active, launched, line, wire>>
           ELSE /\ Emit(<<Response(r)>>)
                /\ program' = IF program = NoPath THEN r.path ELSE program
                /\ mode' = "Continue" /\ active' = TRUE
                /\ launched' = r.path /\ line' = 0
                /\ phase' = "running"
    /\ UNCHANGED <<sent, eof, breakpoints, verified, steps, output, told>>

\* launch: answered first, then the script runs on this same thread.
Launch ==
    /\ phase = "idle" /\ Read("launch")
    /\ LET r == Head(inbox)
       IN  /\ Emit(<<Response(r)>>)
           /\ IF r.path = NoPath
              THEN UNCHANGED <<phase, program, mode, active, launched, line>>
              ELSE /\ program' = IF program = NoPath THEN r.path ELSE program
                   /\ mode' = "Continue" /\ active' = TRUE
                   /\ launched' = r.path /\ line' = 0
                   /\ phase' = "running"
    /\ UNCHANGED <<sent, eof, breakpoints, verified, steps, output, told>>

\* handle_stopped: continue, next/stepIn/stepOut, disconnect/terminate return
\* control to the VM.
Resume(cmd, m) ==
    /\ phase = "stopped" /\ Read(cmd)
    /\ mode' = m
    /\ Emit(<<Response(Head(inbox))>>)
    /\ phase' = "running"
    /\ UNCHANGED <<sent, eof, breakpoints, verified, program, active, launched,
                   line, steps, output, told>>

\* disconnect/terminate in the main loop ends the session.
Disconnect ==
    /\ phase = "idle" /\ Read("terminate")
    /\ Emit(<<Response(Head(inbox))>>)
    /\ phase' = "exited"
    /\ UNCHANGED <<sent, eof, debug, launched, line, steps, output, told>>

\* Mutant: a stop keeps waiting after the client has gone.
ReadEofIdle ==
    /\ eof /\ inbox = <<>>
    /\ phase = "idle" /\ phase' = "exited" /\ mode' = mode
    /\ UNCHANGED <<client, breakpoints, verified, program, active, launched, line,
                   steps, output, told, wire>>

\* End of the input: the main loop returns; a stop lets the program run on.
ReadEof ==
    /\ eof /\ inbox = <<>>
    /\ \/ phase = "idle" /\ phase' = "exited" /\ mode' = mode
       \/ phase = "stopped" /\ phase' = "running" /\ mode' = "Continue"
    /\ UNCHANGED <<client, breakpoints, verified, program, active, launched, line,
                   steps, output, told, wire>>

-----------------------------------------------------------------------------
(* The script, run by eval_file_debug. *)

Runs == phase = "running" /\ steps < MaxSteps

\* on_debug_line's decision.
StopsAt(l) ==
    active /\ ((l \in breakpoints /\ l \in verified) \/ mode = "Step")

Marker(l) ==
    /\ Runs /\ l \in Markers[launched]
    /\ steps' = steps + 1 /\ line' = l
    /\ IF StopsAt(l)
       THEN /\ phase' = "stopped"
            /\ Emit(Append(Drained(pipe), Event("stopped", l)))
            /\ pipe' = 0 /\ forwarded' = forwarded + pipe
       ELSE UNCHANGED <<phase, pipe, forwarded, wire>>
    /\ UNCHANGED <<client, debug, launched, printed, tail, told>>

\* println: the line and whatever the line buffer holds go to the pipe; the
\* write blocks while they do not fit.
Println ==
    /\ Runs /\ pipe + tail + 1 <= PipeCap
    /\ pipe' = pipe + tail + 1 /\ tail' = 0
    /\ printed' = printed + 1 /\ steps' = steps + 1
    /\ UNCHANGED <<client, phase, debug, launched, line, forwarded, told, wire>>

\* print: stays in the line buffer, or pushes the buffer out when it is full.
PrintPartial ==
    /\ Runs
    /\ IF tail < TailCap
       THEN tail' = tail + 1 /\ pipe' = pipe
       ELSE pipe + tail <= PipeCap /\ pipe' = pipe + tail /\ tail' = 1
    /\ printed' = printed + 1 /\ steps' = steps + 1
    /\ UNCHANGED <<client, phase, debug, launched, line, forwarded, told, wire>>

\* Mutant: stdout is not flushed before the last drain.
FinishUnflushed ==
    /\ phase = "running"
    /\ pipe' = 0 /\ forwarded' = forwarded + pipe
    /\ active' = FALSE
    /\ Emit(Append(Drained(pipe), Event("terminated", 0)))
    /\ phase' = "idle"
    /\ UNCHANGED <<client, breakpoints, verified, mode, program, launched, line,
                   steps, printed, tail, told>>

\* The rest of launch(): flush, drain, restore stdout, report.
Finish ==
    /\ phase = "running" /\ pipe + tail <= PipeCap
    /\ tail' = 0 /\ pipe' = 0 /\ forwarded' = forwarded + pipe + tail
    /\ active' = FALSE
    /\ Emit(Append(Drained(pipe + tail), Event("terminated", 0)))
    /\ phase' = "idle"
    /\ UNCHANGED <<client, breakpoints, verified, mode, program, launched, line,
                   steps, printed, told>>

-----------------------------------------------------------------------------
Serve ==
    \/ Acknowledge \/ Initialize \/ SetBreakpoints \/ Launch \/ Disconnect
    \/ Resume("continue", "Continue") \/ Resume("next", "Step")
    \/ Resume("terminate", "Continue")
    \/ ReadEof

Script == (\E l \in Lines : Marker(l)) \/ Println \/ PrintPartial \/ Finish

Next == (\E r \in Requests : Send(r)) \/ Close \/ Serve \/ Script

\* The adapter's thread is never suspended for ever, the script itself ends
\* (MaxSteps), and the client does not hold the session open for ever.
Spec == Init /\ [][Next]_vars
FairSpec == Spec /\ WF_vars(Serve) /\ WF_vars(Script) /\ WF_vars(Close)

-----------------------------------------------------------------------------
(* Properties. *)

\* A request as it waits in the client's pipe: numbered, naming a file if it sets
\* breakpoints.
Queued == {r \in [cmd : Commands, path : Paths \cup {NoPath},
                   lines : SUBSET Lines, seq : Nat] :
              r.cmd = "setBreakpoints" => r.path \in Paths}

\* Every variable of the adapter, the client and the channel has its type.
TypeOK ==
    /\ inbox \in Seq(Queued)
    /\ sent \in Nat /\ eof \in BOOLEAN
    /\ phase \in Phases
    /\ breakpoints \subseteq Lines /\ verified \subseteq Lines
    /\ mode \in {"Continue", "Step"}
    /\ program \in Paths \cup {NoPath} /\ launched \in Paths \cup {NoPath}
    /\ seq \in Nat /\ active \in BOOLEAN
    /\ line \in Lines \cup {0} /\ steps \in Nat
    /\ printed \in Nat /\ tail \in Nat /\ pipe \in Nat /\ forwarded \in Nat
    /\ told \in [Paths -> SUBSET Lines]
    /\ out \in Seq(Messages)

\* run / handle_stopped / respond: whichever of the two loops reads a request,
\* it gets exactly one response; responses leave in the order the requests were
\* written, and none names a request that has not been read.
IsResponse(i) == out[i].type = "response"
Answered == sent - Len(inbox)
AnsweredInOrder ==
    /\ \A n \in 1..Answered : \E i \in 1..Len(out) : IsResponse(i) /\ out[i].arg = n
    /\ \A i \in 1..Len(out) : IsResponse(i) => out[i].arg <= Answered
    /\ \A i, j \in 1..Len(out) :
          i < j /\ IsResponse(i) /\ IsResponse(j) => out[i].arg < out[j].arg

\* next_seq: the channel's messages are numbered 1, 2, 3, ... with no gap and
\* no number used twice, whether a response, a stop or drained output.
Numbered == seq = Len(out) + 1 /\ \A i \in 1..Len(out) : out[i].seq = i

\* drain_output and the flush in launch: no chunk the script printed is lost or
\* sent twice; at a stop only a partial line can still be held back; and once
\* the run is over everything has been forwarded.
OutputAccounted ==
    /\ printed = forwarded + pipe + tail
    /\ phase = "stopped" => pipe = 0
    /\ phase # "running" /\ phase # "stopped" => printed = forwarded

\* A step that executes a marker, the only one that prints nothing.
MarkerStep == steps' # steps /\ printed' = printed

\* set_breakpoints and on_debug_line: the script stops at a marker exactly when
\* the client was last told that line of this file is a verified breakpoint, or
\* the last resume was a step.
StopsWhenAsked ==
    MarkerStep => (phase' = "stopped" <=> line' \in told[launched] \/ mode = "Step")
BreakpointsHonoured == [][StopsWhenAsked]_vars

\* The same with several files: there is one set of lines and one of markers, so
\* whichever file runs, what counts is what the client was last told of the file
\* it last named.
StopsAsLastTold ==
    MarkerStep => (phase' = "stopped" <=> (program # NoPath /\ line' \in told[program]) \/ mode = "Step")
LastToldHonoured == [][StopsAsLastTold]_vars

\* launch: while the adapter works and the client does not stall for ever, each
\* run that starts ends, and the client sees it end.
RunsEnd == (phase = "running") ~> (phase \in {"idle", "exited"})

\* Every request is answered, unless the session ended first.
EventuallyAnswered ==
    \A n \in 1..MaxRequests :
        (sent >= n) ~> (Answered >= n \/ phase = "exited")
=============================================================================
