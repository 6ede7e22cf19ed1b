----------------------------- MODULE Diagnostics -----------------------------
(***************************************************************************)
(* The diagnostics that run one subprocess: DiagPing, DiagHttpDownload,    *)
(* DiagIperf3, Speedtest and TraceRoute.  They share their life cycle and  *)
(* differ in details, which kind selects.  The subprocesses are external:  *)
(* they print, close their output and exit at any time.                    *)
(*                                                                         *)
(* What matters of the output is which runs it comes from; LastResultTime, *)
(* which Speedtest sets with its Output, is left out.                      *)
(***************************************************************************)
EXTENDS Naturals, FiniteSets

CONSTANTS
  Kinds,    \* the diagnostics to start with
  MaxRuns   \* bound: assignments of the ACS, and so runs

\* What is assumed of the constants.
DiagnosticsAssumption ==
  /\ Kinds \subseteq {"ping", "http", "iperf3", "speedtest", "traceroute"}
  /\ MaxRuns \in Nat

VARIABLES
  kind,      \* the diagnostic
  up,        \* the process of catawampus runs
  requested, \* the attribute: Requested was assigned, and the run not started
  scheduled, \* _StartProc waits for the idle ioloop
  host,      \* whether Host, or URL, is set
  subproc,   \* the run whose subprocess is kept; 0 if none
  handlers,  \* runs whose output has a handler at the ioloop
  alive,     \* runs whose subprocess has not exited
  open,      \* runs whose output is not closed
  failed,    \* runs that exited with an error
  result,    \* runs that Result, Output or RouteHopsList is from
  buffer,    \* runs with output that waits for its end (Speedtest, TraceRoute)
  error,     \* the attribute error is set
  runs,      \* runs so far
  inputs     \* assignments so far

ours == <<requested, scheduled, host, subproc, handlers, result, buffer, error, runs>>
procs == <<alive, open, failed>>
vars == <<kind, up, ours, procs, inputs>>

Init ==
  /\ kind \in Kinds
  /\ up = TRUE
  /\ requested = FALSE /\ scheduled = FALSE
  /\ host = FALSE
  /\ subproc = 0 /\ handlers = {}
  /\ alive = {} /\ open = {} /\ failed = {}
  /\ result = {} /\ buffer = {} /\ error = FALSE
  /\ runs = 0 /\ inputs = 0

-----------------------------------------------------------------------------

DiagnosticsState ==
  IF requested \/ subproc # 0 THEN "Requested"
  ELSE IF error THEN "Error"
  ELSE IF result # {} THEN "Complete"
  ELSE IF kind = "speedtest" THEN "Error" ELSE "None"

\* Mutation: a subprocess that still runs is left to itself.
NotKilled == UNCHANGED alive

\* What _EndProc leaves of the subprocess that is kept: it is killed unless it has
\* exited, and its output is no longer read.
Killed == alive' = alive \ {subproc}

EndedProc ==
  /\ Killed
  /\ handlers' = handlers \ {subproc}

\* The error of the run that ends.  Speedtest does not wait: the exit status of a
\* subprocess that has to be killed first is unknown.
ErrorAtEnd ==
  CASE subproc = 0         -> error
    [] kind = "speedtest"  -> error \/ subproc \in failed
    [] kind = "traceroute" -> error \/ subproc \in failed \/ result = {}
    [] OTHER               -> error

\* _EndProc at the end of a run.  Only Speedtest has gathered its output in buffer.
EndProc ==
  /\ EndedProc
  /\ subproc' = 0
  /\ error' = ErrorAtEnd
  /\ result' = IF kind = "speedtest" THEN buffer ELSE result
  /\ buffer' = IF kind = "speedtest" THEN {} ELSE buffer

-----------------------------------------------------------------------------
(* The ACS *)

\* DiagnosticsState = Requested
Request ==
  /\ up
  /\ requested' = TRUE /\ scheduled' = TRUE
  /\ UNCHANGED <<kind, up, host, subproc, handlers, result, buffer, error, runs, procs>>

\* Only iperf3 can be stopped.  _StartProc, if it waits, is not taken back.
Stop ==
  /\ up /\ kind = "iperf3"
  /\ requested' = FALSE
  /\ EndProc
  /\ UNCHANGED <<kind, up, scheduled, host, runs, open, failed>>

SetHost ==
  /\ up
  /\ host' = ~host
  /\ UNCHANGED <<kind, up, requested, scheduled, subproc, handlers, result, buffer, error,
                 runs, procs>>

-----------------------------------------------------------------------------

\* Mutation: the results of the run before are not forgotten.
KeptResult(r) == result \cup {r}

\* What the result is when a run starts: the command line of the run, or no hops.
\* Speedtest, which ends the run before first, publishes what it has printed so far.
NewResult(r) ==
  CASE kind = "speedtest"  -> buffer
    [] kind = "traceroute" -> {}
    [] OTHER               -> {r}

\* The subprocess of a new run has started.  What TraceRoute has of an unfinished
\* line of the run before stays in its buffer.
Started(r) ==
  /\ subproc' = r /\ runs' = r
  /\ handlers' = (handlers \ {subproc}) \cup {r}
  /\ alive' = (alive \ {subproc}) \cup {r}
  /\ open' = open \cup {r}
  /\ result' = NewResult(r)
  /\ buffer' = IF kind = "traceroute" THEN buffer ELSE {}
  /\ error' = FALSE
  /\ UNCHANGED <<up, failed>>

\* No program could be started: Speedtest, which tries two, tells so; the run before
\* has been ended, and its output published, all the same.
NotStarted ==
  /\ kind = "speedtest"
  /\ EndedProc
  /\ subproc' = 0 /\ error' = TRUE
  /\ result' = buffer /\ buffer' = {}
  /\ UNCHANGED <<up, runs, open, failed>>

\* _StartProc raises, for there is no Host, no URL or no program: the process exits.
Exits ==
  /\ \/ kind \in {"http", "traceroute"} /\ ~host
     \/ kind # "speedtest"
  /\ EndedProc
  /\ up' = FALSE
  /\ subproc' = 0
  /\ UNCHANGED <<result, buffer, error, runs, open, failed>>

StartProc ==
  /\ up /\ scheduled
  /\ scheduled' = FALSE /\ requested' = FALSE
  /\ \/ Started(runs + 1) /\ (kind \in {"http", "traceroute"} => host)
     \/ NotStarted
     \/ Exits
  /\ UNCHANGED <<kind, host, inputs>>

\* _GotData with output of the run r, which ends with a whole line or not.
GotData(r, line) ==
  /\ up /\ r \in handlers /\ r \in open
  /\ CASE kind = "speedtest"  -> buffer' = buffer \cup {r} /\ UNCHANGED result
       [] kind = "traceroute" ->
            IF line THEN result' = result \cup buffer \cup {r} /\ buffer' = {}
            ELSE buffer' = buffer \cup {r} /\ UNCHANGED result
       [] OTHER -> result' = result \cup {r} /\ UNCHANGED buffer
  /\ \/ UNCHANGED error
     \/ kind = "traceroute" /\ line /\ error' = TRUE    \* MaxHopCount exceeded
  /\ UNCHANGED <<kind, up, requested, scheduled, host, subproc, handlers, runs, procs, inputs>>

\* _GotData at the end of the output
GotEnd(r) ==
  /\ up /\ r \in handlers /\ r \notin open
  /\ EndProc
  /\ UNCHANGED <<kind, up, requested, scheduled, host, runs, open, failed, inputs>>

CloseOutput(r) ==
  /\ r \in alive \cap open
  /\ open' = open \ {r}
  /\ UNCHANGED <<kind, up, ours, alive, failed, inputs>>

\* Its output is closed when it exits.
Exit(r) ==
  /\ r \in alive
  /\ alive' = alive \ {r} /\ open' = open \ {r}
  /\ failed' \in {failed, failed \cup {r}}
  /\ UNCHANGED <<kind, up, ours, inputs>>

Subprocess == \E r \in alive : CloseOutput(r) \/ Exit(r)

Next ==
  \/ inputs < MaxRuns /\ inputs' = inputs + 1 /\ (Request \/ Stop \/ SetHost)
  \/ StartProc
  \/ \E r \in handlers : GotEnd(r) \/ \E line \in BOOLEAN : GotData(r, line)
  \/ Subprocess

Spec == Init /\ [][Next]_vars

-----------------------------------------------------------------------------
(* Properties *)

TypeOK ==
  /\ kind \in Kinds /\ {up, requested, scheduled, host, error} \subseteq BOOLEAN
  /\ subproc \in 0..runs /\ runs \in 0..MaxRuns /\ inputs \in 0..MaxRuns
  /\ UNION {handlers, alive, open, failed, result, buffer} \subseteq 1..runs

\* However requests, output and exits interleave: at most one subprocess of a
\* diagnostic runs, the one that is kept, its output is read, and no handler is left
\* for a descriptor that was closed.
OneSubprocess ==
  up => alive \subseteq {subproc} /\ handlers = {subproc} \ {0}

\* The results are never those of two runs, and they are the last run's; but while a
\* speedtest is under way, its Output is that of the run before, as far as that got.
\* What waits to be published is the last run's.  (TraceRoute may take the first line
\* of a run for the end of a line of the one before.)
ResultOfLastRun ==
  /\ kind \notin {"speedtest", "traceroute"} => result \subseteq {runs}
  /\ kind = "speedtest" => result \subseteq IF subproc = 0 THEN {runs} ELSE {runs - 1}
  /\ kind # "traceroute" => buffer \subseteq {runs}

\* A diagnostic that was requested ends, or the process exits.  Without the ACS
\* asking again and again, that is: the assignments are bounded.
DiagnosticEnds ==
  (up /\ DiagnosticsState = "Requested" /\ kind # "iperf3")
    ~> (~up \/ DiagnosticsState # "Requested")
=============================================================================
