------------------------------- MODULE ProfileRun -------------------------------
(***************************************************************************)
(* One run of the profile driver (profile_run.py, decode_isolation.py):    *)
(* boot the server, wait until it is ready, arm the profiler under load,   *)
(* check the traces, tear the server down on every path out, and, when the *)
(* timed trigger for decode never fires, do it once more on a decode-only  *)
(* server in the same directory.  The server and the benchmark run beside  *)
(* the driver and share files with it: the serve log, the benchmark's      *)
(* result, the traces and the runfile.  What launch and teardown do to the *)
(* process group is in ServerLifecycle.                                    *)
(***************************************************************************)
EXTENDS TLC

CONSTANT None

Modes == {"timed", "isolated"}
Positions == {"main", "launch", "launched", "wait", "confirm", "arm", "pollBench", "pollLog",
              "start", "bench", "stop", "validate", "evidence", "manifest",
              "teardown", "caught", "exit"}

Failures == {"arming", "other"}

VARIABLES
  phase, fallback,  \* --phase, and --decode-fallback isolated
  mode,             \* DECODE_MODE; "timed" also for prefill
  pc, failure,      \* where the driver is; the exception in flight
  server,           \* the last server launched
  runfile,          \* the mode of the server it names, "old" or None
  said,              \* the lines of serve.log that the driver looks for
  bench,            \* the benchmark
  result,           \* the mode of the benchmark that wrote the result file
  measured,         \* measurement.json: whose result, recorded in which mode
  traces, before,   \* whose traces are in PROFILE_OUT; PROFILE_FILES_BEFORE
  window,           \* history: the last /start_profile
  cut               \* history: a launch was interrupted before it was recorded

config == <<phase, fallback>>
files == <<runfile, result, measured, traces, before>>
history == <<window, cut>>
runVars == <<config, mode, pc, failure, server, files, said, bench, history>>

Server == [mode : Modes, state : {"down", "booting", "ready"},
           steady : BOOLEAN, decodeOnly : BOOLEAN]
Owners == Modes \cup {"old"}

ASSUME NoneAssumption == None \notin Owners \cup Failures \cup Server

RunTypeOK ==
  /\ phase \in {"prefill", "decode"} /\ fallback \in BOOLEAN /\ mode \in Modes
  /\ pc \in Positions /\ failure \in Failures \cup {None}
  /\ server \in Server \cup {None}
  /\ runfile \in Owners \cup {None}
  /\ said \subseteq {"steady", "decodeOnly"}
  /\ bench \in {"none", "running", "ok", "failed"}
  /\ result \in Modes \cup {None}
  /\ measured \in [of : Modes \cup {None}, mode : Modes] \cup {None}
  /\ traces \subseteq Owners /\ before \subseteq Owners
  /\ window \in [mode : Modes, steady : BOOLEAN] \cup {None}
  /\ cut \in BOOLEAN
  /\ bench = "running" => pc \in {"pollBench", "pollLog", "start", "bench"}

\* A runfile or traces of an earlier run may be there.
RunInit ==
  /\ phase \in {"prefill", "decode"} /\ fallback \in BOOLEAN
  /\ mode \in (IF phase = "decode" THEN Modes ELSE {"timed"})
  /\ pc = "main" /\ failure = None
  /\ server = None /\ runfile \in {None, "old"}
  /\ said = {} /\ bench = "none" /\ result = None /\ measured = None
  /\ traces \in {{}, {"old"}} /\ before = {} /\ window = None /\ cut = FALSE

Live == server # None /\ server.state # "down"
Ready == server # None /\ server.state = "ready"

-----------------------------------------------------------------------------
(* The server and the benchmark.                                            *)

\* A server whose connector works says so; one that is misconfigured serves.
ServerReady ==
  /\ server # None /\ server.state = "booting"
  /\ \E ok \in {server.mode = "isolated", FALSE} :
       /\ server' = [server EXCEPT !.state = "ready", !.decodeOnly = ok]
       /\ said' = IF ok THEN said \cup {"decodeOnly"} ELSE said
  /\ UNCHANGED <<config, mode, pc, failure, files, bench, history>>

\* The scheduler logs a tick without prefill and with the batch size wanted.
ServerSteady ==
  /\ Ready /\ bench = "running"
  /\ server' = [server EXCEPT !.steady = TRUE]
  /\ said' = said \cup {"steady"}
  /\ UNCHANGED <<config, mode, pc, failure, files, bench, history>>

ServerDies ==
  /\ Live /\ server' = [server EXCEPT !.state = "down"]
  /\ UNCHANGED <<config, mode, pc, failure, files, said, bench, history>>

WriteTrace ==
  /\ Ready /\ window # None /\ window.mode = server.mode
  /\ traces' = traces \cup {server.mode}
  /\ UNCHANGED <<config, mode, pc, failure, server, runfile, result, measured,
                 before, said, bench, history>>

\* The benchmark writes its result at its end, over the one that is there.
BenchEnds ==
  /\ bench = "running"
  /\ \/ bench' = "ok" /\ result' = mode
     \/ bench' = "failed" /\ UNCHANGED result
  /\ UNCHANGED <<config, mode, pc, failure, server, runfile, measured, traces,
                 before, said, history>>

-----------------------------------------------------------------------------
(* The driver.                                                              *)

\* Out of the try block: arm_decode's own finally ends the benchmark.
Leave(error) ==
  /\ pc' = IF mode = "isolated" THEN "evidence" ELSE "manifest"
  /\ failure' = error
  /\ bench' = IF bench = "running" THEN "none" ELSE bench

Advance(step) == pc' = step /\ UNCHANGED <<failure, bench>>

Main ==
  /\ pc = "main"
  /\ IF runfile # None
     THEN pc' = "exit" /\ failure' = "other" /\ UNCHANGED before
     ELSE pc' = "launch" /\ before' = traces /\ UNCHANGED failure
  /\ UNCHANGED <<config, mode, server, runfile, result, measured, traces, said,
                 bench, history>>

\* Popen: the server runs, and no file names it yet.
LaunchServer ==
  /\ pc = "launch" /\ Advance("launched")
  /\ server' = [mode |-> mode, state |-> "booting", steady |-> FALSE,
                decodeOnly |-> FALSE]
  /\ UNCHANGED <<config, mode, files, said, history>>

LaunchFails ==
  /\ pc = "launch" /\ Leave("other")
  /\ UNCHANGED <<config, mode, server, files, said, history>>

\* write_runfile
RecordLaunch ==
  /\ pc = "launched" /\ Advance("wait")
  /\ runfile' = mode
  /\ UNCHANGED <<config, mode, server, result, measured, traces, before, said, history>>

\* Mutant: the exception is raised, the server is left.
AbortNothing ==
  /\ pc = "launched" /\ Leave("other")
  /\ UNCHANGED <<config, mode, server, files, said, history>>

\* An Exception before the runfile is written: _abort_launch kills the server.
AbortLaunch ==
  /\ pc = "launched" /\ Leave("other")
  /\ server' = IF Live THEN [server EXCEPT !.state = "down"] ELSE server
  /\ UNCHANGED <<config, mode, files, said, history>>

\* wait_ready; the timeout, or the server's death, is an exception.
WaitReady ==
  /\ pc = "wait"
  /\ \/ Ready /\ Advance(IF mode = "isolated" THEN "confirm" ELSE "arm")
     \/ Leave("other")
  /\ UNCHANGED <<config, mode, server, files, said, history>>

ConfirmDecodeOnly ==
  /\ pc = "confirm"
  /\ IF "decodeOnly" \in said THEN Advance("arm") ELSE Leave("other")
  /\ UNCHANGED <<config, mode, server, files, said, history>>

\* arm_decode loads the server first, arm_prefill starts the profiler first.
Arm ==
  /\ pc = "arm"
  /\ IF phase = "decode"
     THEN pc' = "pollBench" /\ bench' = "running" /\ UNCHANGED failure
     ELSE Advance("start")
  /\ UNCHANGED <<config, mode, server, files, said, history>>

\* persist_measurement records what is in the result file, and raises when the
\* benchmark failed or the file is missing.
Persist(then, otherwise) ==
  /\ measured' = [of |-> result, mode |-> mode]
  /\ IF bench = "failed" \/ result = None THEN otherwise ELSE then

\* First the benchmark is looked at ...
PollBench ==
  /\ pc = "pollBench"
  /\ IF bench = "running" THEN Advance("pollLog") /\ UNCHANGED measured
     ELSE IF result # None THEN Persist(Leave("arming"), Leave("other"))
     ELSE Leave("arming") /\ UNCHANGED measured
  /\ UNCHANGED <<config, mode, server, runfile, result, traces, before, said, history>>

\* ... then the whole log; the benchmark, or the server, may go on meanwhile.
PollLog ==
  /\ pc = "pollLog"
  /\ IF "steady" \in said THEN Advance("start")
     ELSE \/ Advance("pollBench")
          \/ Leave("arming")  \* 300 s are over
  /\ UNCHANGED <<config, mode, server, files, said, history>>

\* POST /start_profile; for prefill the benchmark starts now.
StartProfile ==
  /\ pc = "start"
  /\ \/ /\ Ready /\ pc' = "bench" /\ UNCHANGED failure
        /\ bench' = IF phase = "prefill" THEN "running" ELSE bench
        /\ window' = [mode |-> mode, steady |-> server.steady]
     \/ Leave("other") /\ UNCHANGED window
  /\ UNCHANGED <<config, mode, server, files, said, cut>>

\* Mutant: a benchmark that failed under the profiler is an arming failure.
BenchDoneUnarmed ==
  /\ pc = "bench" /\ bench # "running"
  /\ Persist(Advance("stop"), Leave("arming"))
  /\ UNCHANGED <<config, mode, server, runfile, result, traces, before, said, history>>

BenchDone ==
  /\ pc = "bench" /\ bench # "running"
  /\ Persist(Advance("stop"), Leave("other"))
  /\ UNCHANGED <<config, mode, server, runfile, result, traces, before, said, history>>

StopProfile ==
  /\ pc = "stop"
  /\ \/ Ready /\ Advance("validate")
     \/ Leave("other")
  /\ UNCHANGED <<config, mode, server, files, said, history>>

\* Mutant: traces that were there before count.
ValidateAnyTrace ==
  /\ pc = "validate"
  /\ Leave(IF traces = {} THEN "other" ELSE None)
  /\ UNCHANGED <<config, mode, server, files, said, history>>

\* validate_capture, summarize_results
ValidateCapture ==
  /\ pc = "validate"
  /\ Leave(IF traces \subseteq before THEN "other" ELSE None)
  /\ UNCHANGED <<config, mode, server, files, said, history>>

\* The finally block of an isolated capture begins with decode_isolation.json,
\* and when that cannot be written neither manifest nor teardown follows.
WriteEvidence ==
  /\ pc = "evidence"
  /\ \/ pc' = "manifest" /\ UNCHANGED failure
     \/ pc' = "caught" /\ failure' = "other"
  /\ UNCHANGED <<config, mode, server, files, said, bench, history>>

\* Then, whether or not emit_manifest raises, teardown follows.
EmitManifest ==
  /\ pc = "manifest" /\ pc' = "teardown"
  /\ failure' \in {failure, "other"}
  /\ UNCHANGED <<config, mode, server, files, said, bench, history>>

\* A teardown that fails raises, in place of what was in flight.
Teardown ==
  /\ pc = "teardown" /\ pc' = "caught"
  /\ \/ runfile = None /\ UNCHANGED <<server, failure>>
     \/ /\ runfile # None /\ UNCHANGED failure
        /\ server' = IF Live THEN [server EXCEPT !.state = "down"] ELSE server
     \/ runfile # None /\ failure' = "other" /\ UNCHANGED server
  /\ UNCHANGED <<config, mode, files, said, bench, history>>

MayFallBack == failure = "arming" /\ phase = "decode" /\ mode = "timed" /\ fallback

\* reset_run_dir, inject_isolation.  The traces may fail to go; the log and
\* the result of the benchmark stay.
FallBack ==
  /\ pc = "caught" /\ MayFallBack
  /\ pc' = "launch" /\ failure' = None /\ mode' = "isolated"
  /\ runfile' = None
  /\ traces' \in {{}, traces} /\ before' = traces'
  /\ UNCHANGED <<config, server, result, measured, said, bench, history>>

Exit ==
  /\ pc = "caught" /\ ~MayFallBack /\ pc' = "exit"
  /\ UNCHANGED <<config, mode, failure, server, files, said, bench, history>>

\* Ctrl-C: in the try block the finally blocks still run; before the manifest,
\* in the teardown, or outside of the try block, the driver ends.  It is not an
\* Exception: a launch cut short by it is not aborted, and its server stays.
Interrupt ==
  /\ pc # "exit"
  /\ IF pc \in {"main", "evidence", "teardown", "caught"}
     THEN pc' = "exit" /\ failure' = "other" /\ UNCHANGED bench
     ELSE IF pc = "manifest" THEN pc' = "teardown" /\ failure' = "other" /\ UNCHANGED bench
     ELSE Leave("other")
  /\ cut' = (cut \/ pc = "launched")
  /\ UNCHANGED <<config, mode, server, files, said, window>>

Driver == \/ Main \/ LaunchServer \/ LaunchFails \/ RecordLaunch \/ AbortLaunch
          \/ WaitReady \/ ConfirmDecodeOnly \/ Arm \/ PollBench \/ PollLog
          \/ StartProfile \/ BenchDone \/ StopProfile \/ ValidateCapture
          \/ WriteEvidence \/ EmitManifest \/ Teardown \/ FallBack \/ Exit

RunNext == \/ Driver \/ Interrupt
           \/ ServerReady \/ ServerSteady \/ ServerDies \/ WriteTrace \/ BenchEnds

RunSpec == RunInit /\ [][RunNext]_runVars

\* The driver goes on: its waits have deadlines and its requests time out, but
\* for the end of the benchmark, which is assumed.
RunFairness == WF_runVars(Driver) /\ WF_runVars(BenchEnds)

FairRunSpec == RunSpec /\ RunFairness

-----------------------------------------------------------------------------
(* Properties.                                                              *)

\* Whatever fails, and whenever the driver is interrupted, a server that runs
\* is named by the runfile, and whoever finds it there can tear it down: the
\* second attempt does not remove the runfile of a first that still runs.  The
\* launch itself is the exception: between Popen and write_runfile nothing names
\* the server, and an interrupt there leaves it so.
ServerIsNamed == Live => runfile = server.mode \/ pc = "launched" \/ cut

\* A run that ends well left no server and no benchmark behind, and holds the
\* measurement and the traces of its own last attempt, not of a run before it
\* nor of an attempt whose benchmark left its result in the same file.  An
\* isolated capture came from a server that skipped prefill, though both
\* attempts write to one log.
SuccessIsComplete ==
  pc = "exit" /\ failure = None =>
    /\ ~Live /\ bench # "running"
    /\ measured = [of |-> mode, mode |-> mode]
    /\ mode \in traces
    /\ mode = "isolated" => server.decodeOnly

\* However a run goes on or ends, its servers, its traces and its numbers are
\* accounted for: nothing but a launch cut short runs unnamed, nothing reported
\* is another run's.
RunIsAccountable == RunTypeOK /\ ServerIsNamed /\ SuccessIsComplete

\* The second attempt begins only when no profile was taken in the first
\* ("so /start_profile was never sent").
FallbackOnlyUnarmed == [][mode' # mode => window = None /\ ~Live]_runVars

\* Every run ends.
RunEnds == <>(pc = "exit")

(* What the documentation says and the code does not keep.                  *)

\* arm_decode: "wait for BS=STEADY_STATE_BS decode-only, then bracket": the
\* server that is profiled has itself reached the steady state.
StartsInSteadyState == phase = "decode" /\ window # None => window.steady
=============================================================================
