--------------------------- MODULE MetricsRecorder ---------------------------
(***************************************************************************)
(* The record of a tool call, from the handler to the tool_calls table     *)
(* (mcp/metrics.go), and the shutdown it lives in (daemon.go:442).         *)
(* withMetrics hands a record to a channel without waiting; one goroutine  *)
(* gathers batches and writes them; when Start returns its context is      *)
(* cancelled, and Stop closes the store and the process ends.              *)
(* A call stands for its record.                                           *)
(***************************************************************************)
EXTENDS Naturals, Sequences, FiniteSets

CONSTANTS
  ToolCalls,    \* tool calls
  Cap,          \* metricsChannelCap
  BatchSize     \* metricsBatchSize

ASSUME RecorderAssumption == Cap \in Nat \ {0} /\ BatchSize \in Nat \ {0}

VARIABLES
  handler,      \* a call's handler: "idle", "handling", "returned"
  ch, batch,    \* MetricsRecorder.ch; Run's batch
  run,          \* where Run is
  daemon,       \* "serving", "stopping", "closing", "closed", "exited"
  stored,       \* rows of tool_calls, in order
  dropped,      \* history: records that found it full
  failed        \* history: records whose write failed (logged)

recorderVars == <<handler, ch, batch, run, daemon, stored, dropped, failed>>
history == <<dropped, failed>>

Items(s) == {s[i] : i \in DOMAIN s}
Up == daemon # "exited"

RecorderInit ==
  /\ handler = [c \in ToolCalls |-> "idle"]
  /\ ch = <<>> /\ batch = <<>>
  /\ run = "select"
  /\ daemon = "serving"
  /\ stored = <<>>
  /\ dropped = {} /\ failed = {}

------------------------------------------------------------------------------
(* withMetrics *)

Handle(c) ==
  /\ daemon = "serving"
  /\ handler[c] = "idle"
  /\ handler' = [handler EXCEPT ![c] = "handling"]
  /\ UNCHANGED <<ch, batch, run, daemon, stored, history>>

(* The handler is back, with a result, an error or at its time limit: Record,  *)
(* which never waits.                                                        *)
Record(c) ==
  /\ Up
  /\ handler[c] = "handling"
  /\ handler' = [handler EXCEPT ![c] = "returned"]
  /\ IF Len(ch) < Cap
     THEN ch' = Append(ch, c) /\ UNCHANGED dropped
     ELSE dropped' = dropped \cup {c} /\ UNCHANGED ch
  /\ UNCHANGED <<batch, run, daemon, stored, failed>>

------------------------------------------------------------------------------
(* Run.  While it writes (flush) it does not receive. *)

Receive ==
  /\ Up
  /\ run = "select"
  /\ ch # <<>>
  /\ batch' = Append(batch, Head(ch))
  /\ ch' = Tail(ch)
  /\ run' = IF Len(batch') >= BatchSize THEN "flush" ELSE "select"
  /\ UNCHANGED <<handler, daemon, stored, history>>

(* Mutant: the ticker flushes full batches only. *)
TickFull ==
  /\ Up
  /\ run = "select"
  /\ Len(batch) >= BatchSize
  /\ run' = "flush"
  /\ UNCHANGED <<handler, ch, batch, daemon, stored, history>>

Tick ==
  /\ Up
  /\ run = "select"
  /\ batch # <<>>
  /\ run' = "flush"
  /\ UNCHANGED <<handler, ch, batch, daemon, stored, history>>

(* RecordToolCalls is one transaction; a closed store fails it. *)
Write(ok) ==
  IF ok
  THEN daemon # "closed" /\ stored' = stored \o batch /\ UNCHANGED failed
  ELSE failed' = failed \cup Items(batch) /\ UNCHANGED stored

(* Mutant: the batch is not emptied after a failed write, to be tried again. *)
FlushKeepsBatch ==
  /\ Up
  /\ run = "flush"
  /\ \E ok \in BOOLEAN : Write(ok) /\ batch' = IF ok THEN <<>> ELSE batch
  /\ run' = "select"
  /\ UNCHANGED <<handler, ch, daemon, dropped>>

Flush ==
  /\ Up
  /\ run = "flush"
  /\ \E ok \in BOOLEAN : Write(ok)
  /\ batch' = <<>>
  /\ run' = "select"
  /\ UNCHANGED <<handler, ch, daemon, dropped>>

(* ctx.Done: metricsCancel ran when Start returned. *)
Cancelled ==
  /\ Up
  /\ run = "select"
  /\ daemon # "serving"
  /\ run' = "drain"
  /\ UNCHANGED <<handler, ch, batch, daemon, stored, history>>

Drain ==
  /\ Up
  /\ run = "drain"
  /\ ch # <<>>
  /\ batch' = Append(batch, Head(ch))
  /\ ch' = Tail(ch)
  /\ UNCHANGED <<handler, run, daemon, stored, history>>

(* The drain always lasts its second, which is long for a receive: what is in  *)
(* the channel when it ends came at that moment, as if after it.             *)
Deadline ==
  /\ Up
  /\ run = "drain"
  /\ ch = <<>>
  /\ run' = IF batch = <<>> THEN "done" ELSE "lastFlush"
  /\ UNCHANGED <<handler, ch, batch, daemon, stored, history>>

LastFlush ==
  /\ Up
  /\ run = "lastFlush"
  /\ \E ok \in BOOLEAN : Write(ok)
  /\ batch' = <<>>
  /\ run' = "done"
  /\ UNCHANGED <<handler, ch, daemon, dropped>>

------------------------------------------------------------------------------
(* Start's end, Stop, and main's end.  Nothing waits for Run. *)

(* serveFunc returned, on EOF (error is FALSE) or with an error, on which main *)
(* exits without Stop.                                                       *)
StartReturns(error) ==
  /\ daemon = "serving"
  /\ daemon' = IF error THEN "exited" ELSE "stopping"
  /\ UNCHANGED <<handler, ch, batch, run, stored, history>>

(* socketServer.Shutdown returns when the calls in flight are over, or after its *)
(* own time limit.                                                           *)
SocketShutdown ==
  /\ daemon = "stopping"
  /\ daemon' = "closing"
  /\ UNCHANGED <<handler, ch, batch, run, stored, history>>

CloseBackends ==
  /\ daemon = "closing"
  /\ daemon' = "closed"
  /\ UNCHANGED <<handler, ch, batch, run, stored, history>>

Exit ==
  /\ daemon = "closed"
  /\ daemon' = "exited"
  /\ UNCHANGED <<handler, ch, batch, run, stored, history>>

Runner == Receive \/ Tick \/ Flush \/ Cancelled \/ Drain \/ Deadline \/ LastFlush
Daemon == (\E error \in BOOLEAN : StartReturns(error)) \/ SocketShutdown \/ CloseBackends \/ Exit
RecorderNext == (\E c \in ToolCalls : Handle(c) \/ Record(c)) \/ Runner \/ Daemon

(* A handler ends at its time limit at the latest (mcpHandlerTimeout); the       *)
(* ticker ticks, and a select does not pass over a ready channel for ever.   *)
RecorderFairness ==
  /\ \A c \in ToolCalls : WF_recorderVars(Record(c))
  /\ WF_recorderVars(Receive) /\ WF_recorderVars(Tick) /\ WF_recorderVars(Flush)
  /\ WF_recorderVars(Cancelled) /\ WF_recorderVars(Drain)
  /\ WF_recorderVars(Deadline) /\ WF_recorderVars(LastFlush)

RecorderSpec == RecorderInit /\ [][RecorderNext]_recorderVars
RecorderFairSpec == RecorderSpec /\ RecorderFairness

------------------------------------------------------------------------------
(* Every variable has its type, and the queues hold records of calls.               *)
RecorderTypeOK ==
  /\ handler \in [ToolCalls -> {"idle", "handling", "returned"}]
  /\ ch \in Seq(ToolCalls) /\ batch \in Seq(ToolCalls) /\ stored \in Seq(ToolCalls)
  /\ run \in {"select", "flush", "drain", "lastFlush", "done"}
  /\ daemon \in {"serving", "stopping", "closing", "closed", "exited"}
  /\ dropped \subseteq ToolCalls /\ failed \subseteq ToolCalls

(* Every call that returned has its record in exactly one place: in the channel, *)
(* in the batch, in the table, dropped, or in a failed write; none is counted  *)
(* twice in the table, whatever fails and whenever the daemon stops.        *)
NoRepeat(s) == \A i, j \in DOMAIN s : i # j => s[i] # s[j]
Held == Items(ch) \cup Items(batch) \cup Items(stored) \cup dropped \cup failed
RecordsConserved ==
  /\ Held = {c \in ToolCalls : handler[c] = "returned"}
  /\ NoRepeat(ch) /\ NoRepeat(batch) /\ NoRepeat(stored)
  /\ Items(ch) \cap Items(batch) = {} /\ Items(ch) \cap Items(stored) = {}
  /\ Items(batch) \cap Items(stored) = {}
  /\ dropped \cap failed = {}
  /\ (dropped \cup failed) \cap (Items(ch) \cup Items(batch) \cup Items(stored)) = {}

(* While the daemon serves, a record that was queued is written, be it alone in  *)
(* its batch.                                                                *)
RecordsSettle ==
  \A c \in ToolCalls :
    c \in Items(ch) ~> (c \in Items(stored) \cup failed \/ daemon # "serving")

(* metrics.go:88 "Run processes queued records until ctx is cancelled, then drains *)
(* remaining": no record that was queued before the shutdown is lost with the     *)
(* process.                                                                  *)
RecordsSurviveShutdown ==
  [][Exit => ch = <<>> /\ batch = <<>>]_recorderVars
=============================================================================
