----------------------------- MODULE MbTelemetry -----------------------------
(***************************************************************************)
(* The body of the firmware's main loop around mb_sched_tick: after each   *)
(* tick it looks at the first sensor's timestamp register and at two       *)
(* mailboxes, and every StatsPeriod it reports a summary and starts over.  *)
(* Tick, idle and error counts only go to the log and are left out; the    *)
(* watchdog's feed is in MbBoot.  MbFirmware puts the steps together.      *)
(***************************************************************************)
EXTENDS MbMain

CONSTANT StatsPeriod  \* 5000: milliseconds between summaries

ASSUME TelemetryAssumption == StatsPeriod \in Nat \ {0}

VARIABLES
  due,        \* "tick" or "sample": what the loop does next
  events,     \* event_count
  lastTs,     \* last_ts
  maxADepth,  \* max_a_depth
  maxSDepth,  \* max_s_depth
  lastStats,  \* last_stats_ts
  summary     \* the last summary line

reportVars == <<events, lastTs, maxADepth, maxSDepth, lastStats, summary>>
telemetryVars == <<due, reportVars>>
loopVars == <<vars, telemetryVars>>

\* proc_s and proc_a: the first process spawned and the last.
ProcS == 1
ProcA == Len(Boot)

NoSummary == [events |-> 0, aDepth |-> 0, sDepth |-> 0]

LoopInit == /\ Init
            /\ due = "tick"
            /\ events = 0 /\ lastTs = 0
            /\ maxADepth = 0 /\ maxSDepth = 0
            /\ lastStats = 0
            /\ summary = NoSummary

\* The timestamp register of a compiled sensor.
Ts == GET_SMALLINT(regs[ProcS][9])

\* Faulty: whatever the register holds counts.
NewEventAlways == Ts # 0

NewEvent == Ts # 0 /\ Ts # lastTs

\* Faulty: depths are looked at in idle ticks only.
PeakWhenIdle(peak, p) ==
  IF runRc = MB_SCHED_IDLE /\ mailbox[p].count > peak THEN mailbox[p].count ELSE peak

Peak(peak, p) == IF mailbox[p].count > peak THEN mailbox[p].count ELSE peak

SummaryDue == (Now - lastStats) % ClockMod >= StatsPeriod

\* What follows the tick in the loop's body.
Sample ==
  LET counted == events + (IF NewEvent THEN 1 ELSE 0)
      a == Peak(maxADepth, ProcA)
      s == Peak(maxSDepth, ProcS)
  IN  /\ due = "sample" /\ running = 0
      /\ due' = "tick"
      /\ lastTs' = IF NewEvent THEN Ts ELSE lastTs
      /\ \/ /\ SummaryDue
            /\ summary' = [events |-> counted, aDepth |-> a, sDepth |-> s]
            /\ lastStats' = Now
            /\ events' = 0 /\ maxADepth' = 0 /\ maxSDepth' = 0
         \/ /\ ~SummaryDue
            /\ events' = counted /\ maxADepth' = a /\ maxSDepth' = s
            /\ UNCHANGED <<lastStats, summary>>
      /\ UNCHANGED vars

LoopSpawn == SpawnNext /\ UNCHANGED telemetryVars

TelemetryTick ==
  /\ due = "tick"
  /\ LoopTick
  /\ due' = "sample"
  /\ UNCHANGED reportVars

LoopClock == ClockTick /\ UNCHANGED telemetryVars
=============================================================================
