------------------------------ MODULE MbWindows ------------------------------
(***************************************************************************)
(* What the firmware's telemetry is about: the windows between two summary *)
(* reports.  History variables, which no code reads, watch every push and  *)
(* every reading of a window; the main loop sees the mailbox and the       *)
(* register only once per tick, after whatever the tick has run.           *)
(***************************************************************************)
EXTENDS MbFirmware, MbBytecode

VARIABLES
  stamps,  \* since the last summary: changes of the first sensor's timestamp
  rise,    \* since the last summary: the deepest mailbox a push has left
  peak     \* since the last summary: the deepest mailbox of the actuator

histVars == <<stamps, rise, peak>>
windowsVars == <<boardVars, histVars>>

HistInit == stamps = 0 /\ rise = 0 /\ peak = 0

Deeper(a, b) == IF a > b THEN a ELSE b

\* A look that reports the summary begins a window.
Reports == due = "sample" /\ due' = "tick" /\ SummaryDue

Watch ==
  LET depth == mailbox'[ProcA].count
  IN  IF Reports
      THEN stamps' = 0 /\ rise' = 0 /\ peak' = depth
      ELSE /\ stamps' = IF running = ProcS /\ Ts' # Ts /\ Ts' # 0
                        THEN stamps + 1 ELSE stamps
           /\ rise' = IF depth > mailbox[ProcA].count THEN Deeper(rise, depth) ELSE rise
           /\ peak' = Deeper(peak, depth)

WindowsInit(devices) == BoardInit(devices) /\ HistInit

WindowsNext == \/ BoardMain /\ Watch
               \/ LoopClock /\ UNCHANGED <<ready, wire, histVars>>

WindowsSpec(devices) == WindowsInit(devices) /\ [][WindowsNext]_windowsVars

-----------------------------------------------------------------------------
\* The event count of each window of the telemetry is the number of times
\* the first sensor has read a new millisecond in it: a poll is counted once,
\* in its window, however many ticks of other processes see the same register.
EventsAreNewStamps == due = "tick" => events = stamps

\* Looking once per tick misses no peak: every depth that a push has reached
\* is in the sampled maximum, and no depth is that was not there.
SampledPeakIsReached == due = "tick" => rise <= maxADepth /\ maxADepth <= peak

\* The program spawned last has only whole instructions, and no SEND: compiled
\* actuators.  One that could send to itself could fill and empty its mailbox
\* in one turn, between two looks.
ActuatorSendsNothing ==
  /\ Boot[ProcA] \in WellFormed
  /\ \A at \in StartsOf[Boot[ProcA]] : ByteAt(Code[Boot[ProcA]], at, 0) # MB_OP_SEND
=============================================================================
