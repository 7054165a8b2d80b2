------------------------------- MODULE MbBoot -------------------------------
(***************************************************************************)
(* The firmware's way to its main loop (zephyr_app/src/main.c): the boot   *)
(* counter in the retained registers, the task watchdog, the I2C signature *)
(* scan with a thread per probe, and the loop that feeds the watchdog.     *)
(*                                                                         *)
(* Time passes in units, and only when main has nothing to do.  A transfer *)
(* on the bus may end at any moment or never: the bus may be stuck, or its *)
(* driver still held by a thread that was aborted.                         *)
(***************************************************************************)
EXTENDS Integers, FiniteSets, Sequences

CONSTANTS
  Bus,           \* os2_sensor_sigs: the bus of each signature
  Expected,      \* and the register value that identifies the device
  Replies,       \* the values the devices on the buses may answer with
  ReadyBuses,    \* the buses that the board has
  MaxTargets,    \* the size of main's table of targets
  ProbeTimeout,  \* OS2_I2C_PROBE_TIMEOUT_MS
  WdtTimeout,    \* OS2_WDT_TIMEOUT_MS
  SettleTime,    \* the pause before the scan
  CounterMod     \* the values of a retained register

Sigs == 1..Len(Bus)

ASSUME BootAssumption ==
  /\ Bus \in Seq(Nat) /\ Expected \in [Sigs -> Nat]
  /\ Replies \in [Sigs -> SUBSET Nat]
  /\ ReadyBuses \subseteq Nat
  /\ MaxTargets \in Nat
  /\ {ProbeTimeout, WdtTimeout, SettleTime} \subseteq Nat \ {0}
  /\ CounterMod \in Nat \ 0..2  \* there are two numbers besides 0

VARIABLES
  stage,      \* where main is
  sig,        \* the signature it scans, from 1
  timer,      \* what is left of the pause or of the probe's time
  wdt,        \* what is left of the watchdog's time, or Off
  ctx,        \* os2_probe_ctx: rc and value
  done,       \* its semaphore
  transfers,  \* the signatures whose probe threads are in a transfer
  targets,    \* the signatures found
  magic,      \* GPREGRET2 holds OS2_BOOT_MAGIC_GPR2
  counter,    \* GPREGRET
  answered    \* history: signatures whose device identified itself in time

vars == <<stage, sig, timer, wdt, ctx, done, transfers, targets, magic, counter,
          answered>>
probe == <<ctx, done, transfers>>
retained == <<magic, counter>>

Off == -1

NoReply == [rc |-> "ETIMEDOUT", value |-> 0]

Init == /\ stage = "reset" /\ sig = 1 /\ timer = 0 /\ wdt = Off
        /\ ctx = NoReply /\ done = 0 /\ transfers = {}
        /\ targets = <<>> /\ answered = {}
        /\ magic = FALSE /\ counter = 0

-----------------------------------------------------------------------------
(* From the reset to the scan.                                             *)

\* Faulty: the counter passes through 0.
NextCountWraps == (IF magic THEN counter + 1 ELSE 1) % CounterMod

\* os2_boot_counter_next.
NextCount == LET next == (IF magic THEN counter + 1 ELSE 1) % CounterMod
             IN  IF next = 0 THEN 1 ELSE next

\* Faulty: the watchdog is not started.
StartedWdtNot == Off

\* os2_task_wdt_start.
StartedWdt == WdtTimeout

Boot ==
  /\ stage = "reset"
  /\ counter' = NextCount /\ magic' = TRUE
  /\ \/ wdt' = StartedWdt /\ stage' = "settle" /\ timer' = SettleTime
     \/ stage' = "returned" /\ UNCHANGED <<wdt, timer>>  \* it does not start
  /\ UNCHANGED <<sig, ctx, done, transfers, targets, answered>>

Settled ==
  /\ stage = "settle" /\ timer = 0
  /\ stage' = "scan" /\ sig' = 1
  /\ UNCHANGED <<timer, wdt, probe, targets, retained, answered>>

-----------------------------------------------------------------------------
(* The scan: os2_i2c_signature_scan and os2_i2c_probe_timeout.             *)

SkipBus ==
  /\ stage = "scan" /\ sig \in Sigs /\ Bus[sig] \notin ReadyBuses
  /\ sig' = sig + 1
  /\ UNCHANGED <<stage, timer, wdt, probe, targets, retained, answered>>

\* Faulty: the semaphore keeps what an aborted probe left in it.
InitialDoneKept == done

\* k_sem_init.
InitialDone == 0

\* Faulty: the probe has no time limit of its own.
ProbeTimeForever == WdtTimeout + 1

ProbeTime == ProbeTimeout

\* The thread preempts main and runs up to its transfer.
ProbeStart ==
  /\ stage = "scan" /\ sig \in Sigs /\ Bus[sig] \in ReadyBuses
  /\ done' = InitialDone /\ ctx' = NoReply
  /\ transfers' = transfers \cup {sig}
  /\ stage' = "probe" /\ timer' = ProbeTime
  /\ UNCHANGED <<sig, wdt, targets, retained, answered>>

\* The transfer of thread t ends, and so does the thread.
TransferEnds(t) ==
  /\ t \in transfers
  /\ \E reply \in {[rc |-> "error", value |-> 0]} \cup
                  {[rc |-> "ok", value |-> v] : v \in Replies[t]} :
       /\ ctx' = reply
       /\ answered' = IF stage = "probe" /\ t = sig /\ reply.rc = "ok"
                         /\ reply.value = Expected[t]
                      THEN answered \cup {t} ELSE answered
  /\ done' = 1
  /\ transfers' = transfers \ {t}
  /\ UNCHANGED <<stage, sig, timer, wdt, targets, retained>>

\* Faulty: one target more than the table holds.
HasRoomForOneMore == Len(targets) <= MaxTargets

HasRoom == Len(targets) < MaxTargets

ProbeAnswered ==
  /\ stage = "probe" /\ done = 1
  /\ done' = 0
  /\ targets' = IF /\ ctx.rc = "ok" /\ ctx.value = Expected[sig]
                   /\ HasRoom
                THEN Append(targets, sig) ELSE targets
  /\ stage' = "scan" /\ sig' = sig + 1
  /\ UNCHANGED <<timer, wdt, ctx, transfers, retained, answered>>

\* k_sem_take gives up.  Before main runs again the thread may still end.
ProbeExpires ==
  /\ stage = "probe" /\ done = 0 /\ timer = 0
  /\ stage' = "expired"
  /\ UNCHANGED <<sig, timer, wdt, probe, targets, retained, answered>>

\* Faulty: the thread is left to itself.
AbortedNot == transfers

\* k_thread_abort.
Aborted == transfers \ {sig}

ProbeAborted ==
  /\ stage = "expired"
  /\ transfers' = Aborted
  /\ stage' = "scan" /\ sig' = sig + 1
  /\ UNCHANGED <<timer, wdt, ctx, done, targets, retained, answered>>

ScanEnds ==
  /\ stage = "scan" /\ sig \notin Sigs
  /\ stage' = "loop"
  /\ UNCHANGED <<sig, timer, wdt, probe, targets, retained, answered>>

-----------------------------------------------------------------------------
(* The main loop, the watchdog and the power.                              *)

\* mb_sched_tick returns, if it does, and main feeds the watchdog; or that
\* fails, and main returns.
LoopTick ==
  /\ stage = "loop" /\ wdt # 0
  /\ \/ wdt' = WdtTimeout /\ UNCHANGED stage
     \/ stage' = "returned" /\ UNCHANGED wdt
  /\ UNCHANGED <<sig, timer, probe, targets, retained, answered>>

\* os2_task_wdt_cb: a cold reboot, which keeps the retained registers.
Reset ==
  /\ stage' = "reset" /\ sig' = 1 /\ timer' = 0 /\ wdt' = Off
  /\ ctx' = NoReply /\ done' = 0 /\ transfers' = {}
  /\ targets' = <<>> /\ answered' = {}

WdtFires == wdt = 0 /\ Reset /\ UNCHANGED retained

PowerLoss == Reset /\ magic' = FALSE /\ counter' = 0

Waiting == \/ stage = "settle" /\ timer > 0
           \/ stage = "probe" /\ timer > 0 /\ done = 0
           \/ stage \in {"loop", "returned"} /\ wdt # Off

Pass ==
  /\ Waiting /\ wdt # 0
  /\ wdt' = IF wdt = Off THEN Off ELSE wdt - 1
  /\ timer' = IF timer = 0 THEN 0 ELSE timer - 1
  /\ UNCHANGED <<stage, sig, probe, targets, retained, answered>>

-----------------------------------------------------------------------------
\* The steps of main that need nobody else, unless the watchdog is due.
MainStep ==
  /\ wdt # 0
  /\ \/ Boot \/ Settled \/ SkipBus \/ ProbeStart \/ ProbeAnswered
     \/ ProbeExpires \/ ProbeAborted \/ ScanEnds

Next ==
  \/ MainStep
  \/ \E t \in transfers : TransferEnds(t)
  \/ LoopTick
  \/ WdtFires
  \/ PowerLoss
  \/ Pass

\* The processor runs main and time passes; no transfer or tick need end.
Fairness == WF_vars(MainStep) /\ WF_vars(WdtFires) /\ WF_vars(Pass)

Spec == Init /\ [][Next]_vars /\ Fairness

-----------------------------------------------------------------------------
TypeOK ==
  /\ stage \in {"reset", "settle", "scan", "probe", "expired", "loop", "returned"}
  /\ sig \in 1..(Len(Bus) + 1)
  /\ timer \in Nat
  /\ wdt \in {Off} \cup 0..WdtTimeout
  /\ ctx \in [rc : {"ETIMEDOUT", "ok", "error"}, value : Nat]
  /\ done \in {0, 1}
  /\ transfers \subseteq Sigs
  /\ targets \in Seq(Sigs) /\ Len(targets) <= MaxTargets
  /\ answered \subseteq Sigs
  /\ magic \in BOOLEAN /\ counter \in 0..(CounterMod - 1)

\* One thread object and one stack serve all probes: a probe's thread is
\* gone before the next one is created (os2_i2c_probe_timeout).
OneProbeAtATime == Cardinality(transfers) <= 1

\* s lists the first MaxTargets of a set of signatures, in the table's order.
IsFirstOf(s, S) ==
  /\ \A i, j \in DOMAIN s : i < j => s[i] < s[j]
  /\ \A i \in DOMAIN s : s[i] \in S
  /\ \A x \in S : \/ \E i \in DOMAIN s : s[i] = x
                  \/ Len(s) >= MaxTargets /\ \A i \in DOMAIN s : s[i] < x

\* The scan (os2_i2c_signature_scan) finds exactly the devices that identified
\* themselves in time, as far as the table has room: no late answer is taken
\* for that of another signature, and none in time is lost.
ScanFindsAnswers == stage = "loop" => IsFirstOf(targets, answered)

\* Two boots in a row without loss of power have different numbers, and no
\* boot has the number 0 of a cleared register (os2_boot_counter_next).
BootsTellApart ==
  [][stage = "reset" /\ stage' # "reset" =>
       counter' # 0 /\ (magic => counter' # counter)]_vars

\* From its pause on, main gets through the scan to the main loop, whatever
\* the buses do, unless power is lost (the probe's time limit).
BootReachesLoop == stage = "settle" ~> stage = "loop" \/ ~magic

\* A tick that never returns ends in a reset: in the main loop the watchdog
\* is fed or the firmware starts anew (os2_task_wdt_cb).
HangsEndInReset == stage = "loop" ~> wdt = WdtTimeout \/ stage = "reset"
=============================================================================
