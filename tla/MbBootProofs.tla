---------------------------- MODULE MbBootProofs ----------------------------
(***************************************************************************)
(* Proofs about the firmware's boot, MbBoot, for every table of            *)
(* signatures, every set of devices and every choice of the times: its     *)
(* types, that one probe thread exists at a time, that the scan finds      *)
(* exactly the devices that answered in time, and that boots are numbered  *)
(* apart.                                                                  *)
(***************************************************************************)
EXTENDS MbBoot, SequenceTheorems, FiniteSetTheorems, TLAPS

\* A count that wraps at n > 2 never stays, and reads 0 only after n - 1.
LEMMA CountWraps ==
  ASSUME NEW n \in Nat \ 0..2, NEW c \in 0..(n - 1)
  PROVE  /\ (c + 1) % n = IF c = n - 1 THEN 0 ELSE c + 1
         /\ 1 % n = 1
<1>1. CASE c = n - 1
  BY <1>1
<1>2. CASE c # n - 1
  BY <1>2
<1> QED BY <1>1, <1>2

\* os2_boot_counter_next gives a number that is not 0, nor that of the boot
\* before if the register still holds it.
LEMMA NextCountDiffers ==
  ASSUME counter \in 0..(CounterMod - 1), magic \in BOOLEAN
  PROVE  /\ NextCount \in 1..(CounterMod - 1)
         /\ magic => NextCount # counter
<1>1. CounterMod \in Nat \ 0..2
  BY BootAssumption
<1>2. /\ (counter + 1) % CounterMod
           = IF counter = CounterMod - 1 THEN 0 ELSE counter + 1
      /\ 1 % CounterMod = 1
  BY <1>1, CountWraps
<1>3. CASE magic
  BY <1>1, <1>2, <1>3 DEF NextCount
<1>4. CASE ~magic
  BY <1>1, <1>2, <1>4 DEF NextCount
<1> QED BY <1>3, <1>4

\* The constants' types, as the steps of main use them.
LEMMA BootConstants ==
  /\ Len(Bus) \in Nat
  /\ WdtTimeout \in Nat \ {0} /\ SettleTime \in Nat /\ ProbeTime \in Nat
  /\ \A t \in Sigs : Replies[t] \subseteq Nat
  /\ MaxTargets \in Nat /\ CounterMod \in Nat \ 0..2
<1>1. Len(Bus) \in Nat
  BY BootAssumption, LenProperties
<1> QED BY <1>1, BootAssumption DEF ProbeTime

-----------------------------------------------------------------------------
(* The list of targets.                                                    *)

\* A later signature appended to the first ones of S.
LEMMA FirstOfAppend ==
  ASSUME NEW s \in Seq(Nat), NEW n \in Nat, NEW S \in SUBSET (1..(n - 1)),
         IsFirstOf(s, S), ~(Len(s) >= MaxTargets)
  PROVE  IsFirstOf(Append(s, n), S \cup {n})
<1> DEFINE s2 == Append(s, n)
<1>1. /\ s2 \in Seq(Nat) /\ Len(s2) = Len(s) + 1 /\ s2[Len(s) + 1] = n
      /\ \A i \in 1..Len(s) : s2[i] = s[i]
  BY AppendProperties
<1>2. /\ Len(s) \in Nat /\ DOMAIN s = 1..Len(s)
      /\ DOMAIN s2 = 1..(Len(s) + 1)
  BY <1>1, LenProperties
<1>3. \A i \in DOMAIN s : s[i] \in S /\ s[i] < n
  BY DEF IsFirstOf
<1>4. DOMAIN s2 = DOMAIN s \cup {Len(s) + 1}
  BY <1>2
<1> HIDE DEF s2
<1>5. ASSUME NEW i \in DOMAIN s2, NEW j \in DOMAIN s2, i < j
      PROVE  s2[i] < s2[j]
  <2>1. i \in DOMAIN s /\ s2[i] = s[i]
    BY <1>1, <1>2, <1>5
  <2>2. CASE j \in DOMAIN s
    BY <1>1, <1>2, <1>5, <2>1, <2>2 DEF IsFirstOf
  <2>3. CASE j = Len(s) + 1
    BY <1>1, <1>3, <2>1, <2>3
  <2> QED BY <1>4, <2>2, <2>3
<1>6. ASSUME NEW i \in DOMAIN s2
      PROVE  s2[i] \in S \cup {n}
  BY <1>1, <1>2, <1>3, <1>4
<1>7. ASSUME NEW x \in S \cup {n}
      PROVE  \/ \E i \in DOMAIN s2 : s2[i] = x
             \/ Len(s2) >= MaxTargets /\ \A i \in DOMAIN s2 : s2[i] < x
  <2>1. CASE x = n
    BY <1>1, <1>4, <2>1
  <2>2. CASE x \in S /\ \E i \in DOMAIN s : s[i] = x
    BY <1>1, <1>2, <1>4, <2>2
  <2> QED BY <2>1, <2>2 DEF IsFirstOf
<1> QED BY <1>5, <1>6, <1>7 DEF IsFirstOf, s2

\* One that finds the table full.
LEMMA FirstOfFull ==
  ASSUME NEW s \in Seq(Nat), NEW n \in Nat, NEW S \in SUBSET (1..(n - 1)),
         IsFirstOf(s, S), Len(s) >= MaxTargets
  PROVE  IsFirstOf(s, S \cup {n})
<1>1. \A i \in DOMAIN s : s[i] \in S /\ s[i] < n
  BY DEF IsFirstOf
<1> QED BY <1>1 DEF IsFirstOf

-----------------------------------------------------------------------------
(* The invariant.                                                          *)

\* Signatures that the scan is past.
Past == 1..(sig - 1)

\* Before the scan nothing is found and no probe is under way.
NothingYet ==
  stage \in {"reset", "settle"} => targets = <<>> /\ answered = {}

\* Only the signature that is probed has a thread.
OwnTransfer == transfers \subseteq (IF stage \in {"probe", "expired"} THEN {sig} ELSE {})

\* Answers come from signatures the scan has reached.
AnswersPast == answered \subseteq (IF stage = "probe" THEN 1..sig ELSE Past)

\* While a probe is under way, its semaphore tells whether its transfer has
\* ended, and its context how.
ProbeContext ==
  stage = "probe" =>
    /\ sig \in transfers <=> done = 0
    /\ done = 0 => sig \notin answered
    /\ done = 1 => (sig \in answered <=> ctx.rc = "ok" /\ ctx.value = Expected[sig])

\* The targets are the first of the answers the scan is past.
TargetsFirst == IsFirstOf(targets, answered \cap Past)

BootInv ==
  /\ TypeOK
  /\ NothingYet
  /\ stage \in {"probe", "expired"} => sig \in Sigs
  /\ OwnTransfer
  /\ AnswersPast
  /\ ProbeContext
  /\ TargetsFirst

-----------------------------------------------------------------------------
(* The steps.                                                              *)

\* Nothing found is what the table holds of no answers.
LEMMA FirstOfNone == IsFirstOf(<<>>, {}) /\ <<>> \in Seq(Sigs) /\ Len(<<>>) = 0
BY DEF IsFirstOf

LEMMA InitBootInv == Init => BootInv
<1> SUFFICES ASSUME Init PROVE BootInv
  OBVIOUS
<1>1. TypeOK
  <2>1. targets \in Seq(Sigs) /\ Len(targets) <= MaxTargets
    BY BootConstants, FirstOfNone DEF Init
  <2>2. ctx \in [rc : {"ETIMEDOUT", "ok", "error"}, value : Nat]
    BY DEF Init, NoReply
  <2>3. magic \in BOOLEAN /\ counter \in 0..(CounterMod - 1)
    <3>1. 0 \in 0..(CounterMod - 1)
      BY BootConstants
    <3> QED BY <3>1, Zenon DEF Init
  <2>4. sig \in 1..(Len(Bus) + 1)
    BY BootConstants DEF Init
  <2> QED BY <2>1, <2>2, <2>3, <2>4 DEF Init, TypeOK
<1>2. TargetsFirst
  <2>1. answered \cap Past = {}
    BY DEF Init
  <2> QED BY <2>1, FirstOfNone DEF Init, TargetsFirst
<1> QED BY <1>1, <1>2 DEF Init, BootInv, NothingYet, OwnTransfer, AnswersPast,
                        ProbeContext

\* A reset, by the watchdog or by the power, forgets all but the registers.
LEMMA ResetBootInv ==
  ASSUME BootInv, Reset, magic' \in BOOLEAN, counter' \in 0..(CounterMod - 1)
  PROVE  BootInv'
<1>1. TypeOK'
  BY BootConstants, FirstOfNone DEF Reset, TypeOK, NoReply, BootInv
<1>2. TargetsFirst'
  <2>1. (answered \cap Past)' = {}
    BY DEF Reset
  <2> QED BY <2>1, FirstOfNone DEF Reset, TargetsFirst
<1> QED BY <1>1, <1>2 DEF Reset, BootInv, NothingYet, OwnTransfer, AnswersPast,
                        ProbeContext

\* A step of main to the next signature, from an idle scan, a probe that was
\* aborted or one that answered.
LEMMA NextSignature ==
  ASSUME BootInv, stage \in {"scan", "expired"}, sig \in Sigs,
         stage' = "scan", sig' = sig + 1, transfers' \subseteq transfers \ {sig},
         UNCHANGED <<timer, wdt, ctx, done, targets, magic, counter, answered>>
  PROVE  BootInv'
<1>1. sig' \in 1..(Len(Bus) + 1)
  BY BootConstants DEF Sigs
<1>2. TypeOK'
  BY <1>1 DEF TypeOK, BootInv
<1>3. answered \cap Past = answered /\ (answered \cap Past)' = answered
      /\ answered \subseteq Past'
  BY BootConstants DEF BootInv, AnswersPast, Past, Sigs
<1>4. TargetsFirst'
  BY <1>3 DEF TargetsFirst, BootInv
<1> QED BY <1>2, <1>3, <1>4 DEF BootInv, NothingYet, OwnTransfer, AnswersPast,
                              ProbeContext

\* A step that leaves the scan where it is, or ends it.
LEMMA ScanUntouched ==
  ASSUME BootInv, timer' \in Nat, wdt' \in {Off} \cup 0..WdtTimeout,
         magic' \in BOOLEAN, counter' \in 0..(CounterMod - 1),
         UNCHANGED <<sig, ctx, done, transfers, targets, answered>>,
         \/ UNCHANGED stage
         \/ stage \in {"reset", "loop"} /\ stage' = "returned"
         \/ stage = "reset" /\ stage' = "settle"
         \/ stage = "scan" /\ stage' = "loop"
  PROVE  BootInv'
<1>1. TypeOK'
  BY DEF TypeOK, BootInv
<1>2. TargetsFirst'
  BY DEF TargetsFirst, BootInv, Past
<1> QED BY <1>1, <1>2 DEF BootInv, NothingYet, OwnTransfer, AnswersPast,
                        ProbeContext, Past

LEMMA BootStep == BootInv /\ Boot => BootInv'
<1> SUFFICES ASSUME BootInv, Boot PROVE BootInv'
  OBVIOUS
<1>1. counter' \in 0..(CounterMod - 1) /\ magic' \in BOOLEAN
  BY NextCountDiffers, BootConstants DEF Boot, BootInv, TypeOK
<1>2. timer' \in Nat /\ wdt' \in {Off} \cup 0..WdtTimeout
  BY BootConstants DEF Boot, StartedWdt, BootInv, TypeOK
<1> QED BY <1>1, <1>2, ScanUntouched DEF Boot

LEMMA SettledStep == BootInv /\ Settled => BootInv'
<1> SUFFICES ASSUME BootInv, Settled PROVE BootInv'
  OBVIOUS
<1>1. TypeOK'
  BY BootConstants DEF Settled, probe, retained, TypeOK, BootInv
<1>2. TargetsFirst'
  <2>1. targets' = <<>> /\ (answered \cap Past)' = {}
    BY DEF Settled, BootInv, NothingYet
  <2> QED BY <2>1, FirstOfNone DEF TargetsFirst
<1> QED BY <1>1, <1>2 DEF Settled, probe, BootInv, NothingYet, OwnTransfer,
                        AnswersPast, ProbeContext

LEMMA SkipBusStep == BootInv /\ SkipBus => BootInv'
BY NextSignature DEF SkipBus, probe, retained, BootInv, OwnTransfer

LEMMA ProbeStartStep == BootInv /\ ProbeStart => BootInv'
<1> SUFFICES ASSUME BootInv, ProbeStart PROVE BootInv'
  OBVIOUS
<1>1. TypeOK'
  BY BootConstants DEF ProbeStart, retained, TypeOK, BootInv, InitialDone, NoReply
<1>2. TargetsFirst'
  BY DEF ProbeStart, TargetsFirst, BootInv, Past
<1>3. answered \subseteq Past /\ sig \notin answered /\ Past \subseteq 1..sig
  BY BootConstants DEF ProbeStart, BootInv, AnswersPast, Past, Sigs
<1>4. transfers' = {sig}
  BY DEF ProbeStart, BootInv, OwnTransfer
<1> QED BY <1>1, <1>2, <1>3, <1>4 DEF ProbeStart, InitialDone, BootInv, NothingYet,
                        OwnTransfer, AnswersPast, ProbeContext, Past

LEMMA TransferEndsStep ==
  ASSUME BootInv, NEW t \in transfers, TransferEnds(t)
  PROVE  BootInv'
<1>1. t = sig /\ sig \in Sigs /\ stage \in {"probe", "expired"} /\ transfers = {sig}
  BY DEF BootInv, OwnTransfer
<1>2. /\ ctx' \in [rc : {"ETIMEDOUT", "ok", "error"}, value : Nat]
      /\ answered' = IF stage = "probe" /\ ctx'.rc = "ok" /\ ctx'.value = Expected[sig]
                     THEN answered \cup {sig} ELSE answered
  BY <1>1, BootConstants DEF TransferEnds
<1>3. /\ done' = 1 /\ transfers' = {}
      /\ UNCHANGED <<stage, sig, timer, wdt, targets, magic, counter>>
  BY <1>1 DEF TransferEnds, retained
<1>4. TypeOK'
  BY <1>1, <1>2, <1>3 DEF TypeOK, BootInv
<1>5. (answered \cap Past)' = answered \cap Past
  BY <1>1, <1>2, <1>3 DEF Past, Sigs
<1>6. TargetsFirst'
  BY <1>3, <1>5 DEF TargetsFirst, BootInv
<1>7. AnswersPast'
  BY <1>1, <1>2, <1>3, BootConstants DEF AnswersPast, BootInv, Past, Sigs
<1>8. CASE stage = "probe"
  <2>1. done = 0 /\ sig \notin answered
    BY <1>1, <1>8 DEF BootInv, ProbeContext
  <2>2. ProbeContext'
    BY <1>2, <1>3, <1>8, <2>1 DEF ProbeContext
  <2> QED BY <1>3, <1>4, <1>6, <1>7, <1>8, <2>2 DEF BootInv, NothingYet, OwnTransfer
<1>9. CASE stage = "expired"
  BY <1>3, <1>4, <1>6, <1>7, <1>9 DEF BootInv, NothingYet, OwnTransfer, ProbeContext
<1> QED BY <1>1, <1>8, <1>9

LEMMA ProbeAnsweredStep == BootInv /\ ProbeAnswered => BootInv'
<1> SUFFICES ASSUME BootInv, ProbeAnswered PROVE BootInv'
  OBVIOUS
<1> DEFINE before == answered \cap Past
<1>1. sig \in Sigs /\ sig \in Nat \ {0} /\ targets \in Seq(Nat) /\ sig <= Len(Bus)
  BY BootConstants DEF BootInv, TypeOK, ProbeAnswered, Sigs
<1>2. before \in SUBSET (1..(sig - 1)) /\ IsFirstOf(targets, before)
  BY DEF BootInv, TargetsFirst, Past
<1>3. /\ sig \in answered <=> ctx.rc = "ok" /\ ctx.value = Expected[sig]
      /\ sig \notin transfers
  BY DEF BootInv, ProbeContext, ProbeAnswered
<1>4. /\ sig' = sig + 1 /\ answered' = answered
      /\ UNCHANGED <<timer, wdt, ctx, transfers, magic, counter>>
      /\ done' = 0 /\ stage' = "scan" /\ stage = "probe"
  BY DEF ProbeAnswered, retained
<1>5. answered \subseteq 1..sig
  BY <1>4 DEF BootInv, AnswersPast
<1>6. (answered \cap Past)' = IF sig \in answered THEN before \cup {sig} ELSE before
  BY <1>1, <1>4, <1>5 DEF Past
<1>7. /\ IsFirstOf(targets', (answered \cap Past)')
      /\ targets' \in Seq(Sigs) /\ Len(targets') <= MaxTargets
  <2>1. CASE sig \notin answered
    BY <1>2, <1>3, <1>6, <2>1 DEF ProbeAnswered, BootInv, TypeOK
  <2>2. CASE sig \in answered /\ HasRoom
    <3> HIDE DEF before
    <3>1. targets' = Append(targets, sig)
      BY <1>3, <2>2 DEF ProbeAnswered
    <3>2. ~(Len(targets) >= MaxTargets)
      BY <1>1, <2>2, BootConstants, LenProperties DEF HasRoom
    <3>3. IsFirstOf(Append(targets, sig), before \cup {sig})
      BY <1>1, <1>2, <3>2, FirstOfAppend
    <3>4. Append(targets, sig) \in Seq(Sigs) /\ Len(Append(targets, sig)) = Len(targets) + 1
      BY <1>1, AppendProperties DEF BootInv, TypeOK
    <3>5. Len(targets) + 1 <= MaxTargets
      BY <1>1, <2>2, BootConstants, LenProperties DEF HasRoom
    <3>6. (answered \cap Past)' = before \cup {sig}
      BY <1>6, <2>2
    <3> QED BY <3>1, <3>3, <3>4, <3>5, <3>6
  <2>3. CASE sig \in answered /\ ~HasRoom
    <3>1. targets' = targets /\ Len(targets) >= MaxTargets
      BY <1>1, <2>3, BootConstants, LenProperties DEF ProbeAnswered, HasRoom
    <3> QED BY <1>1, <1>2, <1>6, <2>3, <3>1, FirstOfFull DEF BootInv, TypeOK
  <2> QED BY <2>1, <2>2, <2>3
<1>8. TypeOK'
  BY <1>1, <1>4, <1>7, BootConstants DEF TypeOK, BootInv
<1>9. AnswersPast'
  BY <1>1, <1>4, <1>5 DEF AnswersPast, Past
<1>10. transfers' = {}
  BY <1>3, <1>4 DEF BootInv, OwnTransfer
<1> QED BY <1>4, <1>7, <1>8, <1>9, <1>10 DEF BootInv, NothingYet, OwnTransfer,
                                          ProbeContext, TargetsFirst

LEMMA ProbeExpiresStep == BootInv /\ ProbeExpires => BootInv'
<1> SUFFICES ASSUME BootInv, ProbeExpires PROVE BootInv'
  OBVIOUS
<1>1. TypeOK'
  BY DEF ProbeExpires, probe, retained, TypeOK, BootInv
<1>2. sig \in Sigs /\ answered \subseteq 1..sig /\ sig \notin answered
  BY DEF ProbeExpires, BootInv, ProbeContext, AnswersPast
<1>3. answered \subseteq Past
  BY <1>2, BootConstants DEF Past, Sigs
<1> QED BY <1>1, <1>2, <1>3 DEF ProbeExpires, probe, BootInv, NothingYet, OwnTransfer,
                              AnswersPast, ProbeContext, TargetsFirst, Past

LEMMA ProbeAbortedStep == BootInv /\ ProbeAborted => BootInv'
BY NextSignature DEF ProbeAborted, Aborted, retained, BootInv

LEMMA BootInvStep == BootInv /\ [Next]_vars => BootInv'
<1> SUFFICES ASSUME BootInv, [Next]_vars PROVE BootInv'
  OBVIOUS
<1>1. /\ timer \in Nat /\ wdt \in {Off} \cup 0..WdtTimeout
      /\ magic \in BOOLEAN /\ counter \in 0..(CounterMod - 1)
  BY DEF BootInv, TypeOK
<1>2. CASE MainStep
  <2>1. CASE ScanEnds
    BY <1>1, <2>1, ScanUntouched DEF ScanEnds, probe, retained
  <2> QED BY <1>2, <2>1, BootStep, SettledStep, SkipBusStep, ProbeStartStep,
             ProbeAnsweredStep, ProbeExpiresStep, ProbeAbortedStep DEF MainStep
<1>3. CASE \E t \in transfers : TransferEnds(t)
  BY <1>3, TransferEndsStep
<1>4. CASE LoopTick
  <2>1. wdt' \in {Off} \cup 0..WdtTimeout
    BY <1>1, <1>4, BootConstants DEF LoopTick
  <2> QED BY <1>1, <1>4, <2>1, ScanUntouched DEF LoopTick, probe, retained
<1>5. CASE WdtFires
  BY <1>1, <1>5, ResetBootInv DEF WdtFires, retained
<1>6. CASE PowerLoss
  <2>1. magic' \in BOOLEAN /\ counter' \in 0..(CounterMod - 1)
    <3>1. 0 \in 0..(CounterMod - 1)
      BY BootConstants
    <3> QED BY <1>6, <3>1, Zenon DEF PowerLoss
  <2> QED BY <1>6, <2>1, ResetBootInv DEF PowerLoss
<1>7. CASE Pass
  <2>1. timer' \in Nat /\ wdt' \in {Off} \cup 0..WdtTimeout
    BY <1>1, <1>7, BootConstants DEF Pass
  <2> QED BY <1>1, <1>7, <2>1, ScanUntouched DEF Pass, probe, retained
<1>8. CASE UNCHANGED vars
  BY <1>1, <1>8, ScanUntouched DEF vars
<1> QED BY <1>2, <1>3, <1>4, <1>5, <1>6, <1>7, <1>8 DEF Next

-----------------------------------------------------------------------------
(* The theorems.                                                           *)

LEMMA BootInvHolds == Spec => []BootInv
BY InitBootInv, BootInvStep, PTL DEF Spec

\* Every variable keeps its type; main's table of targets does not overflow
\* (os2_i2c_signature_scan), the boot counter fits its register.
THEOREM TypeCorrect == Spec => []TypeOK
<1>1. BootInv => TypeOK
  BY DEF BootInv
<1> QED BY <1>1, BootInvHolds, PTL

\* The one thread object and stack are never used for two probes at once
\* (os2_i2c_probe_timeout aborts the thread it gave up).
THEOREM ProbesAreSerial == Spec => []OneProbeAtATime
<1>1. BootInv => OneProbeAtATime
  <2> SUFFICES ASSUME BootInv PROVE Cardinality(transfers) <= 1
    BY DEF OneProbeAtATime
  <2>1. transfers = {} \/ transfers = {sig}
    BY DEF BootInv, OwnTransfer
  <2>2. Cardinality({}) = 0 /\ Cardinality({sig}) = 1
    BY FS_EmptySet, FS_Singleton
  <2> QED BY <2>1, <2>2
<1> QED BY <1>1, BootInvHolds, PTL

\* The scan finds the devices that answered in time and no others, whatever
\* transfers end late or never (os2_i2c_signature_scan).
THEOREM ScanIsExact == Spec => []ScanFindsAnswers
<1>1. BootInv => ScanFindsAnswers
  <2> SUFFICES ASSUME BootInv, stage = "loop" PROVE IsFirstOf(targets, answered)
    BY DEF ScanFindsAnswers
  <2>1. answered \cap Past = answered
    BY DEF BootInv, AnswersPast
  <2> QED BY <2>1 DEF BootInv, TargetsFirst
<1> QED BY <1>1, BootInvHolds, PTL

\* Boots without loss of power between them have different numbers, none of
\* them 0 (os2_boot_counter_next).
THEOREM BootsAreNumberedApart == Spec => BootsTellApart
<1>1. BootInv /\ [Next]_vars =>
        [stage = "reset" /\ stage' # "reset" =>
           counter' # 0 /\ (magic => counter' # counter)]_vars
  <2> SUFFICES ASSUME BootInv, Next, stage = "reset", stage' # "reset"
               PROVE  counter' # 0 /\ (magic => counter' # counter)
    OBVIOUS
  <2>1. Boot
    <3>1. transfers = {}
      BY DEF BootInv, OwnTransfer
    <3> QED BY <3>1 DEF Next, MainStep, Settled, SkipBus, ProbeStart, ProbeAnswered,
                  ProbeExpires, ProbeAborted, ScanEnds, LoopTick, WdtFires, PowerLoss,
                  Reset, Pass
  <2> QED BY <2>1, NextCountDiffers, BootConstants DEF Boot, BootInv, TypeOK
<1> QED BY <1>1, BootInvHolds, PTL DEF Spec, BootsTellApart
=============================================================================
