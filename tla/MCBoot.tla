------------------------------- MODULE MCBoot -------------------------------
(***************************************************************************)
(* Model-checking instances of MbBoot with the table of signatures of      *)
(* main.c and its times in units of 50 ms.                                 *)
(***************************************************************************)
EXTENDS MbBoot

MCBus      == <<0, 1, 1, 1, 1, 1, 1, 1, 1, 1, 0, 0, 1, 1>>
MCExpected == <<104, 104, 61, 105, 108, 36, 50, 171, 188, 177, 96, 96, 96, 96>>

\* A BMM150 and two BME280, one of which may be something else.
MCReplies == [s \in Sigs |-> CASE s = 7  -> {50}
                               [] s = 13 -> {96}
                               [] s = 14 -> {96, 88}
                               [] OTHER  -> {}]
=============================================================================
