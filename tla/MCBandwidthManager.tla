-------------------------- MODULE MCBandwidthManager --------------------------
(***************************************************************************)
(* Stream policies for the bandwidth manager's runs, after README.md: video*)
(* is reduced and paused, audio keeps its bandwidth.                       *)
(***************************************************************************)
EXTENDS BandwidthManager

Video == [mMin |-> 2, mMax |-> 3, mDrop |-> TRUE]
Audio == [mMin |-> Full, mMax |-> Full, mDrop |-> FALSE]

Policies == {Video, Audio, DefaultConfig}

\* Video is configured once and nothing is set by hand.
Paused == {Video}

\* Every stream keeps its factory settings.
Unconfigured == {}
==============================================================================
