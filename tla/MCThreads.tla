------------------------------- MODULE MCThreads -------------------------------
(***************************************************************************)
(* The ways of wiring EFP into a program that the repository shows.        *)
(***************************************************************************)
EXTENDS Threads

CONSTANTS a1, a2

Wired(mode, send, receive, nack, menu1, menu2) ==
    [mode |-> mode, onSend |-> send, onReceive |-> receive, onNack |-> nack,
     menu |-> [t \in Apps |-> IF t = a1 THEN menu1 ELSE menu2]]

\* README.md, quick start: the sender feeds the receiver in the same process
\* and NACKs come back on a thread of the application's.
InProcess ==
    Wired("THREADED", <<"receive">>, <<>>, <<>>,
          {"send"}, {"receiveNack", "processRetransmits", "stop"})

\* README.md, NACK and retransmission: the NACK callback calls the sender, whose
\* fragments leave through a network.
OverNetwork ==
    Wired("THREADED", <<>>, <<>>, <<"receiveNack", "processRetransmits">>,
          {"receive"}, {"send", "stop"})

\* tests/test_lifecycle.cpp: run to completion, polled from another thread.
Polled ==
    Wired("RUN_TO_COMPLETION", <<"receive">>, <<>>, <<>>,
          {"send", "stop"}, {"poll", "receiveNack", "processRetransmits"})

\* examples/c_api_example.cpp: handles, one of them ended while the other thread
\* is still busy.
Handled ==
    Wired("THREADED", <<"efp_receive_fragment">>, <<>>, <<>>,
          {"efp_send_data", "efp_receive_fragment"},
          {"efp_end_receive", "efp_end_send"})

Safe == {InProcess, OverNetwork, Polled, Handled}

\* README.md's two wirings at once.
Looped ==
    Wired("THREADED", <<"receive">>, <<>>,
          <<"receiveNack", "processRetransmits">>, {"send"}, {"stop"})

Direct == {Looped}
==============================================================================
