---------------------------- MODULE MCBusArbiter -----------------------------
(* BusArbiter with the delays of the code. *)
EXTENDS BusArbiter

(* mn_sniffer_capture for 100 ms, mn_raw_tx_ex for 50 ms, mn_rx_raw_sample *)
(* for 50 ms, mn_reconfig_uart_ex.                                         *)
Sniffer == [clear |-> 0, settle |-> 5, use |-> 2]
RawTx == [clear |-> 1, settle |-> 3, use |-> 1]
RawSample == [clear |-> 0, settle |-> 3, use |-> 1]
Reconfig == [clear |-> 0, settle |-> 4, use |-> 1]
AllSessions == {Sniffer, RawTx, RawSample, Reconfig}
JustSniffer == {Sniffer}
==============================================================================
