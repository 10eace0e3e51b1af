----------------------------- MODULE MCNetTrace ----------------------------
(* NetTrace with small constants: clients on machines of their own. Alone, *)
(* one with two CPUs, one with two devices, or one with three pieces of    *)
(* data; together, two of one each, of which one may be damaged.           *)
EXTENDS NetTrace

CONSTANTS twoCpus, twoDevs, alone, safe, frail, ha, hb

MCHostOf   == [cl \in Clients |-> IF cl = safe THEN hb ELSE ha]
MCTogether == {{twoCpus}, {twoDevs}, {alone}, {safe, frail}}
MCNCpus    == [cl \in Clients |-> IF cl = twoCpus THEN 2 ELSE 1]
MCNDevs    == [cl \in Clients |-> IF cl = twoDevs THEN 2 ELSE 1]
MCMaxData  == [cl \in Clients |-> IF cl = alone THEN 3 ELSE 1]

(* Two clients on one machine.                                            *)
MCSharedHost == [cl \in Clients |-> ha]
MCBoth       == {Clients}
=============================================================================
