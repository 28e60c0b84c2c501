-------------------------- MODULE MCParserRegistry --------------------------
(* A PAT with two programs and a network; the PMT of the second program is  *)
(* on the PID that is the key of the SDT (0x11 << 8 | 0x42). Video 512 is   *)
(* in both PMTs, becomes data in the second version of the first, and is    *)
(* filed under two names; 514 is private data, 515 a data carousel.  Audio  *)
(* on PID 9 is in the second version of the first PMT only.                 *)
EXTENDS ParserRegistry

MCPats == {[version |-> 0, programs |-> <<[number |-> 0, pid |-> 496],
                                         [number |-> 1, pid |-> 256],
                                         [number |-> 2, pid |-> 4418]>>],
           [version |-> 1, programs |-> <<[number |-> 1, pid |-> 256]>>]}

MCPmts == {[pid |-> 256, version |-> 0, streams |->
              <<[pid |-> 512, type |-> 27, tags |-> <<NoTag, 129>>],
                [pid |-> 513, type |-> 15, tags |-> <<16>>]>>],
           [pid |-> 256, version |-> 1, streams |->
              <<[pid |-> 512, type |-> 13, tags |-> <<64>>],
                [pid |-> 513, type |-> 15, tags |-> <<17>>],
                [pid |-> 9, type |-> 3, tags |-> <<>>]>>],
           [pid |-> 4418, version |-> 0, streams |->
              <<[pid |-> 514, type |-> 16, tags |-> <<48>>],
                [pid |-> 512, type |-> 2, tags |-> <<>>],
                [pid |-> 515, type |-> 11, tags |-> <<>>]>>]}

MCTables == {[pid |-> 17, table_id |-> 66]}
=============================================================================
