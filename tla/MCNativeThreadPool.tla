-------------------------- MODULE MCNativeThreadPool --------------------------
(* Instances of NativeThreadPool for TLC. *)
EXTENDS NativeThreadPool

\* The CleanRequest of a slave is a pair, so that permuting slaves permutes it.
MCCleanOf == [t \in Slave |-> <<"clean", t>>]
MCCleanReq == {MCCleanOf[t] : t \in Slave}

\* StopRequest keeps DEFAULT_REQUEST_PRIO, CleanRequest sets 0; the application's
\* requests are one at the default and the others less urgent.
CONSTANT DefaultPrioReq
MCPriority == [r \in UserReq \cup StopReq \cup MCCleanReq |->
                 IF r \in MCCleanReq THEN 0
                 ELSE IF r \in StopReq \cup DefaultPrioReq THEN 128 ELSE 200]

MCSymmetry == Permutations(FirstSlaves) \cup Permutations(Slave \ FirstSlaves)
              \cup Permutations(StopReq)
=============================================================================
