---------------------------- MODULE MCPolicyCache ----------------------------
(***************************************************************************)
(* Instances of PolicyCache: the services and trust lists the runs serve.  *)
(***************************************************************************)
EXTENDS PolicyCache

CaService == [type |-> "CA/QC", granted |-> TRUE, decodes |-> TRUE, is_ca |-> TRUE,
              key_cert_sign |-> TRUE]
TsaService == [type |-> "MR-TSA/QTST", granted |-> TRUE, decodes |-> TRUE, is_ca |-> FALSE,
               key_cert_sign |-> FALSE]

CaTsaList == [services |-> {CaService, TsaService}, sig |-> "good"]
UnsupportedList == [services |-> {CaService, TsaService}, sig |-> "unsupported"]
ForgedList == [services |-> {CaService, TsaService}, sig |-> "bad"]
WithdrawnList == [services |-> {[CaService EXCEPT !.granted = FALSE]}, sig |-> "good"]
TsaOnlyList == [services |-> {TsaService}, sig |-> "good"]

ServedLists == {CaTsaList, UnsupportedList, ForgedList, WithdrawnList, TsaOnlyList}

\* Two disturbances in all; a list with time-stamping services only comes last and alone.
Disturbances ==
  /\ faults + crashes <= 2
  /\ \A w \in Writers :
       TsaOnlyList \in Range(writer[w].lists) => syncs = MaxSyncs /\ faults + crashes = 0
=============================================================================
