--------------------------- MODULE MCInvokerMgr ---------------------------
(* The genesis organisation, in which a contract may be deployed, and one  *)
(* whose docker runs the genesis organisation's contracts beside its own.  *)
EXTENDS InvokerMgr

MCOrg   == {"genesis", "org"}
MCOrgOf == [c \in Contract |-> "genesis"]
=============================================================================
