------------------------------ MODULE MCSealing ------------------------------
(***************************************************************************)
(* Values for Sealing: nodes on one channel, with a nickname that is cut.   *)
(***************************************************************************)
EXTENDS Sealing

MCChannel == [n \in Nodes |-> "trail"]
\* Seven characters of three bytes: one byte more than a nickname may have.
MCNickname == [n \in Nodes |-> Name("name", 3, 7)]
MCLengths == {MAX_BODY, MAX_BODY + 1}
=============================================================================
