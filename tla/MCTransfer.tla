----------------------------- MODULE MCTransfer -----------------------------
(***************************************************************************)
(* Two candidates for one file of three leaves, two of them the same.  The *)
(* second candidate's DAG is of another version of the file.               *)
(***************************************************************************)
EXTENDS Transfer

MCCids    == {"r", "s", "a", "b"}
MCContent == <<"a", "b", "a">>
MCOffers  == << <<"r", MCContent>>, <<"s", <<"a", "b">>>> >>

AllHeld   == [c \in MCCids |-> "held"]
MCStocks  == {AllHeld, [AllHeld EXCEPT !["b"] = "absent"]}
MCSources == {"p2p", "hf"}

=============================================================================
