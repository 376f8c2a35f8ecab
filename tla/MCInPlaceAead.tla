---------------------------- MODULE MCInPlaceAead ----------------------------
(***************************************************************************)
(* Every job of up to three blocks of AAD and four units of message.       *)
(***************************************************************************)
EXTENDS InPlaceAead

MCJobs == [seal: BOOLEAN, aad: 0..3, units: 0..4]
=============================================================================
