-------------------------- MODULE MCSellerRequests --------------------------
(* Small instances of SellerRequests for TLC.                              *)
EXTENDS SellerRequests
=============================================================================
