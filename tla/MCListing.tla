------------------------------ MODULE MCListing ------------------------------
(* Values of the constants of Listing for TLC.                             *)
EXTENDS Listing
MCDocs == 1 .. 4
=============================================================================
