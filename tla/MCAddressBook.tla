--------------------------- MODULE MCAddressBook ---------------------------
(* Model-checking instance of AddressBook. *)
EXTENDS AddressBook
=============================================================================
