--------------------------- MODULE MCSalesMappings ---------------------------
(* A small instance of SalesMappings for TLC.                              *)
EXTENDS SalesMappings

\* One item is paid before the day on which units are deactivated.
MCPaidOn == [i \in Item |-> IF i = 11 THEN 1 ELSE 2]
MCProductOf == [i \in Item |-> "product"]
MCNames == {{}, Sig \cup {Campaign}}
MCLinks == {{}, {12}}
=============================================================================
