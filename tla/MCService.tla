------------------------------ MODULE MCService ------------------------------
(* One Mac, with the vendor's driver and queue as the vendor leaves them.  *)
EXTENDS Service

WithVendor == [queue |-> TRUE, ppd |-> TRUE, driver |-> "whole"]
WithoutVendor == [queue |-> FALSE, ppd |-> FALSE, driver |-> "none"]

VendorOrNot == {WithVendor, WithoutVendor}
VendorOnly == {WithVendor}
=============================================================================
