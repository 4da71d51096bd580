----------------------------- MODULE MCUsbDevice -----------------------------
(* Two printers of the same model: the server's URI names the model only,  *)
(* as the default URI does, and send may name one of them by its serial    *)
(* number.                                                                 *)
EXTENDS UsbDevice

Id(serial) == [model |-> "M2022", serial |-> serial]
TwoAlike == [d \in {"p", "q"} |-> Id(IF d = "p" THEN "A" ELSE "B")]
DefaultUri == Id(Any)
BySerial == {Id("B")}
Conditions == {{"selected", "no-error"}, {"paper-empty", "selected"}}
=============================================================================
