------------------------------- MODULE MCXhci -------------------------------
(* Module Xhci with a keyboard on the first port and a disk on the second. *)
EXTENDS Xhci

MCConfigs == <<1, 1>>

Config == [type |-> "config", class |-> "none", endpoints |-> 0]
InterfaceOf(class, endpoints) == [type |-> "interface", class |-> class, endpoints |-> endpoints]
Hid == [type |-> "hid", class |-> "none", endpoints |-> 0]
Endpoint == [type |-> "endpoint", class |-> "none", endpoints |-> 0]

MCDescs == << <<Config, InterfaceOf("HID", 1), Hid, Endpoint>>,
              <<Config, InterfaceOf("storage", 2), Endpoint, Endpoint>> >>
=============================================================================
