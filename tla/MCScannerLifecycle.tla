------------------------- MODULE MCScannerLifecycle -------------------------
(* An instance of ScannerLifecycle for TLC. *)
EXTENDS ScannerLifecycle

\* The revisions of the SDK's families 1 and 4.
Network == {revision \in 0 .. 255 : revision \div 16 \in {1, 4}}

\* Each number is told apart from the others by its name, but for those that
\* are looked into; the texts by their bytes.
Heard(soc, runtime, firmware, hardware, name, model) ==
  [serial |-> "serial", address |-> "address", time |-> "time", flags |-> "flags",
   voltage1 |-> "voltage1", voltage2 |-> "voltage2", current |-> "current",
   power |-> "power", coulomb_meter |-> "coulomb_meter", power_meter |-> "power_meter",
   temperature |-> "temperature", isExternalTemperature |-> "isExternalTemperature",
   power_status |-> "power_status", rssi |-> "rssi",
   soc |-> soc, runtime |-> runtime, firmware_version_bcd |-> firmware,
   hardware_revision_bcd |-> hardware, name |-> name, model |-> model,
   power_status_display |-> <<"O", "blank", "n">>,
   ip_address |-> <<"1", ".", "2">>, mac_address |-> <<"A", ":", "B">>]

\* The ends of every range, each hardware family, versions that are not decimal
\* in each of their digits; names and models that are empty, blank, within
\* blanks, cut off by a NUL, just fit or do not, with a character of two bytes
\* whole, cut by the limit or broken.
Edges ==
  {Heard(0, 0, 39321, 16 + 9, <<"a", "b", "c", "d">>, <<>>),
   Heard(100, 65520, 41113, 2 * 16, <<"a", "b", "c", "d", "e">>, <<"blank", "nul", "b">>),
   Heard(101, 65521, 41113 - 2 * 16^3 + 16^2, 3 * 16 + 10, <<"a", "b", "c", "lead", "tail">>,
         <<"b", "nul", "c">>),
   Heard(253, 65533, 160, 4 * 16, <<"nul", "a">>, <<"blank", "lead", "tail", "blank", "b">>),
   Heard(254, 65534, 10, 5 * 16 + 9, <<"blank", "blank", "blank", "blank", "a">>,
         <<"lead", "lead", "tail", "tail">>),
   Heard(255, 65535, 65535, 10 * 16, <<"blank", "a", "blank", "b", "blank">>,
         <<"tail", "b", "blank", "blank">>)}
=============================================================================
