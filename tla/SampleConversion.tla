-------------------------- MODULE SampleConversion --------------------------
(***************************************************************************)
(* From an advertisement of the SDK to a row of the history: the facade      *)
(* (ffi/thornwave_scan.cc), Sample::from_tw_advertisement (src/sample.rs)    *)
(* and the record batch (src/parquet_writer.rs).                             *)
(*                                                                           *)
(* Numbers the code only passes on are opaque.  A text is a sequence of       *)
(* bytes: "nul", "blank" (white space), the "lead" and the "tail" of a        *)
(* character of two bytes; any other byte is a character that shows.          *)
(***************************************************************************)
EXTENDS Integers, Sequences, FiniteSetsExt

CONSTANTS
  Null,             \* Option::None; a null of Arrow
  NetworkRevisions, \* the revisions of the families POWERMON_E and POWERMON_W
  TextSize          \* of each char array of TwAdvertisement: 64 in the code

ASSUME SizeAssumption == TextSize \in Nat \ {0}

Byte == STRING
Text == Seq(Byte)

\* copy_string into an array of zeros: as much as fits, with a terminating NUL.
copy_string(text) ==
  [k \in 1 .. TextSize |->
     IF k < TextSize /\ k \in DOMAIN text THEN text[k] ELSE "nul"]

\* Which revisions these are only the headers of the SDK say.
is_network_revision(revision) == revision \in NetworkRevisions

\* convert_advertisement: a network meter is shown by its IP address, any other
\* by its MAC address.
convert_advertisement(input) ==
  [serial |-> input.serial, address_raw |-> input.address,
   device_time_raw |-> input.time, flags_raw |-> input.flags,
   voltage1_volts |-> input.voltage1, voltage2_volts |-> input.voltage2,
   current_amps |-> input.current, power_watts |-> input.power,
   coulomb_meter_raw |-> input.coulomb_meter, power_meter_raw |-> input.power_meter,
   temperature_celsius |-> input.temperature,
   temperature_is_external |-> input.isExternalTemperature,
   firmware_version_bcd |-> input.firmware_version_bcd,
   hardware_revision_bcd |-> input.hardware_revision_bcd,
   power_status_code |-> input.power_status, soc_raw |-> input.soc,
   runtime_raw |-> input.runtime, rssi_dbm |-> input.rssi,
   name |-> copy_string(input.name), model |-> copy_string(input.model),
   power_status_display |-> copy_string(input.power_status_display),
   address_display |-> IF is_network_revision(input.hardware_revision_bcd)
                       THEN copy_string(input.ip_address)
                       ELSE copy_string(input.mac_address)]

-----------------------------------------------------------------------------
\* src/sample.rs.

SocMax == 100
RuntimeMax == 65520   \* FG_RUNTIME_MAX; the sentinels are 65534 and 65535

\* Mutant of normalize_soc: only the two sentinels are rejected.
normalize_soc_sentinels(value) == IF value < 254 THEN value ELSE Null

normalize_soc(value) == IF value <= SocMax THEN value ELSE Null

normalize_runtime(value) == IF value <= RuntimeMax THEN value ELSE Null

\* The four-bit digits of a number, most significant first.
Digits8(value) == <<value \div 16, value % 16>>
Digits16(value) ==
  <<value \div 4096, (value \div 256) % 16, (value \div 16) % 16, value % 16>>

\* format_bcd_u8 and format_bcd_u16: the digits, if all of them are decimal.
format_bcd(digits) ==
  IF \A k \in DOMAIN digits : digits[k] <= 9 THEN digits ELSE Null

\* Mutant of address_kind: one of the facade's network families is missing.
address_kind_one_family(revision) ==
  CASE revision \div 16 = 1 -> "ipv4"
    [] revision \div 16 \in {2, 3, 4} -> "ble_mac"
    [] OTHER -> "unknown"

address_kind(revision) ==
  CASE revision \div 16 \in {1, 4} -> "ipv4"
    [] revision \div 16 \in {2, 3} -> "ble_mac"
    [] OTHER -> "unknown"

\* CStr::from_ptr: the bytes before the first NUL.
CStr(buffer) == SubSeq(buffer, 1, Min({k \in DOMAIN buffer : buffer[k] = "nul"}) - 1)

\* A byte that is no part of a character.
Broken(bytes, k) ==
  \/ bytes[k] = "lead" /\ ~(k + 1 \in DOMAIN bytes /\ bytes[k + 1] = "tail")
  \/ bytes[k] = "tail" /\ ~(k - 1 \in DOMAIN bytes /\ bytes[k - 1] = "lead")

to_string_lossy(bytes) ==
  [k \in DOMAIN bytes |-> IF Broken(bytes, k) THEN "replacement" ELSE bytes[k]]

trim(bytes) ==
  LET shown == {k \in DOMAIN bytes : bytes[k] # "blank"}
  IN IF shown = {} THEN <<>> ELSE SubSeq(bytes, Min(shown), Max(shown))

c_char_array_to_string(buffer) ==
  LET value == trim(to_string_lossy(CStr(buffer)))
  IN IF buffer[1] = "nul" \/ value = <<>> THEN Null ELSE value

from_tw_advertisement(tw, observed_at) ==
  [schema_version |-> 1, observed_at |-> observed_at,
   serial |-> tw.serial, address_raw |-> tw.address_raw,
   address_display |-> c_char_array_to_string(tw.address_display),
   address_kind |-> address_kind(tw.hardware_revision_bcd),
   name |-> c_char_array_to_string(tw.name), model |-> c_char_array_to_string(tw.model),
   firmware_version_bcd |-> tw.firmware_version_bcd,
   firmware_version |-> format_bcd(Digits16(tw.firmware_version_bcd)),
   hardware_revision_bcd |-> tw.hardware_revision_bcd,
   hardware_revision |-> format_bcd(Digits8(tw.hardware_revision_bcd)),
   device_time_raw |-> tw.device_time_raw, flags_raw |-> tw.flags_raw,
   voltage1_volts |-> tw.voltage1_volts, voltage2_volts |-> tw.voltage2_volts,
   current_amps |-> tw.current_amps, power_watts |-> tw.power_watts,
   coulomb_meter_raw |-> tw.coulomb_meter_raw, power_meter_raw |-> tw.power_meter_raw,
   temperature_celsius |-> tw.temperature_celsius,
   temperature_is_external |-> tw.temperature_is_external,
   power_status_code |-> tw.power_status_code,
   power_status |-> c_char_array_to_string(tw.power_status_display),
   soc_raw |-> tw.soc_raw, soc_percent |-> normalize_soc(tw.soc_raw),
   runtime_raw |-> tw.runtime_raw, runtime_minutes |-> normalize_runtime(tw.runtime_raw),
   rssi_dbm |-> tw.rssi_dbm]

-----------------------------------------------------------------------------
\* src/parquet_writer.rs: the columns, in order, and the arrays made for them.

Column(name, type) == [name |-> name, type |-> type, nullable |-> FALSE]
NullableColumn(name, type) == [name |-> name, type |-> type, nullable |-> TRUE]

arrow_schema ==
  <<Column("schema_version", "Int32"), Column("observed_at_unix_ms", "Int64"),
    Column("observed_at_utc", "Timestamp"), Column("serial", "UInt64"),
    Column("address_raw", "UInt64"), NullableColumn("address_display", "Utf8"),
    NullableColumn("address_kind", "Utf8"), NullableColumn("name", "Utf8"),
    NullableColumn("model", "Utf8"), Column("firmware_version_bcd", "UInt16"),
    NullableColumn("firmware_version", "Utf8"), Column("hardware_revision_bcd", "UInt8"),
    NullableColumn("hardware_revision", "Utf8"), Column("device_time_raw", "UInt32"),
    Column("flags_raw", "UInt32"), Column("voltage1_volts", "Float32"),
    Column("voltage2_volts", "Float32"), Column("current_amps", "Float32"),
    Column("power_watts", "Float32"), Column("coulomb_meter_raw", "Float32"),
    Column("power_meter_raw", "Float32"), Column("temperature_celsius", "Float32"),
    Column("temperature_is_external", "Boolean"), Column("power_status_code", "UInt8"),
    NullableColumn("power_status", "Utf8"), Column("soc_raw", "UInt8"),
    NullableColumn("soc_percent", "UInt8"), Column("runtime_raw", "UInt16"),
    NullableColumn("runtime_minutes", "UInt16"), Column("rssi_dbm", "Int16")>>

Array(type, field) == [type |-> type, field |-> field]

arrays ==
  <<Array("Int32", "schema_version"), Array("Int64", "observed_at"),
    Array("Timestamp", "observed_at"), Array("UInt64", "serial"),
    Array("UInt64", "address_raw"), Array("Utf8", "address_display"),
    Array("Utf8", "address_kind"), Array("Utf8", "name"), Array("Utf8", "model"),
    Array("UInt16", "firmware_version_bcd"), Array("Utf8", "firmware_version"),
    Array("UInt8", "hardware_revision_bcd"), Array("Utf8", "hardware_revision"),
    Array("UInt32", "device_time_raw"), Array("UInt32", "flags_raw"),
    Array("Float32", "voltage1_volts"), Array("Float32", "voltage2_volts"),
    Array("Float32", "current_amps"), Array("Float32", "power_watts"),
    Array("Float32", "coulomb_meter_raw"), Array("Float32", "power_meter_raw"),
    Array("Float32", "temperature_celsius"), Array("Boolean", "temperature_is_external"),
    Array("UInt8", "power_status_code"), Array("Utf8", "power_status"),
    Array("UInt8", "soc_raw"), Array("UInt8", "soc_percent"),
    Array("UInt16", "runtime_raw"), Array("UInt16", "runtime_minutes"),
    Array("Int16", "rssi_dbm")>>

\* samples_to_record_batch for one sample: a value for each column.
row(sample) == [k \in DOMAIN arrays |-> sample[arrays[k].field]]

\* What RecordBatch::try_new demands of it.
Accepted(values) ==
  /\ Len(values) = Len(arrow_schema)
  /\ \A k \in DOMAIN arrow_schema :
       /\ arrays[k].type = arrow_schema[k].type
       /\ values[k] = Null => arrow_schema[k].nullable
=============================================================================
