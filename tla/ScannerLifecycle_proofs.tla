----------------------- MODULE ScannerLifecycle_proofs -----------------------
(***************************************************************************)
(* Proofs about ScannerLifecycle: for any advertisements, whichever calls of *)
(* the SDK fail, however its thread and the scanner's interleave.            *)
(***************************************************************************)
EXTENDS ScannerLifecycle, WellFoundedInduction, SequenceTheorems, TLAPS

\* Where the handle exists, and where the SDK may scan.
Living == {"storing", "registering", "starting", "checking", "running", "stopping",
           "clearing", "disabling", "halting", "deleting", "freeing"}

Scanning == {"checking", "running", "stopping", "clearing", "disabling", "halting",
             "deleting"}

\* The control state of the two threads.
Control ==
  /\ sdk_waits \in BOOLEAN /\ scanning \in BOOLEAN
  /\ ble_running \in BOOLEAN /\ scanner_running \in BOOLEAN
  /\ pc \in Pc
  /\ callback_pc \in {"idle", "locking", "calling"}

\* The handle and the callback state exist while the scanner's thread says so.
Ownership ==
  /\ (handle = "allocated") = (pc \in Living)
  /\ handle = "allocated" => callback_state = "allocated"

\* The mutex is the SDK's exactly while it calls back.
Exclusion == callback_pc = "calling" => holder = "sdk"

\* The SDK scans only a scanner that exists, and has no callback under way
\* before there is one, nor, if its destructor waits, after.
Quiet ==
  /\ scanning => pc \in Scanning
  /\ pc = "creating" => callback_pc = "idle"
  /\ sdk_waits /\ pc \notin Living \ {"freeing"} => callback_pc = "idle"

\* The gauges follow the thread.
Reported ==
  /\ ble_running => pc \in {"checking", "running", "stopping", "clearing"}
  /\ scanner_running => pc \in {"running", "stopping", "clearing"}
  /\ pc = "running" => ble_running /\ scanner_running

\* The inductive invariant.
IInv == Control /\ Ownership /\ Exclusion /\ Quiet /\ NoCallbackOnceDisabled /\ Reported

\* Every new scanner thread starts so.
LEMMA InitIInv == LifecycleInit => IInv
<1> SUFFICES ASSUME LifecycleInit PROVE IInv
  OBVIOUS
<1>1. Control /\ Quiet
  BY DEF LifecycleInit, Control, Quiet, Living, Scanning, Pc
<1>2. Ownership /\ Exclusion /\ NoCallbackOnceDisabled /\ Reported
  BY DEF LifecycleInit, Ownership, Exclusion, NoCallbackOnceDisabled, Reported, Living
<1> QED
  BY <1>1, <1>2 DEF IInv

\* The scanner's thread keeps it, action by action.
LEMMA ScannerThreadKeepsIInv == IInv /\ ScannerThread => IInv'
<1> SUFFICES ASSUME IInv, ScannerThread PROVE IInv'
  OBVIOUS
<1> USE DEF IInv, Control, Ownership, Exclusion, Quiet, Reported,
            NoCallbackOnceDisabled, Living, Scanning, Pc,
            scannerThread, tw_scanner, sdkThread, running
<1>1. CASE tw_scanner_create
  BY <1>1 DEF tw_scanner_create
<1>2. CASE StoreCallback
  BY <1>2 DEF StoreCallback
<1>3. CASE RegisterCallback
  BY <1>3 DEF RegisterCallback
<1>4. CASE start_ble
  BY <1>4 DEF start_ble
<1>5. CASE CheckTransport
  BY <1>5 DEF CheckTransport
<1>6. CASE NoticeShutdown
  BY <1>6 DEF NoticeShutdown
<1>7. CASE StopBleScan
  BY <1>7 DEF StopBleScan
<1>8. CASE ClearGauges
  BY <1>8 DEF ClearGauges
<1>9. CASE Disable
  BY <1>9, ThreadAssumption DEF Disable, Thread
<1>10. CASE EndScan
  BY <1>10 DEF EndScan
<1>11. CASE DeleteScanner
  BY <1>11 DEF DeleteScanner
<1>12. CASE FreeHandle
  BY <1>12 DEF FreeHandle
<1>13. CASE DropCallbackState
  BY <1>13 DEF DropCallbackState
<1>14. CASE ReportError
  <2>1. pc = "reporting" /\ pc' = "ended" /\ ~scanning'
    BY <1>14 DEF ReportError
  <2>2. Control'
    BY <1>14, <2>1 DEF ReportError
  <2>3. Ownership' /\ Exclusion'
    BY <1>14, <2>1 DEF ReportError
  <2>4. Quiet' /\ NoCallbackOnceDisabled'
    BY <1>14, <2>1 DEF ReportError
  <2>5. Reported'
    BY <1>14, <2>1 DEF ReportError
  <2> QED
    BY <2>2, <2>3, <2>4, <2>5
<1> HIDE DEF IInv
<1> QED
  BY <1>1, <1>2, <1>3, <1>4, <1>5, <1>6, <1>7, <1>8, <1>9, <1>10, <1>11, <1>12,
     <1>13, <1>14 DEF ScannerThread

\* Every step keeps it.
LEMMA NextIInv == IInv /\ [LifecycleNext]_lifecycleVars => IInv'
<1> SUFFICES ASSUME IInv, [LifecycleNext]_lifecycleVars PROVE IInv'
  OBVIOUS
<1>1. CASE ScannerThread
  BY <1>1, ScannerThreadKeepsIInv
<1> USE DEF IInv, Control, Ownership, Exclusion, Quiet, Reported,
            NoCallbackOnceDisabled, Living, Scanning, Pc,
            scannerThread, tw_scanner, sdkThread, running
<1>2. CASE \E advertisement \in Advertisements : Advertise(advertisement)
  BY <1>2 DEF Advertise
<1>3. CASE EnterCallback
  BY <1>3 DEF EnterCallback
<1>4. CASE on_advertisement
  BY <1>4 DEF on_advertisement
<1>5. CASE Cancel
  BY <1>5 DEF Cancel
<1>6. CASE UNCHANGED lifecycleVars
  BY <1>6 DEF lifecycleVars
<1> HIDE DEF IInv
<1> QED
  BY <1>1, <1>2, <1>3, <1>4, <1>5, <1>6 DEF LifecycleNext, Callback

LEMMA Invariance == LifecycleSpec => []IInv
  BY InitIInv, NextIInv, PTL DEF LifecycleSpec

-----------------------------------------------------------------------------
\* What becomes of an advertisement.

\* The text that the facade renders the address as.
Address(input) == IF input.hardware_revision_bcd \in NetworkRevisions
                  THEN input.ip_address ELSE input.mac_address

\* The text of a sample that is made of a text of the SDK.
TextOf(text) == c_char_array_to_string(copy_string(text))

\* The sample has the numbers of the advertisement ...
LEMMA SampleNumbers ==
  ASSUME NEW input
  PROVE  LET sample == SampleOf(input)
         IN /\ sample.serial = input.serial /\ sample.address_raw = input.address
            /\ sample.device_time_raw = input.time /\ sample.flags_raw = input.flags
            /\ sample.voltage1_volts = input.voltage1
            /\ sample.voltage2_volts = input.voltage2
            /\ sample.current_amps = input.current /\ sample.power_watts = input.power
            /\ sample.coulomb_meter_raw = input.coulomb_meter
            /\ sample.power_meter_raw = input.power_meter
            /\ sample.temperature_celsius = input.temperature
            /\ sample.temperature_is_external = input.isExternalTemperature
            /\ sample.firmware_version_bcd = input.firmware_version_bcd
            /\ sample.hardware_revision_bcd = input.hardware_revision_bcd
            /\ sample.power_status_code = input.power_status
            /\ sample.soc_raw = input.soc /\ sample.runtime_raw = input.runtime
            /\ sample.rssi_dbm = input.rssi
BY DEF SampleOf, from_tw_advertisement, convert_advertisement

\* ... and what is derived from them and from its texts.
LEMMA SampleDerived ==
  ASSUME NEW input
  PROVE  LET sample == SampleOf(input)
         IN /\ sample.schema_version = 1 /\ sample.observed_at = 0
            /\ sample.address_kind = address_kind(input.hardware_revision_bcd)
            /\ sample.firmware_version = format_bcd(Digits16(input.firmware_version_bcd))
            /\ sample.hardware_revision = format_bcd(Digits8(input.hardware_revision_bcd))
            /\ sample.soc_percent = normalize_soc(input.soc)
            /\ sample.runtime_minutes = normalize_runtime(input.runtime)
            /\ sample.address_display = TextOf(Address(input))
            /\ sample.power_status = TextOf(input.power_status_display)
            /\ sample.name = TextOf(input.name) /\ sample.model = TextOf(input.model)
<1> DEFINE tw == convert_advertisement(input)
           sample == from_tw_advertisement(tw, 0)
<1>1. /\ tw.hardware_revision_bcd = input.hardware_revision_bcd
      /\ tw.firmware_version_bcd = input.firmware_version_bcd
      /\ tw.soc_raw = input.soc /\ tw.runtime_raw = input.runtime
      /\ tw.address_display = copy_string(Address(input))
      /\ tw.power_status_display = copy_string(input.power_status_display)
      /\ tw.name = copy_string(input.name) /\ tw.model = copy_string(input.model)
  BY DEF convert_advertisement, Address, is_network_revision
<1> HIDE DEF tw
<1>2. /\ sample.schema_version = 1 /\ sample.observed_at = 0
      /\ sample.address_kind = address_kind(tw.hardware_revision_bcd)
      /\ sample.firmware_version = format_bcd(Digits16(tw.firmware_version_bcd))
      /\ sample.hardware_revision = format_bcd(Digits8(tw.hardware_revision_bcd))
      /\ sample.soc_percent = normalize_soc(tw.soc_raw)
      /\ sample.runtime_minutes = normalize_runtime(tw.runtime_raw)
      /\ sample.address_display = c_char_array_to_string(tw.address_display)
      /\ sample.power_status = c_char_array_to_string(tw.power_status_display)
      /\ sample.name = c_char_array_to_string(tw.name)
      /\ sample.model = c_char_array_to_string(tw.model)
  BY DEF from_tw_advertisement
<1> HIDE DEF sample
<1>3. sample = SampleOf(input)
  BY DEF sample, tw, SampleOf
<1> QED
  BY <1>1, <1>2, <1>3 DEF TextOf

\* The state of charge of a sample is a percentage or missing.
LEMMA SocConverted ==
  ASSUME NEW input \in Advertisements
  PROVE  SampleOf(input).soc_percent \in (0 .. 100) \cup {Null}
<1>1. input.soc \in U8
  BY AdvertisementAssumption
<1>2. normalize_soc(input.soc) \in (0 .. 100) \cup {Null}
  BY <1>1 DEF normalize_soc, SocMax, U8
<1> QED
  BY <1>2, SampleDerived

-----------------------------------------------------------------------------
\* The columns of a row.

\* Where each column is.
Position ==
  [schema_version |-> 1, observed_at_unix_ms |-> 2, observed_at_utc |-> 3, serial |-> 4,
   address_raw |-> 5, address_display |-> 6, address_kind |-> 7, name |-> 8, model |-> 9,
   firmware_version_bcd |-> 10, firmware_version |-> 11, hardware_revision_bcd |-> 12,
   hardware_revision |-> 13, device_time_raw |-> 14, flags_raw |-> 15,
   voltage1_volts |-> 16, voltage2_volts |-> 17, current_amps |-> 18,
   power_watts |-> 19, coulomb_meter_raw |-> 20, power_meter_raw |-> 21,
   temperature_celsius |-> 22, temperature_is_external |-> 23,
   power_status_code |-> 24, power_status |-> 25, soc_raw |-> 26, soc_percent |-> 27,
   runtime_raw |-> 28, runtime_minutes |-> 29, rssi_dbm |-> 30]

\* The two columns made of the time of observation.
Times == {2, 3}

\* The schema has a column at each position, and no name twice.
LEMMA Columns ==
  /\ DOMAIN arrow_schema = 1 .. 30 /\ Len(arrow_schema) = 30
  /\ \A k \in 1 .. 30 : Position[arrow_schema[k].name] = k
<1>1. DOMAIN arrow_schema = 1 .. 30 /\ Len(arrow_schema) = 30
  BY DEF arrow_schema
<1>2. \A k \in 1 .. 10 : Position[arrow_schema[k].name] = k
  BY DEF arrow_schema, Position, Column, NullableColumn
<1>3. \A k \in 11 .. 20 : Position[arrow_schema[k].name] = k
  BY DEF arrow_schema, Position, Column, NullableColumn
<1>4. \A k \in 21 .. 30 : Position[arrow_schema[k].name] = k
  BY DEF arrow_schema, Position, Column, NullableColumn
<1> QED
  BY <1>1, <1>2, <1>3, <1>4

\* The array made for a column is of its type, and takes the field of its name.
LEMMA Arrays ==
  /\ DOMAIN arrays = 1 .. 30
  /\ \A k \in 1 .. 30 : arrays[k].type = arrow_schema[k].type
  /\ \A k \in (1 .. 30) \ Times : arrays[k].field = arrow_schema[k].name
  /\ \A k \in Times : arrays[k].field = "observed_at"
<1>1. DOMAIN arrays = 1 .. 30
  BY DEF arrays
<1>2. \A k \in 1 .. 30 : arrays[k].type = arrow_schema[k].type
  BY DEF arrays, arrow_schema, Array, Column, NullableColumn
<1>3. \A k \in (1 .. 30) \ Times : arrays[k].field = arrow_schema[k].name
  BY DEF arrays, arrow_schema, Array, Column, NullableColumn, Times
<1>4. \A k \in Times : arrays[k].field = "observed_at"
  BY DEF arrays, Array, Times
<1> QED
  BY <1>1, <1>2, <1>3, <1>4

\* So the column of a name holds the field of that name.
LEMMA ColumnIsField ==
  ASSUME NEW sample, NEW k \in (1 .. 30) \ Times
  PROVE  ColumnOf(sample, arrow_schema[k].name) = sample[arrow_schema[k].name]
<1> DEFINE name == arrow_schema[k].name
           at == CHOOSE j \in DOMAIN arrow_schema : arrow_schema[j].name = name
<1>1. at \in DOMAIN arrow_schema /\ arrow_schema[at].name = name
  BY Columns
<1>2. at = k
  BY <1>1, Columns
<1>3. row(sample)[k] = sample[name]
  BY Arrays DEF row
<1> QED
  BY <1>2, <1>3 DEF ColumnOf

\* The column of each other name.
LEMMA NamedColumn ==
  ASSUME NEW sample, NEW name \in DOMAIN Position \ {"observed_at_unix_ms", "observed_at_utc"}
  PROVE  ColumnOf(sample, name) = sample[name]
<1>1. Position[name] \in (1 .. 30) \ Times
  BY DEF Position, Times
<1>2. arrow_schema[Position[name]].name = name
  BY DEF Position, arrow_schema, Column, NullableColumn
<1> QED
  BY <1>1, <1>2, ColumnIsField

\* Both columns of the time show the same.
LEMMA TimeColumns ==
  ASSUME NEW sample
  PROVE  ColumnOf(sample, "observed_at_utc") = ColumnOf(sample, "observed_at_unix_ms")
<1> DEFINE at(name) == CHOOSE j \in DOMAIN arrow_schema : arrow_schema[j].name = name
<1>1. arrow_schema[2].name = "observed_at_unix_ms" /\ arrow_schema[3].name = "observed_at_utc"
  BY DEF arrow_schema, Column, NullableColumn
<1>2. at("observed_at_unix_ms") = 2 /\ at("observed_at_utc") = 3
  BY <1>1, Columns
<1>3. row(sample)[2] = sample["observed_at"] /\ row(sample)[3] = sample["observed_at"]
  BY Arrays DEF row, Times
<1> QED
  BY <1>2, <1>3 DEF ColumnOf

\* The fields of a sample that cannot be missing.
Required == {"schema_version", "observed_at", "serial", "address_raw",
             "firmware_version_bcd", "hardware_revision_bcd", "device_time_raw",
             "flags_raw", "voltage1_volts", "voltage2_volts", "current_amps",
             "power_watts", "coulomb_meter_raw", "power_meter_raw",
             "temperature_celsius", "temperature_is_external", "power_status_code",
             "soc_raw", "runtime_raw", "rssi_dbm"}

LEMMA RequiredColumns ==
  ASSUME NEW k \in 1 .. 30, ~arrow_schema[k].nullable
  PROVE  arrays[k].field \in Required
BY DEF arrow_schema, arrays, Column, NullableColumn, Array, Required

LEMMA RequiredFields ==
  ASSUME NEW input \in Advertisements, NEW field \in Required
  PROVE  SampleOf(input)[field] # Null
<1>1. CASE field \in {"schema_version", "observed_at"}
  BY <1>1, SampleDerived, NullAssumption
<1>2. CASE field \notin {"schema_version", "observed_at"}
  <2>1. \A name \in NumberFields : input[name] # Null
    BY NullAssumption
  <2>2. /\ input.serial # Null /\ input.address # Null /\ input.time # Null
        /\ input.flags # Null /\ input.voltage1 # Null /\ input.voltage2 # Null
        /\ input.current # Null /\ input.power # Null /\ input.coulomb_meter # Null
        /\ input.power_meter # Null /\ input.temperature # Null
        /\ input.isExternalTemperature # Null /\ input.firmware_version_bcd # Null
        /\ input.hardware_revision_bcd # Null /\ input.power_status # Null
        /\ input.soc # Null /\ input.runtime # Null /\ input.rssi # Null
    BY <2>1 DEF NumberFields
  <2> QED
    BY <1>2, <2>2, SampleNumbers DEF Required
<1> QED
  BY <1>1, <1>2

\* The row of an advertisement is accepted by the schema.
LEMMA RowAccepted ==
  ASSUME NEW input \in Advertisements
  PROVE  Accepted(row(SampleOf(input)))
<1> DEFINE sample == SampleOf(input)
           values == row(sample)
<1>1. values = [k \in 1 .. 30 |-> sample[arrays[k].field]]
  BY Arrays DEF row
<1>2. ASSUME NEW k \in 1 .. 30, ~arrow_schema[k].nullable
      PROVE  values[k] # Null
  BY <1>1, <1>2, RequiredColumns, RequiredFields
<1>3. Len(values) = 30
  <2> HIDE DEF sample
  <2> QED
    BY <1>1
<1> HIDE DEF values
<1>4. \A k \in 1 .. 30 :
        /\ arrays[k].type = arrow_schema[k].type
        /\ values[k] = Null => arrow_schema[k].nullable
  BY <1>2, Arrays
<1> QED
  BY <1>3, <1>4, Columns DEF Accepted, values

-----------------------------------------------------------------------------
\* The versions.

\* A revision is shown if and only if it is decimal, and as it was advertised.
LEMMA RevisionDecoded ==
  ASSUME NEW value \in U8
  PROVE  DecodedAs8(format_bcd(Digits8(value)), value)
<1> DEFINE digits == Digits8(value)
<1>1. /\ digits \in [1 .. 2 -> 0 .. 15]
      /\ FromDigits8(digits) = value
  BY DEF Digits8, FromDigits8, U8
<1>2. CASE value \in Decimal8
  <2>1. PICK a \in 0 .. 9, b \in 0 .. 9 : value = 16 * a + b
    BY <1>2 DEF Decimal8
  <2>2. digits[1] = a /\ digits[2] = b
    BY <2>1 DEF Digits8
  <2> HIDE DEF digits
  <2>3. digits \in [1 .. 2 -> 0 .. 9]
    BY <1>1, <2>1, <2>2
  <2>4. format_bcd(digits) = digits
    BY <2>3 DEF format_bcd
  <2> QED
    BY <1>1, <1>2, <2>3, <2>4 DEF DecodedAs8, digits
<1>3. CASE value \notin Decimal8
  <2> HIDE DEF digits
  <2>1. ~(digits[1] <= 9 /\ digits[2] <= 9)
    BY <1>1, <1>3 DEF Decimal8, FromDigits8
  <2>2. format_bcd(digits) = Null
    BY <1>1, <2>1 DEF format_bcd
  <2> QED
    BY <1>3, <2>2 DEF DecodedAs8, digits
<1> QED
  BY <1>2, <1>3

LEMMA VersionDecoded ==
  ASSUME NEW value \in U16
  PROVE  DecodedAs16(format_bcd(Digits16(value)), value)
<1> DEFINE digits == Digits16(value)
<1>1. /\ digits \in [1 .. 4 -> 0 .. 15]
      /\ 4096 * digits[1] + 256 * digits[2] + 16 * digits[3] + digits[4] = value
  BY DEF Digits16, U16
<1>2. FromDigits16(digits) = value
  <2> HIDE DEF digits
  <2> QED
    BY <1>1 DEF FromDigits16, FromDigits8
<1>3. CASE value \in Decimal16
  <2>1. PICK a \in 0 .. 9, b \in 0 .. 9, c \in 0 .. 9, d \in 0 .. 9 :
          value = 4096 * a + 256 * b + 16 * c + d
    BY <1>3 DEF Decimal16, Decimal8
  <2>2. digits[1] = a /\ digits[2] = b /\ digits[3] = c /\ digits[4] = d
    <3> HIDE DEF digits
    <3>1. PICK x \in 0 .. 15, y \in 0 .. 15, z \in 0 .. 15, w \in 0 .. 15 :
            digits[1] = x /\ digits[2] = y /\ digits[3] = z /\ digits[4] = w
      <4>1. /\ digits[1] \in 0 .. 15 /\ digits[2] \in 0 .. 15
            /\ digits[3] \in 0 .. 15 /\ digits[4] \in 0 .. 15
        BY <1>1
      <4> QED
        BY <4>1, Zenon
    <3>2. 4096 * x + 256 * y + 16 * z + w = 4096 * a + 256 * b + 16 * c + d
      BY <1>1, <2>1, <3>1
    <3>3. x = a /\ y = b /\ z = c /\ w = d
      BY <3>2
    <3> QED
      BY <3>1, <3>3
  <2> HIDE DEF digits
  <2>3. digits \in [1 .. 4 -> 0 .. 9]
    BY <1>1, <2>1, <2>2
  <2>4. format_bcd(digits) = digits
    BY <2>3 DEF format_bcd
  <2> QED
    BY <1>2, <1>3, <2>3, <2>4 DEF DecodedAs16, digits
<1>4. CASE value \notin Decimal16
  <2> HIDE DEF digits
  <2>1. ~\A k \in 1 .. 4 : digits[k] <= 9
    <3> SUFFICES ASSUME \A k \in 1 .. 4 : digits[k] <= 9 PROVE FALSE
      OBVIOUS
    <3>1. 16 * digits[1] + digits[2] \in Decimal8 /\ 16 * digits[3] + digits[4] \in Decimal8
      BY <1>1 DEF Decimal8
    <3>2. value = 256 * (16 * digits[1] + digits[2]) + (16 * digits[3] + digits[4])
      BY <1>1
    <3> QED
      BY <1>4, <3>1, <3>2 DEF Decimal16
  <2>2. format_bcd(digits) = Null
    BY <1>1, <2>1 DEF format_bcd
  <2> QED
    BY <1>4, <2>2 DEF DecodedAs16, digits
<1> QED
  BY <1>3, <1>4

-----------------------------------------------------------------------------
\* The texts.

LEMMA MinOf ==
  ASSUME NEW S \in SUBSET Nat, S # {}
  PROVE  Min(S) \in S /\ \A k \in S : Min(S) <= k
<1>1. PICK x \in S : \A y \in S : <<y, x>> \notin OpToRel(<, Nat)
  BY NatLessThanWellFounded, WFMin, Zenon
<1>2. \A y \in S : ~(y < x)
  BY <1>1, Zenon DEF OpToRel
<1>3. \A y \in S : x =< y
  BY <1>2
<1> QED
  BY <1>3 DEF Min

LEMMA MaxOf ==
  ASSUME NEW n \in Nat, NEW S \in SUBSET (1 .. n), S # {}
  PROVE  Max(S) \in S /\ \A k \in S : k <= Max(S)
<1> DEFINE T == {k \in 0 .. n : n - k \in S}
<1>1. T \in SUBSET Nat
  OBVIOUS
<1>2. \A k \in S : n - k \in T
  <2> SUFFICES ASSUME NEW k \in S PROVE n - k \in T
    OBVIOUS
  <2>1. n - k \in 0 .. n /\ n - (n - k) = k
    OBVIOUS
  <2> QED
    BY <2>1
<1>3. Min(T) \in T /\ \A k \in T : Min(T) <= k
  BY <1>1, <1>2, MinOf
<1> DEFINE greatest == n - Min(T)
<1>4. greatest \in S
  BY <1>3
<1>5. \A k \in S : greatest >= k
  <2> SUFFICES ASSUME NEW k \in S PROVE greatest >= k
    OBVIOUS
  <2>1. Min(T) \in 0 .. n /\ Min(T) <= n - k
    BY <1>2, <1>3
  <2> QED
    BY <2>1
<1> HIDE DEF greatest
<1>6. Max(S) \in S /\ \A k \in S : Max(S) >= k
  BY <1>4, <1>5 DEF Max
<1> QED
  BY <1>6

\* What CStr finds of the copy of a text is what can be read of it.
LEMMA CopyRead ==
  ASSUME NEW text \in Text
  PROVE  LET buffer == copy_string(text)
             bytes == CStr(buffer)
         IN \E n \in Nat :
              /\ Readable(text) = 1 .. n
              /\ DOMAIN bytes = 1 .. n
              /\ \A k \in 1 .. n : bytes[k] = text[k]
              /\ n > 0 => buffer[1] # "nul"
<1> DEFINE buffer == copy_string(text)
           nuls == {k \in DOMAIN buffer : buffer[k] = "nul"}
           nul == Min(nuls)
<1>1. DOMAIN buffer = 1 .. TextSize /\ TextSize \in Nat \ {0}
  BY SizeAssumption DEF copy_string
<1>2. DOMAIN text = 1 .. Len(text) /\ Len(text) \in Nat
  BY DEF Text
<1>3. \A k \in 1 .. TextSize :
        buffer[k] = IF k < TextSize /\ k \in DOMAIN text THEN text[k] ELSE "nul"
  BY DEF copy_string
<1> HIDE DEF buffer
<1>4. nuls \in SUBSET Nat /\ TextSize \in nuls
  BY <1>1, <1>3
<1>5. /\ nul \in 1 .. TextSize /\ buffer[nul] = "nul"
      /\ \A k \in 1 .. nul - 1 : buffer[k] # "nul"
  <2>1. nul \in nuls /\ \A k \in nuls : nul <= k
    BY <1>4, MinOf
  <2> HIDE DEF nul
  <2> QED
    BY <1>1, <2>1
<1> HIDE DEF nul, nuls
<1> DEFINE n == nul - 1
<1>6. n \in Nat
  BY <1>5, <1>1
<1>7. \A k \in 1 .. n : k < TextSize /\ k \in DOMAIN text /\ buffer[k] = text[k]
  BY <1>1, <1>3, <1>5
<1>8. 1 .. n \subseteq Readable(text)
  <2> SUFFICES ASSUME NEW k \in 1 .. n PROVE k \in Readable(text)
    OBVIOUS
  <2>1. \A j \in 1 .. k : text[j] # "nul"
    BY <1>5, <1>6, <1>7
  <2> QED
    BY <1>7, <2>1 DEF Readable
<1>9. Readable(text) \subseteq 1 .. n
  <2> SUFFICES ASSUME NEW k \in Readable(text), k \notin 1 .. n PROVE FALSE
    OBVIOUS
  <2>1. k \in 1 .. Len(text) /\ k < TextSize /\ \A j \in 1 .. k : text[j] # "nul"
    BY <1>2 DEF Readable
  <2>2. nul \in 1 .. k
    BY <1>5, <1>1, <2>1, <1>2
  <2>3. nul \in DOMAIN text /\ nul < TextSize
    BY <1>1, <1>2, <2>1, <2>2
  <2> QED
    BY <1>3, <1>5, <2>1, <2>2, <2>3
<1>10. /\ DOMAIN SubSeq(buffer, 1, n) = 1 .. n
       /\ \A k \in 1 .. n : SubSeq(buffer, 1, n)[k] = text[k]
  <2>1. \A k \in 1 .. n : buffer[k] \in {text[j] : j \in 1 .. n}
    BY <1>7
  <2>2. /\ SubSeq(buffer, 1, n) \in Seq({text[j] : j \in 1 .. n})
        /\ Len(SubSeq(buffer, 1, n)) = IF 1 <= n THEN n - 1 + 1 ELSE 0
        /\ \A i \in 1 .. n - 1 + 1 : SubSeq(buffer, 1, n)[i] = buffer[1 + i - 1]
    BY <1>6, <2>1, SubSeqProperties
  <2>3. Len(SubSeq(buffer, 1, n)) = n
    BY <1>6, <2>2
  <2>4. \A k \in 1 .. n : SubSeq(buffer, 1, n)[k] = buffer[k]
    BY <1>6, <2>2
  <2> QED
    BY <1>7, <2>2, <2>3, <2>4
<1>11. CStr(buffer) = SubSeq(buffer, 1, n)
  BY DEF CStr, nul, nuls
<1>12. n > 0 => buffer[1] # "nul"
  BY <1>5, <1>6
<1> HIDE DEF n
<1> QED
  BY <1>6, <1>8, <1>9, <1>10, <1>11, <1>12 DEF buffer

\* A text of a sample is the text of the SDK as it can be read.
LEMMA TextShown ==
  ASSUME NEW text \in Text
  PROVE  ShownAs(TextOf(text), text)
<1> DEFINE buffer == copy_string(text)
           bytes == CStr(buffer)
           lossy == to_string_lossy(bytes)
           visible == {k \in Readable(text) : text[k] # "blank"}
<1>1. PICK n \in Nat :
        /\ Readable(text) = 1 .. n
        /\ DOMAIN bytes = 1 .. n
        /\ \A k \in 1 .. n : bytes[k] = text[k]
        /\ n > 0 => buffer[1] # "nul"
  BY CopyRead
<1> HIDE DEF buffer, bytes
<1>2. DOMAIN lossy = 1 .. n
  BY <1>1 DEF to_string_lossy
<1>3. ASSUME NEW k \in 1 .. n
      PROVE  lossy[k] = IF Whole(text, k) THEN text[k] ELSE "replacement"
  <2>1. bytes[k] = text[k]
    BY <1>1
  <2>2. k + 1 \in DOMAIN bytes => bytes[k + 1] = text[k + 1]
    BY <1>1
  <2>3. k - 1 \in DOMAIN bytes <=> k > 1
    BY <1>1
  <2>4. k > 1 => bytes[k - 1] = text[k - 1]
    BY <1>1, <2>3
  <2>5. Broken(bytes, k) <=> ~Whole(text, k)
    BY <1>1, <2>1, <2>2, <2>3, <2>4 DEF Broken, Whole
  <2> QED
    BY <1>1, <2>1, <2>5 DEF to_string_lossy
<1>4. \A k \in 1 .. n : lossy[k] # "blank" <=> text[k] # "blank"
  BY <1>3 DEF Whole
<1> HIDE DEF lossy
<1>5. {k \in DOMAIN lossy : lossy[k] # "blank"} = visible
  BY <1>1, <1>2, <1>4
<1>6. TextOf(text) = IF buffer[1] = "nul" \/ trim(lossy) = <<>> THEN Null ELSE trim(lossy)
  BY DEF TextOf, c_char_array_to_string, buffer, bytes, lossy
<1>7. trim(lossy) = IF visible = {} THEN <<>> ELSE SubSeq(lossy, Min(visible), Max(visible))
  BY <1>5 DEF trim
<1>8. CASE visible = {}
  BY <1>6, <1>7, <1>8 DEF ShownAs
<1>9. CASE visible # {}
  <2> DEFINE first == Min(visible)
             last == Max(visible)
             value == SubSeq(lossy, first, last)
  <2>1. visible \in SUBSET (1 .. n) /\ visible \in SUBSET Nat
    BY <1>1
  <2>2. first \in visible /\ last \in visible /\ \A k \in visible : first <= k /\ k <= last
    BY <1>9, <2>1, MinOf, MaxOf
  <2> HIDE DEF first, last
  <2>3. /\ first \in 1 .. n /\ last \in 1 .. n /\ first <= last
        /\ first \in Int /\ last \in Int
    BY <2>1, <2>2
  <2>4. /\ value \in Seq({lossy[k] : k \in first .. last})
        /\ Len(value) = IF first <= last THEN last - first + 1 ELSE 0
        /\ \A i \in 1 .. last - first + 1 : value[i] = lossy[first + i - 1]
    <3>1. \A i \in first .. last : lossy[i] \in {lossy[k] : k \in first .. last}
      OBVIOUS
    <3> QED
      BY <2>3, <3>1, SubSeqProperties
  <2> HIDE DEF value
  <2>5. DOMAIN value = 1 .. last - first + 1 /\ value # <<>>
    BY <2>3, <2>4
  <2>6. \A k \in first .. last : value[k - first + 1] = lossy[k]
    <3> SUFFICES ASSUME NEW k \in first .. last PROVE value[k - first + 1] = lossy[k]
      OBVIOUS
    <3>1. k - first + 1 \in 1 .. last - first + 1 /\ first + (k - first + 1) - 1 = k
      BY <2>3
    <3> QED
      BY <2>4, <3>1
  <2>7. TextOf(text) = value
    <3>1. trim(lossy) = value
      BY <1>7, <1>9 DEF value, first, last
    <3>2. buffer[1] # "nul"
      BY <1>1, <2>3
    <3> QED
      BY <1>6, <2>5, <3>1, <3>2
  <2>8. \A k \in first .. last :
          value[k - first + 1] = IF Whole(text, k) THEN text[k] ELSE "replacement"
    BY <1>3, <2>3, <2>6
  <2> QED
    BY <1>9, <2>2, <2>5, <2>7, <2>8 DEF ShownAs
<1> QED
  BY <1>8, <1>9

-----------------------------------------------------------------------------
\* The row.

\* The address of a network revision, and no other, is called an IPv4 address.
LEMMA AddressKind ==
  ASSUME NEW revision \in U8, FamiliesAgree
  PROVE  address_kind(revision) = "ipv4" <=> revision \in NetworkRevisions
<1> DEFINE family == revision \div 16
<1>1. revision \in NetworkRevisions <=> family \in {1, 4}
  BY DEF FamiliesAgree
<1>2. family \in Int
  BY DEF U8
<1> HIDE DEF family
<1>3. CASE family \in {1, 4}
  BY <1>1, <1>2, <1>3 DEF address_kind, family
<1>4. CASE family \in {2, 3}
  BY <1>1, <1>2, <1>4 DEF address_kind, family
<1>5. CASE family \notin {1, 2, 3, 4}
  BY <1>1, <1>2, <1>5 DEF address_kind, family
<1> QED
  BY <1>3, <1>4, <1>5

\* The row of an advertisement says what was advertised.
LEMMA RowTrue ==
  ASSUME delivered \in Advertisements
  PROVE  RowsSayWhatWasAdvertised
<1> DEFINE input == delivered
           sample == SampleOf(input)
           Shown(name) == ColumnOf(sample, name)
           Is(name, value) == Shown(name) = value
           network == input.hardware_revision_bcd \in NetworkRevisions
<1>1. Accepted(row(sample))
  BY RowAccepted
<1>2. Is("observed_at_utc", Shown("observed_at_unix_ms"))
  BY TimeColumns
<1>3. \A name \in DOMAIN Position \ {"observed_at_unix_ms", "observed_at_utc"} :
        Shown(name) = sample[name]
  BY NamedColumn
<1> HIDE DEF sample
<1>4. /\ Is("serial", sample.serial) /\ Is("address_raw", sample.address_raw)
      /\ Is("device_time_raw", sample.device_time_raw) /\ Is("flags_raw", sample.flags_raw)
      /\ Is("voltage1_volts", sample.voltage1_volts)
      /\ Is("voltage2_volts", sample.voltage2_volts)
      /\ Is("current_amps", sample.current_amps) /\ Is("power_watts", sample.power_watts)
      /\ Is("coulomb_meter_raw", sample.coulomb_meter_raw)
      /\ Is("power_meter_raw", sample.power_meter_raw)
      /\ Is("temperature_celsius", sample.temperature_celsius)
      /\ Is("temperature_is_external", sample.temperature_is_external)
      /\ Is("power_status_code", sample.power_status_code)
      /\ Is("rssi_dbm", sample.rssi_dbm) /\ Is("soc_raw", sample.soc_raw)
      /\ Is("runtime_raw", sample.runtime_raw)
      /\ Is("firmware_version_bcd", sample.firmware_version_bcd)
      /\ Is("hardware_revision_bcd", sample.hardware_revision_bcd)
  BY <1>3 DEF Position
<1>5. /\ Is("schema_version", sample.schema_version)
      /\ Is("address_kind", sample.address_kind) /\ Is("name", sample["name"])
      /\ Is("model", sample["model"]) /\ Is("power_status", sample.power_status)
      /\ Is("address_display", sample.address_display)
      /\ Is("firmware_version", sample.firmware_version)
      /\ Is("hardware_revision", sample.hardware_revision)
      /\ Is("soc_percent", sample.soc_percent)
      /\ Is("runtime_minutes", sample.runtime_minutes)
  BY <1>3 DEF Position
<1> HIDE DEF Is
<1>6. /\ Is("serial", input.serial) /\ Is("address_raw", input.address)
      /\ Is("device_time_raw", input.time) /\ Is("flags_raw", input.flags)
      /\ Is("voltage1_volts", input.voltage1) /\ Is("voltage2_volts", input.voltage2)
      /\ Is("current_amps", input.current) /\ Is("power_watts", input.power)
      /\ Is("coulomb_meter_raw", input.coulomb_meter)
      /\ Is("power_meter_raw", input.power_meter)
      /\ Is("temperature_celsius", input.temperature)
      /\ Is("temperature_is_external", input.isExternalTemperature)
      /\ Is("power_status_code", input.power_status) /\ Is("rssi_dbm", input.rssi)
      /\ Is("soc_raw", input.soc) /\ Is("runtime_raw", input.runtime)
      /\ Is("firmware_version_bcd", input.firmware_version_bcd)
      /\ Is("hardware_revision_bcd", input.hardware_revision_bcd)
  BY <1>4, SampleNumbers DEF sample
<1> USE DEF Is
<1>7. /\ input.soc \in U8 /\ input.hardware_revision_bcd \in U8
      /\ input.runtime \in U16 /\ input.firmware_version_bcd \in U16
  BY AdvertisementAssumption
<1>8. /\ Is("schema_version", 1)
      /\ Is("soc_percent", IF input.soc <= 100 THEN input.soc ELSE Null)
      /\ Is("runtime_minutes", IF input.runtime <= 65520 THEN input.runtime ELSE Null)
  BY <1>5, SampleDerived DEF sample, normalize_soc, SocMax, normalize_runtime, RuntimeMax
<1>9. /\ DecodedAs16(Shown("firmware_version"), input.firmware_version_bcd)
      /\ DecodedAs8(Shown("hardware_revision"), input.hardware_revision_bcd)
  BY <1>5, <1>7, SampleDerived, RevisionDecoded, VersionDecoded DEF sample
<1>10. /\ ShownAs(Shown("name"), input.name) /\ ShownAs(Shown("model"), input.model)
       /\ ShownAs(Shown("power_status"), input.power_status_display)
       /\ ShownAs(Shown("address_display"),
                  IF network THEN input.ip_address ELSE input.mac_address)
  <2>1. /\ input.name \in Text /\ input.model \in Text
        /\ input.power_status_display \in Text /\ Address(input) \in Text
    BY NullAssumption DEF TextFields, Address
  <2> QED
    BY <1>5, <2>1, SampleDerived, TextShown DEF sample, Address
<1>11. FamiliesAgree => (Is("address_kind", "ipv4") <=> network)
  BY <1>5, <1>7, SampleDerived, AddressKind DEF sample
<1> HIDE DEF Is
<1>12. delivered # None => RowsSayWhatWasAdvertised
  BY <1>1, <1>2, <1>6, <1>8, <1>9, <1>10, <1>11 DEF RowsSayWhatWasAdvertised, Is, sample
<1> QED
  BY <1>12 DEF RowsSayWhatWasAdvertised

-----------------------------------------------------------------------------
\* Types.

\* The SDK's thread has heard an advertisement from the time it asks for the
\* mutex until it has called back.
TypeInv ==
  /\ LifecycleTypeOK
  /\ callback_pc # "idle" => heard \in Advertisements

LEMMA InitTypeInv == LifecycleInit => TypeInv
BY DEF LifecycleInit, TypeInv, LifecycleTypeOK, Pc, Memory

LEMMA ScannerThreadTyped == TypeInv /\ ScannerThread => TypeInv'
<1> SUFFICES ASSUME TypeInv, ScannerThread PROVE TypeInv'
  OBVIOUS
<1>1. UNCHANGED <<cancelled, sdk_waits, holder, sdkThread>>
  BY DEF ScannerThread, tw_scanner_create, StoreCallback, RegisterCallback, start_ble,
         CheckTransport, NoticeShutdown, StopBleScan, ClearGauges, Disable, EndScan,
         DeleteScanner, FreeHandle, DropCallbackState, ReportError
<1>2. pc' \in Pc
  BY DEF TypeInv, LifecycleTypeOK, Pc, scannerThread, ScannerThread, tw_scanner_create,
         StoreCallback, RegisterCallback, start_ble, CheckTransport, NoticeShutdown,
         StopBleScan, ClearGauges, Disable, EndScan, DeleteScanner, FreeHandle,
         DropCallbackState, ReportError
<1>3. failed' \in BOOLEAN /\ scanning' \in BOOLEAN
  BY DEF TypeInv, LifecycleTypeOK, scannerThread, ScannerThread, tw_scanner_create,
         StoreCallback, RegisterCallback, start_ble, CheckTransport, NoticeShutdown,
         StopBleScan, ClearGauges, Disable, EndScan, DeleteScanner, FreeHandle,
         DropCallbackState, ReportError
<1>4. /\ alive' \in BOOLEAN /\ callback' \in BOOLEAN
      /\ handle' \in Memory /\ callback_state' \in Memory
  BY DEF TypeInv, LifecycleTypeOK, Memory, tw_scanner, ScannerThread, tw_scanner_create,
         StoreCallback, RegisterCallback, start_ble, CheckTransport, NoticeShutdown,
         StopBleScan, ClearGauges, Disable, EndScan, DeleteScanner, FreeHandle,
         DropCallbackState, ReportError
<1>5. ble_running' \in BOOLEAN /\ scanner_running' \in BOOLEAN
  BY DEF TypeInv, LifecycleTypeOK, running, ScannerThread, tw_scanner_create,
         StoreCallback, RegisterCallback, start_ble, CheckTransport, NoticeShutdown,
         StopBleScan, ClearGauges, Disable, EndScan, DeleteScanner, FreeHandle,
         DropCallbackState, ReportError
<1> QED
  BY <1>1, <1>2, <1>3, <1>4, <1>5 DEF TypeInv, LifecycleTypeOK, sdkThread

LEMMA NextTypeInv == TypeInv /\ [LifecycleNext]_lifecycleVars => TypeInv'
<1> SUFFICES ASSUME TypeInv, [LifecycleNext]_lifecycleVars PROVE TypeInv'
  OBVIOUS
<1> USE DEF TypeInv, LifecycleTypeOK, scannerThread, tw_scanner, sdkThread, running
<1>1. CASE \E advertisement \in Advertisements : Advertise(advertisement)
  BY <1>1 DEF Advertise
<1>2. CASE EnterCallback
  BY <1>2 DEF EnterCallback, Thread
<1>3. CASE on_advertisement
  BY <1>3, SocConverted DEF on_advertisement
<1>4. CASE Cancel \/ UNCHANGED lifecycleVars
  BY <1>4 DEF Cancel, lifecycleVars
<1> HIDE DEF TypeInv
<1> QED
  BY <1>1, <1>2, <1>3, <1>4, ScannerThreadTyped DEF LifecycleNext, Callback

-----------------------------------------------------------------------------
\* What the scanner is proved to do.

\* All variables keep their types, and a state of charge that reaches the queue
\* is a percentage or missing (Sample::from_tw_advertisement, src/sample.rs).
THEOREM LifecycleTypeCorrect == LifecycleSpec => []LifecycleTypeOK
<1>1. TypeInv => LifecycleTypeOK
  BY DEF TypeInv
<1> QED
  BY <1>1, InitTypeInv, NextTypeInv, PTL DEF LifecycleSpec

\* Once destroy has had the mutex, no callback reaches Rust any more
\* (src/scanner.rs, ffi/thornwave_scan.cc).
THEOREM CallbacksEnd == LifecycleSpec => []NoCallbackOnceDisabled
<1>1. IInv => NoCallbackOnceDisabled
  BY DEF IInv
<1> QED
  BY <1>1, Invariance, PTL

\* No callback uses a handle or a callback state that is gone, provided that
\* the SDK's destructor waits for it (ffi/thornwave_scan.cc).
THEOREM MemoryIsSafe == LifecycleSpec => []NoUseAfterFree
<1>1. IInv => NoUseAfterFree
  BY DEF IInv, NoUseAfterFree, Ownership, Quiet, Living, Control
<1> QED
  BY <1>1, Invariance, PTL

\* The scanner's gauges are 1 while it runs and 0 when its thread is over
\* (src/main.rs).
THEOREM GaugesAreTrue == LifecycleSpec => []GaugesShowTheScanner
<1>1. IInv => GaugesShowTheScanner
  BY DEF IInv, GaugesShowTheScanner, Reported, Quiet, Scanning, Control
<1> QED
  BY <1>1, Invariance, PTL

\* The row made of an advertisement is accepted by the schema and each of its
\* columns is what was advertised: whatever number of the width of its type,
\* any bytes in the texts and any size of the arrays
\* (ffi/thornwave_scan.cc, src/sample.rs, src/parquet_writer.rs).
THEOREM RowsAreTrue == LifecycleSpec => []RowsSayWhatWasAdvertised
<1>1. TypeInv => RowsSayWhatWasAdvertised
  <2> SUFFICES ASSUME TypeInv, delivered # None PROVE RowsSayWhatWasAdvertised
    BY DEF RowsSayWhatWasAdvertised
  <2>1. delivered \in Advertisements
    BY DEF TypeInv, LifecycleTypeOK
  <2> QED
    BY <2>1, RowTrue
<1> QED
  BY <1>1, InitTypeInv, NextTypeInv, PTL DEF LifecycleSpec
=============================================================================
