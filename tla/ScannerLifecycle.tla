-------------------------- MODULE ScannerLifecycle --------------------------
(***************************************************************************)
(* The life of the scanner: the scanner thread (run_scanner_blocking in      *)
(* src/main.rs and Scanner in src/scanner.rs), the C facade's handle and its *)
(* mutex (ffi/thornwave_scan.cc), and the thread on which the SDK calls back. *)
(*                                                                           *)
(* The SDK is external.  Each of its calls may throw.  It has one thread that *)
(* calls back, and only while it scans; whether the destructor of its scanner *)
(* waits for a callback under way is not documented, so both are considered. *)
(***************************************************************************)
EXTENDS SampleConversion

CONSTANTS
  None,
  Advertisements   \* what the SDK may hear

VARIABLES
  cancelled,
  sdk_waits,      \* no callback is under way once the SDK's scanner is deleted
  pc,             \* where the scanner thread is
  failed,         \* Scanner::new is returning an error
  handle,         \* the TwScanner
  alive, callback,  \* its fields; callback says whether it is set
  holder,         \* the thread that holds its mutex
  callback_state, \* the Box that user_data points to
  scanning,       \* the SDK scans, with the facade's lambda as its callback
  callback_pc,    \* where the SDK's thread is
  heard,          \* the advertisement it converts
  delivered,      \* the last one of which a sample was sent to the queue
  ble_running, scanner_running   \* gauges

scannerThread == <<pc, failed>>
tw_scanner == <<handle, alive, callback>>
sdkThread == <<callback_pc, heard, delivered>>
running == <<ble_running, scanner_running>>
lifecycleVars == <<cancelled, sdk_waits, scannerThread, tw_scanner, holder, callback_state,
                   scanning, sdkThread, running>>

Memory == {"none", "allocated", "freed"}
Thread == {"scanner", "sdk"}

ASSUME ThreadAssumption == None \notin Thread

U8 == 0 .. 2^8 - 1
U16 == 0 .. 2^16 - 1

\* The numbers have the widths of TwAdvertisement (ffi/thornwave_scan.h).
ASSUME AdvertisementAssumption ==
  /\ None \notin Advertisements
  /\ \A input \in Advertisements :
       /\ input.soc \in U8 /\ input.hardware_revision_bcd \in U8
       /\ input.runtime \in U16 /\ input.firmware_version_bcd \in U16

NumberFields ==
  {"serial", "address", "time", "flags", "voltage1", "voltage2", "current", "power",
   "coulomb_meter", "power_meter", "temperature", "isExternalTemperature",
   "firmware_version_bcd", "hardware_revision_bcd", "power_status", "soc", "runtime",
   "rssi"}

TextFields == {"name", "model", "power_status_display", "ip_address", "mac_address"}

\* Nothing is missing from an advertisement.
ASSUME NullAssumption ==
  /\ Null \notin Int /\ Null \notin Text
  /\ \A input \in Advertisements :
       /\ \A field \in NumberFields : input[field] # Null
       /\ \A field \in TextFields : input[field] \in Text

Pc == {"creating", "storing", "registering", "starting", "checking", "running",
       "stopping", "clearing", "disabling", "halting", "deleting", "freeing",
       "dropping", "reporting", "ended"}

\* What the lambda of the facade and on_advertisement make of an advertisement;
\* 0 is the time at which they do.
SampleOf(input) == from_tw_advertisement(convert_advertisement(input), 0)

\* Types of the variables, and the range of the state of charge of a sample.
LifecycleTypeOK ==
  /\ {cancelled, sdk_waits, failed, alive, callback, scanning} \subseteq BOOLEAN
  /\ {ble_running, scanner_running} \subseteq BOOLEAN
  /\ pc \in Pc
  /\ handle \in Memory /\ callback_state \in Memory
  /\ holder \in Thread \cup {None}
  /\ callback_pc \in {"idle", "locking", "calling"}
  /\ heard \in Advertisements \cup {None}
  /\ delivered \in Advertisements \cup {None}
  /\ delivered # None => SampleOf(delivered).soc_percent \in (0 .. 100) \cup {Null}

LifecycleInit ==
  /\ cancelled = FALSE /\ sdk_waits \in BOOLEAN
  /\ pc = "creating" /\ failed = FALSE
  /\ handle = "none" /\ alive = TRUE /\ callback = FALSE /\ holder = None
  /\ callback_state = "none" /\ scanning = FALSE
  /\ callback_pc = "idle" /\ heard = None /\ delivered = None
  /\ ble_running = FALSE /\ scanner_running = FALSE

-----------------------------------------------------------------------------
\* The scanner thread.

\* tw_scanner_create; without a scanner new returns the SDK's error.
tw_scanner_create ==
  /\ pc = "creating"
  /\ \/ /\ handle' = "allocated"
        /\ callback_state' = "allocated"
        /\ pc' = "storing"
        /\ UNCHANGED failed
     \/ /\ failed' = TRUE
        /\ pc' = "reporting"
        /\ UNCHANGED <<handle, callback_state>>
  /\ UNCHANGED <<cancelled, sdk_waits, alive, callback, holder, scanning, sdkThread, running>>

\* tw_scanner_set_callback: the first half is under the mutex, ...
StoreCallback ==
  /\ pc = "storing"
  /\ holder = None
  /\ callback' = TRUE
  /\ pc' = "registering"
  /\ UNCHANGED <<cancelled, sdk_waits, failed, handle, alive, holder, callback_state,
                 scanning, sdkThread, running>>

\* ... the other is a call of the SDK.  If it fails, new destroys the handle.
RegisterCallback ==
  /\ pc = "registering"
  /\ \/ pc' = "starting" /\ UNCHANGED failed
     \/ pc' = "disabling" /\ failed' = TRUE
  /\ UNCHANGED <<cancelled, sdk_waits, tw_scanner, holder, callback_state, scanning,
                 sdkThread, running>>

start_ble ==
  /\ pc = "starting"
  /\ scanning' \in BOOLEAN
  /\ ble_running' = scanning'
  /\ pc' = "checking"
  /\ UNCHANGED <<cancelled, sdk_waits, failed, tw_scanner, holder, callback_state,
                 sdkThread, scanner_running>>

\* any_scanner_transport_running asks the gauge; without a transport the
\* thread returns, which drops the scanner.
CheckTransport ==
  /\ pc = "checking"
  /\ scanner_running' = ble_running
  /\ pc' = IF ble_running THEN "running" ELSE "disabling"
  /\ UNCHANGED <<cancelled, sdk_waits, failed, tw_scanner, holder, callback_state,
                 scanning, sdkThread, ble_running>>

\* The loop ends, at most 250 ms after the cancellation.
NoticeShutdown ==
  /\ pc = "running"
  /\ cancelled
  /\ pc' = "stopping"
  /\ UNCHANGED <<cancelled, sdk_waits, failed, tw_scanner, holder, callback_state,
                 scanning, sdkThread, running>>

\* stopBleScan, from stop and again from destroy: an exception is swallowed,
\* and then the scan goes on.
StopBleScan ==
  /\ \/ pc = "stopping" /\ pc' = "clearing"
     \/ pc = "halting" /\ pc' = "deleting"
  /\ scanning' \in {FALSE, scanning}
  /\ UNCHANGED <<cancelled, sdk_waits, failed, tw_scanner, holder, callback_state,
                 sdkThread, running>>

\* Mutant of ClearGauges: one gauge is forgotten.
ClearGauges_partly ==
  /\ pc = "clearing"
  /\ scanner_running' = FALSE
  /\ pc' = "disabling"
  /\ UNCHANGED <<cancelled, sdk_waits, failed, tw_scanner, holder, callback_state,
                 scanning, sdkThread, ble_running>>

ClearGauges ==
  /\ pc = "clearing"
  /\ ble_running' = FALSE /\ scanner_running' = FALSE
  /\ pc' = "disabling"
  /\ UNCHANGED <<cancelled, sdk_waits, failed, tw_scanner, holder, callback_state,
                 scanning, sdkThread>>

\* Mutant of Disable: the mutex is held until destroy returns.
Disable_and_hold ==
  /\ pc = "disabling"
  /\ holder = None
  /\ holder' = "scanner"
  /\ alive' = FALSE /\ callback' = FALSE
  /\ pc' = "halting"
  /\ UNCHANGED <<cancelled, sdk_waits, failed, handle, callback_state, scanning,
                 sdkThread, running>>

\* Mutant of Disable: the handle is freed, the SDK's scanner is not.
Disable_and_free ==
  /\ pc = "disabling"
  /\ holder = None
  /\ alive' = FALSE /\ callback' = FALSE
  /\ pc' = "freeing"
  /\ UNCHANGED <<cancelled, sdk_waits, failed, handle, holder, callback_state,
                 scanning, sdkThread, running>>

\* tw_scanner_destroy, called by new on failure and by drop: first no further
\* callback is let through, ...
Disable ==
  /\ pc = "disabling"
  /\ holder = None
  /\ alive' = FALSE /\ callback' = FALSE
  /\ pc' = "halting"
  /\ UNCHANGED <<cancelled, sdk_waits, failed, handle, holder, callback_state,
                 scanning, sdkThread, running>>

\* ... then the SDK's scanner is deleted, whose destructor ends the scan ...
EndScan ==
  /\ pc = "deleting"
  /\ scanning
  /\ scanning' = FALSE
  /\ UNCHANGED <<cancelled, sdk_waits, scannerThread, tw_scanner, holder, callback_state,
                 sdkThread, running>>

DeleteScanner ==
  /\ pc = "deleting"
  /\ ~scanning
  /\ sdk_waits => callback_pc = "idle"
  /\ pc' = "freeing"
  /\ UNCHANGED <<cancelled, sdk_waits, failed, tw_scanner, holder, callback_state,
                 scanning, sdkThread, running>>

\* ... and then the handle.
FreeHandle ==
  /\ pc = "freeing"
  /\ handle' = "freed"
  /\ pc' = "dropping"
  /\ UNCHANGED <<cancelled, sdk_waits, failed, alive, callback, holder, callback_state,
                 scanning, sdkThread, running>>

\* The Box is a field of Scanner, or a local of new: it goes after destroy.
DropCallbackState ==
  /\ pc = "dropping"
  /\ callback_state' = "freed"
  /\ pc' = IF failed THEN "reporting" ELSE "ended"
  /\ UNCHANGED <<cancelled, sdk_waits, failed, tw_scanner, holder, scanning, sdkThread,
                 running>>

\* The error of Scanner::new.
ReportError ==
  /\ pc = "reporting"
  /\ ble_running' = FALSE /\ scanner_running' = FALSE
  /\ pc' = "ended"
  /\ UNCHANGED <<cancelled, sdk_waits, failed, tw_scanner, holder, callback_state,
                 scanning, sdkThread>>

-----------------------------------------------------------------------------
\* The SDK's thread.

\* The lambda converts the advertisement before it asks for the mutex.
Advertise(advertisement) ==
  /\ scanning
  /\ callback_pc = "idle"
  /\ heard' = advertisement
  /\ callback_pc' = "locking"
  /\ UNCHANGED <<cancelled, sdk_waits, scannerThread, tw_scanner, holder, callback_state,
                 scanning, delivered, running>>

\* Mutant of EnterCallback: it does not look at alive and callback.
EnterCallback_unchecked ==
  /\ callback_pc = "locking"
  /\ holder = None
  /\ holder' = "sdk"
  /\ callback_pc' = "calling"
  /\ UNCHANGED <<cancelled, sdk_waits, scannerThread, tw_scanner, callback_state, scanning,
                 heard, delivered, running>>

\* It has the mutex, and calls back unless the scanner is being destroyed.
\* What it finds in a handle that is gone is undefined.
EnterCallback ==
  /\ callback_pc = "locking"
  /\ holder = None
  /\ \/ /\ (alive /\ callback) \/ handle = "freed"
        /\ holder' = "sdk"
        /\ callback_pc' = "calling"
        /\ UNCHANGED heard
     \/ /\ ~(alive /\ callback) \/ handle = "freed"
        /\ callback_pc' = "idle"
        /\ heard' = None
        /\ UNCHANGED holder
  /\ UNCHANGED <<cancelled, sdk_waits, scannerThread, tw_scanner, callback_state, scanning,
                 delivered, running>>

\* on_advertisement sends the sample and returns, and with it the lambda.
on_advertisement ==
  /\ callback_pc = "calling"
  /\ delivered' = heard
  /\ heard' = None
  /\ callback_pc' = "idle"
  /\ holder' = None
  /\ UNCHANGED <<cancelled, sdk_waits, scannerThread, tw_scanner, callback_state, scanning,
                 running>>

Cancel ==
  /\ ~cancelled
  /\ cancelled' = TRUE
  /\ UNCHANGED <<sdk_waits, scannerThread, tw_scanner, holder, callback_state, scanning,
                 sdkThread, running>>

ScannerThread ==
  \/ tw_scanner_create \/ StoreCallback \/ RegisterCallback \/ start_ble
  \/ CheckTransport \/ NoticeShutdown \/ StopBleScan \/ ClearGauges \/ Disable
  \/ EndScan \/ DeleteScanner \/ FreeHandle \/ DropCallbackState \/ ReportError

Callback == EnterCallback \/ on_advertisement

LifecycleNext ==
  \/ ScannerThread
  \/ \E advertisement \in Advertisements : Advertise(advertisement)
  \/ Callback
  \/ Cancel

LifecycleSpec == LifecycleInit /\ [][LifecycleNext]_lifecycleVars

\* Both threads run, and a std::mutex that is free again and again is had:
\* the callbacks of a busy air do not keep destroy from it for ever.
LiveLifecycleSpec ==
  /\ LifecycleSpec
  /\ WF_lifecycleVars(ScannerThread)
  /\ SF_lifecycleVars(Disable)
  /\ WF_lifecycleVars(Callback)

-----------------------------------------------------------------------------
\* Once destroy has had the mutex no callback reaches Rust any more, although
\* the SDK may go on calling back while it is stopped and deleted.
NoCallbackOnceDisabled ==
  handle = "allocated" /\ ~alive => callback_pc # "calling"

\* "The callback state is heap allocated and remains alive until
\* tw_scanner_destroy returns" (src/scanner.rs): whichever call fails, a
\* callback finds the mutex it asks for and the state it is given, provided
\* that the SDK's destructor waits for a callback under way.
NoUseAfterFree ==
  sdk_waits =>
    /\ callback_pc # "idle" => handle = "allocated"
    /\ callback_pc = "calling" => callback_state = "allocated"

\* wattdog_up and wattdog_ble_scanner_running are 1 while the scanner runs, and
\* 0 when the thread is over, whatever failed
\* (docs/src/routes/docs/reference/metrics/+page.md).
GaugesShowTheScanner ==
  /\ pc = "running" => ble_running /\ scanner_running
  /\ pc = "ended" => ~ble_running /\ ~scanner_running /\ ~scanning

\* The value of the column of that name.
ColumnOf(sample, name) ==
  row(sample)[CHOOSE k \in DOMAIN arrow_schema : arrow_schema[k].name = name]

\* The numbers that are decimal in BCD, and the number that digits stand for.
Decimal8 == {16 * a + b : a, b \in 0 .. 9}
Decimal16 == {256 * a + b : a, b \in Decimal8}

FromDigits8(digits) == 16 * digits[1] + digits[2]
FromDigits16(digits) == 256 * FromDigits8(digits) + 16 * digits[3] + digits[4]

DecodedAs8(version, value) ==
  IF value \in Decimal8
  THEN version \in [1 .. 2 -> 0 .. 9] /\ FromDigits8(version) = value
  ELSE version = Null

DecodedAs16(version, value) ==
  IF value \in Decimal16
  THEN version \in [1 .. 4 -> 0 .. 9] /\ FromDigits16(version) = value
  ELSE version = Null

\* A text as a reader should see it: what fits of it, up to a NUL, from the
\* first character that is not white space to the last, with a mark in place of
\* each byte that is not, or no longer, part of a character.
Readable(text) == {k \in DOMAIN text : k < TextSize /\ \A j \in 1 .. k : text[j] # "nul"}

Whole(text, k) ==
  /\ text[k] = "lead" => k + 1 \in Readable(text) /\ text[k + 1] = "tail"
  /\ text[k] = "tail" => k > 1 /\ text[k - 1] = "lead"

ShownAs(value, text) ==
  LET visible == {k \in Readable(text) : text[k] # "blank"}
  IN IF visible = {} THEN value = Null
     ELSE \E first, last \in visible :
            /\ \A k \in visible : first <= k /\ k <= last
            /\ DOMAIN value = 1 .. last - first + 1
            /\ \A k \in first .. last :
                 value[k - first + 1] = IF Whole(text, k) THEN text[k] ELSE "replacement"

\* The SDK's network families are those that src/sample.rs takes for such.
FamiliesAgree == \A revision \in U8 : revision \in NetworkRevisions <=> revision \div 16 \in {1, 4}

\* The row made of an advertisement is accepted by the schema and says what
\* was advertised, column by column: numbers unchanged; a state of charge or a
\* runtime that is a sentinel or out of range missing; a version shown where it
\* is decimal, and only there; each text as it can be read, with the IP address
\* of a network meter and the MAC address of any other
\* (docs/src/routes/docs/reference/parquet/+page.md, which calls either a
\* Bluetooth address); and the kind of the address in agreement with that, if
\* FamiliesAgree.
RowsSayWhatWasAdvertised ==
  delivered # None =>
    LET input == delivered
        Shown(name) == ColumnOf(SampleOf(input), name)
        Is(name, value) == Shown(name) = value
        network == input.hardware_revision_bcd \in NetworkRevisions
    IN /\ Accepted(row(SampleOf(input)))
       /\ Is("schema_version", 1)
       /\ Is("observed_at_utc", Shown("observed_at_unix_ms"))
       /\ Is("serial", input.serial) /\ Is("address_raw", input.address)
       /\ Is("device_time_raw", input.time) /\ Is("flags_raw", input.flags)
       /\ Is("voltage1_volts", input.voltage1) /\ Is("voltage2_volts", input.voltage2)
       /\ Is("current_amps", input.current) /\ Is("power_watts", input.power)
       /\ Is("coulomb_meter_raw", input.coulomb_meter)
       /\ Is("power_meter_raw", input.power_meter)
       /\ Is("temperature_celsius", input.temperature)
       /\ Is("temperature_is_external", input.isExternalTemperature)
       /\ Is("power_status_code", input.power_status) /\ Is("rssi_dbm", input.rssi)
       /\ Is("firmware_version_bcd", input.firmware_version_bcd)
       /\ DecodedAs16(Shown("firmware_version"), input.firmware_version_bcd)
       /\ Is("hardware_revision_bcd", input.hardware_revision_bcd)
       /\ DecodedAs8(Shown("hardware_revision"), input.hardware_revision_bcd)
       /\ Is("soc_raw", input.soc)
       /\ Is("soc_percent", IF input.soc <= 100 THEN input.soc ELSE Null)
       /\ Is("runtime_raw", input.runtime)
       /\ Is("runtime_minutes", IF input.runtime <= 65520 THEN input.runtime ELSE Null)
       /\ ShownAs(Shown("name"), input.name) /\ ShownAs(Shown("model"), input.model)
       /\ ShownAs(Shown("power_status"), input.power_status_display)
       /\ ShownAs(Shown("address_display"),
                  IF network THEN input.ip_address ELSE input.mac_address)
       /\ FamiliesAgree => (Is("address_kind", "ipv4") <=> network)

\* The thread ends after the cancellation, so that main, which waits for it,
\* does: destroy and a callback never wait for each other.
ScannerEnds == cancelled ~> pc = "ended"
=============================================================================
