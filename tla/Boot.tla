-------------------------------- MODULE Boot -------------------------------
(***************************************************************************)
(* prod_setup(): the parts of the node are set up one after the other.  A  *)
(* part that fails and that the node needs is handed to the ErrorHandler,  *)
(* which resets the board by way of the watchdog: it sets a short timeout  *)
(* and delays for longer.  If the watchdog did not bite, the set-up would  *)
(* go on with the part in its broken state.                                *)
(*                                                                         *)
(* The modem keeps the root certificate, the key and the certificate of    *)
(* the device.  A build with RESET_GSM_ON_INIT replaces them at every      *)
(* start; the other one relies on what is there.                           *)
(***************************************************************************)
EXTENDS Naturals, Sequences, SequencesExt

CONSTANTS
  Roots, Key, Cert, \* what the modem can store
  ModemRetries,     \* of UBlox201_GSMSSLClient::init()
  MqttRetries,      \* of GsmMQTTPort::tryConnect()
  WatchdogTimeout,  \* DEFAULT_WATCHDOG_TIMEOUT_MS, in ticks
  ErrorTimeout,     \* of ErrorHandler::performReset(), in ticks
  MaxFaults         \* bound: failures of parts, and losses of power

ASSUME BootAssumption ==
  /\ {ModemRetries, MqttRetries, MaxFaults} \subseteq Nat
  /\ {WatchdogTimeout, ErrorTimeout} \subseteq Nat \ {0}
  /\ Key # Cert /\ {Key, Cert} \cap Roots = {}

Credentials == Roots \cup {Key, Cert}

\* The stages of prod_setup(), and those of GsmMQTTPort::init() within it.
Stages ==
  <<"storage", "gps", "fix", "queue", "modem",
    "removeRoots", "importRoots", "removeKey", "loadKey", "removeCert", "loadCert",
    "list", "profile", "mqtt", "iridium", "gauge", "runner", "watchdog">>
Provisioning == {"removeRoots", "importRoots", "removeKey", "loadKey", "removeCert", "loadCert"}

\* The stages without which the node cannot work.
Vital == {"storage", "gps", "fix", "queue", "modem", "mqtt", "runner"}

VARIABLES
  at,        \* a stage, "reset" (performReset), or a place of the main loop
  stage,     \* the index of the last stage that was begun
  tries,     \* attempts left, of the stages that retry
  failed,    \* the stages that have failed since the board started
  armed,     \* the timeout of the watchdog, 0 when it is disabled
  unfed,     \* how long the watchdog has not been fed
  delayed,   \* how long performReset() still delays
  creds,     \* what the modem has stored
  provisions,\* the build has RESET_GSM_ON_INIT
  faults

bootVars == <<at, stage, tries, failed, armed, unfed, delayed, creds, provisions, faults>>

TypeOKBoot ==
  /\ stage \in 1 .. Len(Stages)
  /\ tries \in 0 .. ModemRetries + MqttRetries + 1
  /\ failed \subseteq ToSet(Stages)
  /\ armed \in {0, ErrorTimeout, WatchdogTimeout}
  /\ unfed \in 0 .. armed /\ delayed \in 0 .. ErrorTimeout + 1
  /\ creds \subseteq Credentials /\ provisions \in BOOLEAN
  /\ faults \in 0 .. MaxFaults

InitBoot ==
  /\ at = Stages[1] /\ stage = 1 /\ tries = 0 /\ failed = {}
  /\ armed = 0 /\ unfed = 0 /\ delayed = 0
  /\ provisions \in BOOLEAN
  /\ creds \in IF provisions THEN SUBSET Credentials ELSE {Credentials}
  /\ faults = 0

Fault == faults < MaxFaults /\ faults' = faults + 1

-----------------------------------------------------------------------------
(* How the set-up goes on. *)

Tries(s) == CASE s = "modem" -> ModemRetries [] s = "mqtt" -> MqttRetries [] OTHER -> 0

\* The stages of the provisioning are left out of the other build.
GoOnAfter(i) ==
  LET later == {j \in i + 1 .. Len(Stages) : provisions \/ Stages[j] \notin Provisioning}
      next == CHOOSE j \in later : \A k \in later : j <= k
  IN stage' = next /\ at' = Stages[next] /\ tries' = Tries(Stages[next])

GoOn == GoOnAfter(stage)

\* The init() that has failed returns, with the stages it has left; or the
\* task goes on that had called the handler.
GiveUpPart ==
  LET last == CASE Stages[stage] = "gps" -> "fix" [] Stages[stage] = "modem" -> "mqtt"
                [] OTHER -> Stages[stage]
  IN IF stage = Len(Stages)
       THEN at' = "working" /\ UNCHANGED <<stage, tries>>
       ELSE GoOnAfter(CHOOSE i \in 1 .. Len(Stages) : Stages[i] = last)

\* ErrorHandler::handleError() sets the watchdog, and begins to delay.
HandleError ==
  /\ at' = "reset"
  /\ armed' = ErrorTimeout /\ unfed' = 0
  /\ delayed' = ErrorTimeout + 1

\* Mutant of PerformReset: waitFor() in the place of delay().
PerformResetWaiting ==
  /\ at = "reset"
  /\ IF delayed > 0
       THEN delayed' = delayed - 1 /\ unfed' = 0 /\ UNCHANGED <<at, stage, tries>>
       ELSE GiveUpPart /\ UNCHANGED <<delayed, unfed>>
  /\ UNCHANGED <<failed, armed, creds, provisions, faults>>

\* performReset() delays, which does not feed the watchdog. When that has not
\* bitten until then, the set-up goes on behind the part that has failed.
PerformReset ==
  /\ at = "reset" /\ unfed < armed
  /\ IF delayed > 0
       THEN delayed' = delayed - 1 /\ unfed' = unfed + 1 /\ UNCHANGED <<at, stage, tries>>
       ELSE GiveUpPart /\ UNCHANGED <<delayed, unfed>>
  /\ UNCHANGED <<failed, armed, creds, provisions, faults>>

\* The board starts anew. What is in the modem stays.
Restart ==
  /\ at' = Stages[1] /\ stage' = 1 /\ tries' = 0 /\ failed' = {}
  /\ armed' = 0 /\ unfed' = 0 /\ delayed' = 0
  /\ UNCHANGED <<creds, provisions>>

-----------------------------------------------------------------------------
(* The stages. *)

Fails(s) ==
  /\ failed' = failed \cup {s}
  /\ IF s \in Vital
       THEN HandleError /\ UNCHANGED <<stage, tries>>
       ELSE GoOn /\ UNCHANGED <<armed, unfed, delayed>>
  /\ UNCHANGED <<creds, provisions>>

Succeeds == GoOn /\ UNCHANGED <<failed, armed, unfed, delayed, creds, provisions>>

\* Mutant of TriesAgain: the retries are never used up.
TriesForEver ==
  /\ tries' = tries - 1
  /\ UNCHANGED <<at, stage, failed, armed, unfed, delayed, creds, provisions>>

\* Another attempt.
TriesAgain ==
  /\ tries > 0 /\ tries' = tries - 1
  /\ UNCHANGED <<at, stage, failed, armed, unfed, delayed, creds, provisions>>

\* A part that is set up in one attempt.
SetUp(s) ==
  /\ at = s
  /\ \/ Succeeds /\ UNCHANGED faults
     \/ Fault /\ Fails(s)

\* UBlox201_GSMSSLClient::init(), by attempts. When the retries are used up it
\* reports a failure, even if the last attempt has succeeded.
Modem ==
  /\ at = "modem"
  /\ \/ tries > 0 /\ Succeeds /\ UNCHANGED faults
     \/ tries = 0 /\ Fails("modem") /\ UNCHANGED faults
     \/ Fault /\ TriesAgain

\* Commands to the modem about some credentials. One that fails is logged, and
\* the others are given all the same.
Removes(s, items) ==
  /\ at = s
  /\ \E done \in SUBSET items :
       /\ IF done = items THEN UNCHANGED faults ELSE Fault
       /\ creds' = creds \ done
  /\ GoOn
  /\ UNCHANGED <<failed, armed, unfed, delayed, provisions>>

Loads(s, items) ==
  /\ at = s
  /\ \E done \in SUBSET items :
       /\ IF done = items THEN UNCHANGED faults ELSE Fault
       /\ creds' = creds \cup done
  /\ GoOn
  /\ UNCHANGED <<failed, armed, unfed, delayed, provisions>>

RemoveRoots == Removes("removeRoots", Roots)
ImportRoots == Loads("importRoots", Roots)
RemoveKey == Removes("removeKey", {Key})

LoadKey == Loads("loadKey", {Key})
RemoveCert == Removes("removeCert", {Cert})
LoadCert == Loads("loadCert", {Cert})

\* The modem is asked what it has stored, and for its TLS profile. Nothing
\* depends on what it answers, or on whether it does.
ListCertificates == at = "list" /\ Succeeds /\ UNCHANGED faults

PrintTLSProfileStatus == at = "profile" /\ Succeeds /\ UNCHANGED faults

\* The broker lets in a node that has its key and certificate, and that can
\* check the broker's.
Admitted == {Key, Cert} \subseteq creds /\ Roots \cap creds # {}

\* tryConnect(), by attempts.
Mqtt ==
  /\ at = "mqtt"
  /\ \/ Admitted /\ Succeeds /\ UNCHANGED faults
     \/ /\ IF Admitted THEN Fault ELSE UNCHANGED faults
        /\ TriesAgain \/ (tries = 0 /\ Fails("mqtt"))

SetUpStep ==
  \/ \E s \in {"storage", "gps", "fix", "queue", "iridium", "gauge", "runner"} : SetUp(s)
  \/ Modem \/ Mqtt
  \/ RemoveRoots \/ ImportRoots \/ RemoveKey \/ LoadKey \/ RemoveCert \/ LoadCert
  \/ ListCertificates \/ PrintTLSProfileStatus
=============================================================================
