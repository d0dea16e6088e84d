---------------------------- MODULE QiskitBackend ----------------------------
(***************************************************************************)
(* QRMIBackend of python/qrmi/primitives/ibm/backend.py: a backend of      *)
(* Qiskit over a resource of IBM.  It keeps what the resource told of its  *)
(* device in three parts, the configuration, the properties and the target *)
(* made of both, while the device is calibrated again, and refreshes them  *)
(* one after the other.  Threads that transpile and check circuits share   *)
(* it.                                                                     *)
(***************************************************************************)
EXTENDS Naturals, FiniteSets

CONSTANT Threads

VARIABLES
  calibrated,   \* the device: how many times it has been calibrated again
  faultyIn,     \* the calibrations in which one of its qubits is faulty
  fractional,   \* the option use_fractional_gates
  cached,       \* _configuration, _properties and _target
  refreshing,   \* the call of each thread
  fetched,      \* history: what target() has brought
  fresh,        \* history: a refresh that began with this calibration has succeeded
  overlapped,   \* history: two threads have refreshed at a time
  regated,      \* history: the option was set and the target not made anew since
  apart         \* history: properties were kept without a target made of them

backendVars == <<calibrated, faultyIn, fractional, cached, refreshing, fetched, fresh, overlapped, regated, apart>>

\* Bounds: the device is calibrated again once, and the option is set once.
Calibrations == 0..1

\* Parts know their calibration and whether they have the fractional gates.
Part == [of : Calibrations, fractional : BOOLEAN]
Target == [configuration : Part, properties : Part]

\* refresh() and properties(refresh=True), which only takes the properties.
Call == [does : {"refresh", "properties"},
         next : {"target", "configuration", "properties", "convert"},
         since : Calibrations, brought : Calibrations \X Calibrations]
Idle == [does |-> "nothing", next |-> "none", since |-> 0, brought |-> <<0, 0>>]

BackendTypeOK ==
  /\ calibrated \in Calibrations
  /\ faultyIn \subseteq Calibrations
  /\ {fractional, overlapped, regated, apart} \subseteq BOOLEAN
  /\ cached \in [configuration : Part, properties : Part, target : Target]
  /\ \A t \in Threads : refreshing[t] # Idle => refreshing[t] \in Call
  /\ fetched \subseteq Calibrations \X Calibrations
  /\ fresh \in Calibrations

First == [of |-> 0, fractional |-> FALSE]

\* The constructor has taken all three from one answer.
QRMIBackend ==
  [configuration |-> First, properties |-> First,
   target |-> [configuration |-> First, properties |-> First]]

BackendInit(asks) ==
  /\ calibrated = 0
  /\ faultyIn \in IF asks THEN {{c} : c \in Calibrations} ELSE {{}}
  /\ fractional = FALSE
  /\ cached = QRMIBackend
  /\ refreshing = [t \in Threads |-> Idle]
  /\ fetched = {<<0, 0>>}
  /\ fresh = 0
  /\ overlapped = FALSE
  /\ regated = FALSE
  /\ apart = FALSE

Recalibrated ==
  /\ calibrated + 1 \in Calibrations
  /\ calibrated' = calibrated + 1
  /\ UNCHANGED <<faultyIn, fractional, cached, refreshing, fetched, fresh,
                 overlapped, regated, apart>>

\* set_options of BackendV2.
set_options ==
  /\ ~fractional /\ fractional' = TRUE
  /\ regated' = TRUE
  /\ UNCHANGED <<calibrated, faultyIn, cached, refreshing, fetched, fresh,
                 overlapped, apart>>

-----------------------------------------------------------------------------
(* Refreshing. *)

Begins(t) ==
  /\ refreshing[t] = Idle
  /\ \E d \in {"refresh", "properties"} :
       refreshing' = [refreshing EXCEPT ![t] =
         [does |-> d, next |-> "target", since |-> calibrated, brought |-> <<0, 0>>]]
  /\ overlapped' = (overlapped \/ \E other \in Threads \ {t} : refreshing[other] # Idle)
  /\ UNCHANGED <<calibrated, faultyIn, fractional, cached, fetched, fresh,
                 regated, apart>>

Goes(t, next) == refreshing' = [refreshing EXCEPT ![t].next = next]

\* The resource may ask for the two parts one after the other (see DeviceQueries).
Fetches(t) ==
  /\ refreshing[t] # Idle /\ refreshing[t].next = "target"
  /\ \E c, p \in refreshing[t].since..calibrated :
       /\ c <= p
       /\ refreshing' = [refreshing EXCEPT
            ![t].brought = <<c, p>>,
            ![t].next = IF @ = "target" /\ refreshing[t].does = "properties"
                        THEN "properties" ELSE "configuration"]
       /\ fetched' = fetched \cup {<<c, p>>}
  /\ UNCHANGED <<calibrated, faultyIn, fractional, cached, fresh,
                 overlapped, regated, apart>>

KeepsConfiguration(t) ==
  /\ refreshing[t] # Idle /\ refreshing[t].next = "configuration"
  /\ cached' = [cached EXCEPT !.configuration =
                  [of |-> refreshing[t].brought[1], fractional |-> fractional]]
  /\ Goes(t, "properties")
  /\ UNCHANGED <<calibrated, faultyIn, fractional, fetched, fresh,
                 overlapped, regated, apart>>

KeepsProperties(t) ==
  /\ refreshing[t] # Idle /\ refreshing[t].next = "properties"
  /\ cached' = [cached EXCEPT !.properties =
                  [of |-> refreshing[t].brought[2], fractional |-> fractional]]
  /\ IF refreshing[t].does = "properties"
     THEN refreshing' = [refreshing EXCEPT ![t] = Idle]
     ELSE Goes(t, "convert")
  /\ apart' = TRUE
  /\ UNCHANGED <<calibrated, faultyIn, fractional, fetched, fresh,
                 overlapped, regated>>

\* MUTANT of Converted: the target is made of the configuration that was there.
ConvertedEarly == [configuration |-> cached.target.configuration, properties |-> cached.properties]

\* The target is made of what the backend has by now.
Converted == [configuration |-> cached.configuration, properties |-> cached.properties]

KeepsTarget(t) ==
  /\ refreshing[t] # Idle /\ refreshing[t].next = "convert"
  /\ cached' = [cached EXCEPT !.target = Converted]
  /\ refreshing' = [refreshing EXCEPT ![t] = Idle]
  /\ fresh' = IF refreshing[t].since > fresh THEN refreshing[t].since ELSE fresh
  /\ apart' = FALSE
  /\ regated' = (Converted.configuration.fractional # fractional
                 \/ Converted.properties.fractional # fractional)
  /\ UNCHANGED <<calibrated, faultyIn, fractional, fetched, overlapped>>

\* A request fails, or the answer cannot be decoded: what was kept is.
Raises(t) ==
  /\ refreshing[t] # Idle
  /\ refreshing' = [refreshing EXCEPT ![t] = Idle]
  /\ UNCHANGED <<calibrated, faultyIn, fractional, cached, fetched, fresh,
                 overlapped, regated, apart>>

-----------------------------------------------------------------------------
(* Using the backend. *)

get_translation_stage_plugin ==
  IF fractional THEN "ibm_dynamic_and_fractional" ELSE "ibm_dynamic_circuits"

\* What check_faulty raises for a circuit that was transpiled for the target and uses
\* every qubit the target has: those that were faulty are not among them.
check_faulty ==
  /\ cached.properties.of \in faultyIn
  /\ cached.target.properties.of \notin faultyIn

BackendNext ==
  \/ Recalibrated \/ set_options
  \/ \E t \in Threads :
       \/ Begins(t) \/ Fetches(t) \/ KeepsConfiguration(t) \/ KeepsProperties(t)
       \/ KeepsTarget(t) \/ Raises(t)

-----------------------------------------------------------------------------
(* Properties. *)

\* Unless two threads have refreshed at a time, the target is made of one answer of the
\* resource, and of one that is no older than the last refresh that succeeded.
TargetOfOneAnswer ==
  ~overlapped =>
    LET c == cached.target.configuration.of
        p == cached.target.properties.of
    IN <<c, p>> \in fetched /\ c >= fresh /\ p >= fresh

\* The target has the gates that the translation stage is for, unless the option was set
\* since the target was made.
GatesFit ==
  ~regated =>
    LET plugin == get_translation_stage_plugin
        has == plugin = "ibm_dynamic_and_fractional"
    IN /\ cached.target.configuration.fractional = has
       /\ cached.target.properties.fractional = has

\* A circuit that was transpiled for the target is not refused by check_faulty, unless
\* the properties were taken apart from the target, by properties(refresh=True) or by a
\* refresh that did not come to its end.
ChecksItsTarget == ~apart /\ ~overlapped => ~check_faulty

BackendAgrees == TargetOfOneAnswer /\ GatesFit /\ ChecksItsTarget
=============================================================================
