----------------------------- MODULE IqmBackend -----------------------------
(***************************************************************************)
(* IQMProvider and QRMIBackend of python/qrmi/qiskit_iqm/iqm_provider.py:  *)
(* a backend of Qiskit over one of the job's IQM Servers.  The name of a   *)
(* quantum computer is written in two ways, with a colon and without one;  *)
(* the circuits run with the calibration set the backend was made for; the *)
(* measurements become the strings of bits that Qiskit shows.              *)
(***************************************************************************)
EXTENDS Naturals, SequencesExt

VARIABLES
  slurm,       \* _iqm_resources: the IQM Servers of the job
  named,       \* the name that get_backend was given
  ordered,     \* the calibration set that get_backend was given
  chosen,      \* the quantum computer of the backend
  warned,      \* get_backend has warned
  default,     \* the server's default calibration set
  madeFor,     \* _calibration_set_id
  runsWith,    \* the calibration set of the last request
  measured,    \* the circuit's measurements, as the server tells them
  shown        \* the circuit's strings of bits in the result

iqmVars == <<slurm, named, ordered, chosen, warned, default, madeFor, runsWith, measured, shown>>

\* A name is what separates its words: the words stay as they are.
Name == BoundedSeq({":", "_"}, 2)
NoName == <<"none">>

\* Bounds: two IQM Servers; the server's default changes once.
Set == {"first", "second"}

-----------------------------------------------------------------------------
(* The quantum computer. *)

\* replace(":", "_") of get_backend.
Underscored(n) == [i \in DOMAIN n |-> "_"]

\* MUTANT of Converted: find in place of rfind.
ConvertedFirst(n) == IF n = <<>> THEN n ELSE [n EXCEPT ![1] = ":"]

\* IQMServer takes the last underscore for a colon.
Converted(n) == IF n = <<>> THEN n ELSE [n EXCEPT ![Len(n)] = ":"]

\* A name that is none of the job's, letter by letter, gives the first of them.
Listed == named \in ToSet(slurm)

get_backend ==
  /\ chosen = NoName
  /\ slurm # <<>>                 \* else _iqm_resources[0] raises IndexError
  /\ chosen' = Converted(Underscored(IF Listed THEN named ELSE slurm[1]))
  /\ warned' = (named # NoName /\ ~Listed)
  /\ madeFor' = IF ordered = "default" THEN default ELSE ordered
  /\ UNCHANGED <<slurm, named, ordered, default, runsWith, measured, shown>>

DefaultChanges ==
  /\ default = "first" /\ default' = "second"
  /\ UNCHANGED <<slurm, named, ordered, chosen, warned, madeFor, runsWith, measured, shown>>

-----------------------------------------------------------------------------
(* Running circuits. *)

\* The request names the set that the circuits were transpiled for.  It is compared
\* with that of the target that the backend has kept: no warning tells that the
\* default has changed.
create_run_request == madeFor

run ==
  /\ madeFor \in Set
  /\ runsWith' = create_run_request
  /\ measured' = <<>> /\ shown' = <<>>
  /\ UNCHANGED <<slurm, named, ordered, chosen, warned, default, madeFor>>

\* Bounds: two classical registers of at most two bits; three measured bits; all
\* shots are alike.
MeasurementKey == [creg_idx : 0..1, creg_len : 1..2, clbit_idx : 0..1]
Measurement == [key : MeasurementKey, bit : {"0", "1"}]
MaxShots == 2
NoBits == <<<<"IndexError">>>>

\* measurement_results, in the order of the dictionary.
Measurements ==
  {d \in BoundedSeq({m \in Measurement : m.key.clbit_idx < m.key.creg_len}, 3) :
     \A i, j \in DOMAIN d :
        d[i].key.creg_idx = d[j].key.creg_idx =>
          /\ d[i].key.creg_len = d[j].key.creg_len
          /\ i # j => d[i].key.clbit_idx # d[j].key.clbit_idx}

Registers(d) == {m.key.creg_idx : m \in ToSet(d)}
Of(d, r) == {m \in ToSet(d) : m.key.creg_idx = r}
Length(d, r) == (CHOOSE m \in Of(d, r) : TRUE).key.creg_len

\* MUTANT of InOrder: the registers are taken as they come.
AsTheyCome(d) == [i \in 1..Cardinality(Registers(d)) |->
                    IF i = 1 THEN d[1].key.creg_idx ELSE 1 - d[1].key.creg_idx]

InOrder(d) == SetToSortSeq(Registers(d), <)

\* A bit of a register that was not measured is a zero.
creg(d, r) ==
  [i \in 1..Length(d, r) |->
     IF \E m \in Of(d, r) : m.key.clbit_idx = i - 1
     THEN (CHOOSE m \in Of(d, r) : m.key.clbit_idx = i - 1).bit
     ELSE "0"]

bitstring(d) ==
  LET rs == InOrder(d)
      joined == [i \in DOMAIN rs |-> (IF i = 1 THEN <<>> ELSE <<" ">>) \o creg(d, rs[i])]
  IN Reverse(FlattenSeq(joined))

\* IQMJobCustom.result of a job that has completed.  With fewer shots than were asked
\* for, an index is out of range; of more, the first are shown.
_format_single_circuit_results(d, came, shots) ==
  IF d # <<>> /\ came < shots THEN NoBits
                              ELSE [s \in 1..shots |-> bitstring(d)]

\* Bound: of one backend.
result ==
  /\ slurm = <<<<>>>> /\ named = NoName /\ ordered = "first" /\ default = "first"
  /\ runsWith # "none" /\ measured = <<>>
  /\ \E d \in Measurements, came, shots \in 0..MaxShots :
       /\ measured' = <<d, shots>>
       /\ shown' = _format_single_circuit_results(d, came, shots)
  /\ UNCHANGED <<slurm, named, ordered, chosen, warned, default, madeFor, runsWith>>

-----------------------------------------------------------------------------

IqmTypeOK ==
  /\ slurm \in BoundedSeq(Name, 2)
  /\ {named, chosen} \subseteq Name \cup {NoName}
  /\ ordered \in Set \cup {"default"} /\ default \in Set
  /\ {madeFor, runsWith} \subseteq Set \cup {"none"}
  /\ warned \in BOOLEAN

IqmInit(asks) ==
  /\ slurm \in IF asks THEN BoundedSeq(Name, 2) ELSE {<<>>}
  /\ named \in IF asks THEN Name \cup {NoName} ELSE {NoName}
  /\ ordered \in IF asks THEN Set \cup {"default"} ELSE {"default"}
  /\ chosen = NoName /\ warned = FALSE
  /\ default = "first"
  /\ madeFor = "none" /\ runsWith = "none"
  /\ measured = <<>> /\ shown = <<>>

IqmNext == get_backend \/ DefaultChanges \/ run \/ result

-----------------------------------------------------------------------------
(* Properties. *)

\* The backend is the quantum computer that is named, or the job's first one if it says
\* so or none was named.  A name has a colon in it at most once, after its last word but
\* one: another one becomes the name of another computer.
RightComputer ==
  LET wanted == IF Listed THEN named ELSE slurm[1]
      written == wanted # <<>> /\ wanted[Len(wanted)] = ":"
      colons == Len(SelectSeq(wanted, LAMBDA c : c = ":"))
  IN chosen # NoName =>
       /\ written /\ colons = 1 => chosen = wanted
       /\ named \notin {NoName} \cup ToSet(slurm) => warned

\* A request is for the set that get_backend was given, though the default has changed.
RightSet == ordered # "default" /\ runsWith # "none" => runsWith = ordered

\* In a string of bits the first bit of the first measured register is the last.
RightBits ==
  measured # <<>> /\ shown # NoBits =>
    LET d == measured[1]
        before(r) == IF r = 1 /\ 0 \in Registers(d) THEN Length(d, 0) + 1 ELSE 0
        place(m) == before(m.key.creg_idx) + m.key.clbit_idx
    IN /\ Len(shown) = measured[2]
       /\ \A s \in DOMAIN shown, m \in ToSet(d) :
            shown[s][Len(shown[s]) - place(m)] = m.bit

IqmAgrees == RightComputer /\ RightSet /\ RightBits
=============================================================================
