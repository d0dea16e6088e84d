------------------------------ MODULE Payloads ------------------------------
(***************************************************************************)
(* How what a program is given becomes the payload of task_start, and      *)
(* whether the resource takes it.  The task runners in Rust and in Python  *)
(* read the same input files; a Lua program gives a table, a C program a   *)
(* structure.  A Maestro file is either a request of schema 2, in one of   *)
(* three envelopes, or a legacy submission: each runner has a reader of    *)
(* its own for these.                                                      *)
(***************************************************************************)
EXTENDS Integers, FiniteSets

VARIABLES
  type,       \* the type of the resource
  input,      \* what the program is given
  sent        \* what each interface makes of it

payloadVars == <<type, input, sent>>

Ibm == {"ibm-quantum-system", "ibm-quantum-compute-service", "qiskit-runtime-service"}
Pasqal == {"pasqal-cloud", "pasqal-local"}
PayloadType == Ibm \cup Pasqal
                 \cup {"iqm-server", "alice-bob-felis", "oqtopus", "maestro-local"}
Front == {"qrmi_task_runner", "main.py", "Lua", "C"}

\* Integers of the width that the payload has: 3 bits stand for 32.
Half == 4
Width32(n) == -Half <= n /\ n < Half

\* The conversion (int32_t) of C.
Wrap(n) == ((n + Half) % (2 * Half)) - Half

Refused == [kind |-> "refused"]
Payload(kind, runs, text) == [kind |-> kind, runs |-> runs, text |-> text]

-----------------------------------------------------------------------------
(* Input for a vendor: the fields that its type has a use for, one of which may be *)
(* missing.                                                                         *)

VendorInput ==
  [missing : {"none", "parameters", "program_id", "job_runs", "sequence", "human_qir",
              "input_params", "iqmjson", "job_type", "use_timeslot", "tag", "job_spec"},
   runs : {-1, Half - 1, Half, 2 * Half + 1},   \* job_runs
   form : {"string", "object"},                 \* of sequence, human_qir or iqmjson
   program : {"primitive", "executor"}]         \* program_id

Has(i, fields) == i.missing \notin fields

\* The payload that the task_start of a resource takes (let Payload::... = payload).
Takes(t) ==
  CASE t \in Ibm -> "QiskitPrimitive"
    [] t \in Pasqal -> "PasqalCloud"
    [] t = "iqm-server" -> "IQMServer"
    [] t = "alice-bob-felis" -> "AliceBobFelis"
    [] t = "oqtopus" -> "Oqtopus"
    [] t = "maestro-local" -> "MaestroLocal"

\* ResourceType::new and to_payload: program_id is one of the two primitives,
\* parameters any value, sequence a string, job_runs an i32.
QrmiTaskRunner(t, i) ==
  CASE t \in Ibm /\ Has(i, {"parameters", "program_id"}) /\ i.program = "primitive" ->
         Payload("QiskitPrimitive", i.runs, "given")
    [] t \in Pasqal /\ Has(i, {"job_runs", "sequence"}) /\ i.form = "string" /\ Width32(i.runs) ->
         Payload("PasqalCloud", i.runs, "given")
    [] OTHER -> Refused

\* json.dumps of a string is the string in quotes.
Quoted(i) == IF i.form = "string" THEN "quoted" ELSE "given"

\* App._run: RESOURCE_TYPE_MAP has neither pasqal-local nor oqtopus.
MainPy(t, i) ==
  CASE t \in Ibm /\ Has(i, {"parameters", "program_id"}) ->
         Payload("QiskitPrimitive", i.runs, "given")
    [] t = "iqm-server" /\ Has(i, {"iqmjson", "use_timeslot", "tag", "job_type"}) ->
         Payload("IQMServer", i.runs, Quoted(i))
    [] t = "alice-bob-felis" /\ Has(i, {"human_qir", "input_params"}) ->
         Payload("AliceBobFelis", i.runs, Quoted(i))
    [] t = "pasqal-cloud" /\ Has(i, {"sequence", "job_runs"}) /\ Width32(i.runs) ->
         Payload("PasqalCloud", i.runs, Quoted(i))
    [] OTHER -> Refused

\* In Lua and C, texts are strings.  A Lua program names the variant by the key of
\* its table.
Submits(i, fields, payload) ==
  IF Has(i, fields) /\ i.form = "string" THEN payload ELSE Refused

submit_qiskit_primitive_payload(i) ==
  Submits(i, {"parameters", "program_id"}, Payload("QiskitPrimitive", i.runs, "given"))

\* use_timeslot and tag may be left out.
submit_iqm_server_payload(i) ==
  Submits(i, {"iqmjson", "job_type"}, Payload("IQMServer", i.runs, "given"))

submit_oqtopus_payload(i) ==
  Submits(i, {"job_spec"}, Payload("Oqtopus", i.runs, "given"))

submit_alice_bob_felis_payload(i) ==
  Submits(i, {"human_qir", "input_params"}, Payload("AliceBobFelis", i.runs, "given"))

submit_pasqal_payload(i) ==
  Submits(i, {"sequence", "job_runs"}, Payload("PasqalCloud", Wrap(i.runs), "given"))

l_task_start(t, i) ==
  CASE t \in Ibm -> submit_qiskit_primitive_payload(i)
    [] t = "iqm-server" -> submit_iqm_server_payload(i)
    [] t \in Pasqal -> submit_pasqal_payload(i)
    [] t = "alice-bob-felis" -> submit_alice_bob_felis_payload(i)
    [] t = "oqtopus" -> submit_oqtopus_payload(i)

\* The structure has every field of its variant, in its width.
CStructure(t, i) ==
  IF i.missing = "none" /\ i.form = "string" /\ Width32(i.runs)
  THEN Payload(Takes(t), i.runs, "given") ELSE Refused

FromVendorInput(f, t, i) ==
  CASE f = "qrmi_task_runner" -> QrmiTaskRunner(t, i)
    [] f = "main.py" -> MainPy(t, i)
    [] f = "Lua" -> l_task_start(t, i)
    [] f = "C" -> CStructure(t, i)

-----------------------------------------------------------------------------
(* Input for Maestro: a document. *)

\* A request inside an envelope: one of schema 2, one that contains the fields of an
\* envelope or of another vendor, one whose schema_version is 2.0, anything else.
Request == {"native", "mixed", "2.0", "other"}

\* "absent": the document does not have the field.  A request may be given as an
\* object or as the string that it serializes to; "native string" is the one where
\* this matters, since a legacy input is a string.  A config that is the string of
\* an object counts as the object, and "text" is any other string.  "other" is a
\* value that no reader has a use for, for qubits one that is no u32.  The fields
\* simulator_type and simulation_method are there and u32.
Document ==
  [request : {"absent"} \cup Request,
   schema_version : {"absent", "2", "2.0", "other"},
   foreign : BOOLEAN,      \* a field of another vendor's payload
   unknown : BOOLEAN,      \* any other field, like circuits of a native request
   job_type : {"absent", "request", "execute", "estimate", "other"},
   input : {"absent", "text", "native string"} \cup Request,
   qubits : {"absent", "positive", "zero", "other"},
   observables : {"absent", "string", "other"},
   config : {"absent", "object", "text", "other"}]

Legacy == {"job_type", "input", "qubits", "observables", "config"}
Present(d, fields) == {k \in fields : d[k] # "absent"}

\* Bound: in a document with a request, one other field at most is one that another
\* envelope has, and no document has fields both of other vendors and unknown.
Given ==
  {d \in Document :
     /\ ~(d.foreign /\ d.unknown)
     /\ d.request # "absent" => Cardinality(Present(d, Legacy \cup {"schema_version"})) <= 1}

\* What the document is as a request.
Self(d) ==
  IF d.schema_version \in {"2", "2.0"} /\ Present(d, Legacy \ {"observables"}) # {}
  THEN "mixed"
  ELSE IF d.schema_version = "2" THEN "native" ELSE d.schema_version

Native(doc) == [kind |-> "MaestroLocal", job_type |-> "request", doc |-> doc]
LegacyJob(d) ==
  [kind |-> "MaestroLocal", job_type |-> d.job_type, qubits |-> d.qubits,
   observables |-> d.observables, config |-> d.config]

\* MUTANT of MaestroEnvelope: an unknown field is let through.
MaestroEnvelopeLax(d) ==
  /\ ~d.foreign
  /\ d.request # "absent" =>
       ~d.unknown /\ Present(d, Legacy \cup {"schema_version"}) = {}

\* maestro_input, up to the choice of the request.
MaestroEnvelope(d) ==
  /\ ~d.foreign
  /\ d.request # "absent" =>
       ~d.unknown /\ Present(d, Legacy \cup {"schema_version"}) = {}
  /\ d.request = "absent" /\ d.schema_version = "absent" => ~d.unknown

MaestroNative(d) ==
  CASE d.request # "absent" -> d.request
    [] d.request = "absent" /\ d.schema_version # "absent" -> Self(d)
    [] d.request = "absent" /\ d.schema_version = "absent" /\ d.job_type = "request" ->
         IF d.input = "native string" THEN "native" ELSE d.input
    [] OTHER -> "legacy"

\* A null config is one that is absent.
MaestroLegacy(d) ==
  /\ d.job_type \in {"execute", "estimate"}
  /\ d.config # "other"
  /\ d.qubits = "positive" /\ d.input \in {"text", "native string"}
  /\ d.observables # "other"

maestro_input(d) ==
  CASE MaestroEnvelope(d) /\ MaestroNative(d) = "native" -> Native("native")
    [] MaestroEnvelope(d) /\ MaestroNative(d) = "legacy" /\ MaestroLegacy(d) -> LegacyJob(d)
    [] OTHER -> Refused

\* In Python, 2.0 equals 2.
native_document(r) ==
  IF r \in {"native", "native string"} THEN Native("native")
  ELSE IF r = "2.0" THEN Native("2.0") ELSE Refused

payload_from_legacy(d) ==
  IF /\ d.job_type \in {"execute", "estimate"}
     /\ Present(d, {"input", "qubits"}) = {"input", "qubits"}
     /\ d.input \in {"text", "native string"}
     /\ d.qubits = "positive"
     /\ d.config # "other"
     /\ d.observables # "other"      \* the constructor of the payload raises TypeError
  THEN LegacyJob(d) ELSE Refused

payload_from_input(d) ==
  CASE d.foreign -> Refused
    [] ~d.foreign /\ d.request # "absent" ->
         IF d.unknown \/ Present(d, Legacy \cup {"schema_version"}) # {} THEN Refused
         ELSE native_document(d.request)
    [] ~d.foreign /\ d.request = "absent" /\ d.schema_version # "absent" ->
         native_document(Self(d))
    [] OTHER ->
         IF d.unknown THEN Refused
         ELSE IF d.job_type = "request" THEN native_document(d.input)
         ELSE payload_from_legacy(d)

\* What payload_from_c makes of a structure: any strings will do; a field that is
\* absent is NULL or 0.
CMaestro(d) ==
  CASE \/ d.input \notin {"text", "native string"}
       \/ d.job_type = "absent"
       \/ "other" \in {d.observables, d.config, d.qubits} -> Refused
    [] OTHER -> IF d.job_type = "request"
                THEN Native(IF d.input = "text" THEN "other" ELSE "native")
                ELSE LegacyJob(d)

\* qrmi_lua_submit_maestro_payload: job_type and qubits may be left out, and the
\* table may have fields that nobody reads; maestro_u32 rejects what is no u32, but
\* is not asked about a request.
TableJob(d) ==
  [d EXCEPT !.job_type = IF @ = "absent" THEN "execute" ELSE @,
            !.qubits = IF @ = "absent" \/ d.job_type = "request" THEN "zero" ELSE @]
LuaMaestro(d) == CMaestro(TableJob(d))

\* What the task_start of MaestroLocal submits.
Submission(p) ==
  CASE p = Refused -> Refused
    [] p # Refused /\ p.job_type = "request" -> IF p.doc = "native" THEN p ELSE Refused
    [] OTHER -> IF /\ p.job_type \in {"execute", "estimate"}
                   /\ p.job_type = "estimate" => p.observables # "absent"
                   /\ p.qubits = "positive"
                   /\ p.config # "text"
                THEN p ELSE Refused

FromDocument(f, d) ==
  CASE f = "qrmi_task_runner" -> maestro_input(d)
    [] f = "main.py" -> payload_from_input(d)
    [] f = "Lua" -> LuaMaestro(d)
    [] f = "C" -> CMaestro(d)

-----------------------------------------------------------------------------
(* The program. *)

Unsent == [f \in Front |-> [kind |-> "none"]]

PayloadTypeOK ==
  /\ type \in PayloadType
  /\ DOMAIN sent = Front

\* A program that builds no payload has one initial state.
PayloadInit(builds) ==
  /\ CASE ~builds -> type = "oqtopus" /\ input = "none"
       [] builds -> \/ type = "maestro-local" /\ input \in Given
                    \/ type \in PayloadType \ {"maestro-local"} /\ input \in VendorInput
  /\ sent = Unsent

Build ==
  /\ sent = Unsent
  /\ sent' = [f \in Front |-> IF type = "maestro-local" THEN FromDocument(f, input)
                                                       ELSE FromVendorInput(f, type, input)]
  /\ UNCHANGED <<type, input>>

-----------------------------------------------------------------------------
(* Properties. *)

\* A resource is given the kind of payload that it takes, with the number of runs
\* and the text that the program has given: except that main.py quotes texts, and
\* that a number that is no int32_t wraps on its way from Lua to Pasqal.
PayloadArrives ==
  \A f \in Front : sent[f].kind \notin {"none", "refused"} =>
    /\ sent[f].kind = Takes(type)
    /\ type # "maestro-local" =>
         /\ sent[f].runs = input.runs \/ (f = "Lua" /\ type \in Pasqal /\ ~Width32(input.runs))
         /\ sent[f].text = "given" \/ (f = "main.py" /\ input.form = "string")

\* Both task runners have the same task run for the same file, or none: what only
\* main.py lets through (a schema_version of 2.0) the resource refuses.  A program
\* in C or Lua that fills in the fields of a legacy file gets the same task.  Both
\* runners make the same payload for a Qiskit primitive.
RunnersAgree ==
  LET rust == sent["qrmi_task_runner"]
      python == sent["main.py"]
      task == Submission(rust)
  IN sent # Unsent =>
       /\ type = "maestro-local" =>
            /\ task = Submission(python)
            /\ task # Refused /\ rust.job_type # "request" =>
                 Submission(sent["C"]) = task /\ Submission(sent["Lua"]) = task
       /\ type \in Ibm /\ input.program = "primitive" => rust = python
=============================================================================
