------------------------------ MODULE LuaCall ------------------------------
(***************************************************************************)
(* One call after another of the functions that lua/lua_qrmi.c gives to    *)
(* Lua: what each takes from the C interface and gives back, and when it   *)
(* uses the texts and the handle of the program.  A function is a sequence *)
(* of steps.  Lua runs code of the program in some of them: the __index of *)
(* a payload's table.                                                      *)
(*                                                                         *)
(* LuaBinding is about the sessions that these functions open and release. *)
(***************************************************************************)
EXTENDS Sequences

VARIABLES
  method,     \* the function that is called
  rest,       \* the steps it has not taken
  holds,      \* what the C interface has given it, and it has not freed
  usable,     \* is the handle of the userdata that the program calls not NULL?
  passed,     \* the handle was read before the fields of a payload
  anchored,   \* the texts of the program on the stack of Lua
  slip        \* history: what this call has done wrong

callVars == <<method, rest, holds, usable, passed, anchored, slip>>

-----------------------------------------------------------------------------
(* Steps.  An object of C is named for the variable that it is kept in. *)

\* check_resource and check_config.
Check == <<[do |-> "check"]>>

\* An argument, or the field of a table: the function raises when it is not of the
\* type that it should be.
Argument(x) == <<[do |-> "argument", text |-> x]>>
Field(x) == <<[do |-> "field", text |-> x]>>

\* A value that is nil when there is none.
Ask(gives, steps) == <<[do |-> "ask", gives |-> gives, steps |-> steps]>>

Push(x) == <<[do |-> "push", of |-> x]>>
Free(x) == <<[do |-> "free", of |-> x]>>

\* A call of the C interface that is given those texts, and what follows when it
\* fails.
Call(texts, gives, failed) ==
  <<[do |-> "call", texts |-> texts, gives |-> gives, failed |-> failed]>>

\* lua_settop: the texts of the payload are not on the stack any more.
Settle == <<[do |-> "settle"]>>

\* The userdata is made, and has what is in the variable handle.
Keep == <<[do |-> "keep"]>>

\* The function returns nil and a text of its own.
Refuses == <<[do |-> "refuses"]>>

\* MUTANT of Moved: the string is freed before Lua has copied it.
FreedFirst(x) == Free(x) \o Push(x)

\* A string of C becomes one of Lua.
Moved(x) == Push(x) \o Free(x)

\* nil, and the thread's last error if there is one.
push_qrmi_error == Ask({"err"}, Moved("err"))

-----------------------------------------------------------------------------
(* The functions. *)

\* The names that resource_type_from_string compares with, and the one that
\* l_resource_type and l_config_resource_def push, are never freed.
TypeName == Ask({"type_str"}, Push("type_str"))

build_config_map_from_table == <<[do |-> "build"]>>

l_qrmi_new ==
  Argument("id") \o Argument("type") \o TypeName \o Refuses
    \o Call({"id"}, {"handle"}, push_qrmi_error) \o Keep

\* The text of the error is not freed.
l_qrmi_new_from_config ==
  Argument("id") \o Argument("type") \o TypeName \o Refuses
    \o build_config_map_from_table
    \o Call({"id"}, {"handle"}, Free("pairs") \o Ask({"err"}, Push("err")))
    \o Free("pairs") \o Keep

l_qrmi_load_config ==
  Argument("filename") \o Call({"filename"}, {"handle"}, push_qrmi_error) \o Keep

l_config_resource_def ==
  Check \o Argument("id") \o Call({"id"}, {"def"}, push_qrmi_error)
    \o Push("def") \o TypeName \o Push("def") \o Free("def")

\* A method that is given those texts.
Method(texts, gives) == Call(texts, gives, push_qrmi_error)

l_is_accessible == Check \o Method({}, {})
l_resource_id == Check \o Method({}, {"id"}) \o Moved("id")
l_resource_type == Check \o Method({}, {}) \o TypeName
l_target == Check \o Method({}, {"target"}) \o Moved("target")

\* A session that is remembered is released first.
l_acquire ==
  Check \o Ask({}, Method({}, {})) \o Method({}, {"token"}) \o Moved("token")

l_release == Check \o Argument("token") \o Refuses \o Method({"token"}, {})

l_task_status == Check \o Argument("task_id") \o Method({"task_id"}, {})
l_task_stop == Check \o Argument("task_id") \o Method({"task_id"}, {})
l_task_result ==
  Check \o Argument("task_id") \o Method({"task_id"}, {"result"}) \o Moved("result")
l_task_logs ==
  Check \o Argument("task_id") \o Method({"task_id"}, {"logs"}) \o Moved("logs")

\* Bound: the metadata have one key.
l_metadata ==
  Check \o Method({}, {"metadata"})
    \o Call({}, {"keys"}, Free("metadata") \o push_qrmi_error)
    \o Ask({"value"}, Push("keys") \o Moved("value"))
    \o Free("keys") \o Free("metadata")

l_status ==
  Check \o Method({}, {"status"})
    \o Call({}, {}, Free("status") \o push_qrmi_error)
    \o Ask({"reason"}, Moved("reason")) \o Ask({"capacity"}, Moved("capacity"))
    \o Free("status")

\* The fields of a payload are read, and the task is started with the texts of them.
Submit(fields, texts) ==
  fields \o Method(texts, {"task_id"}) \o Settle \o Moved("task_id")

submit_qiskit_primitive_payload ==
  Submit(Field("input") \o Field("program_id"), {"input", "program_id"})
submit_iqm_server_payload ==
  Submit(Field("iqmjson") \o Field("job_type") \o Field("use_timeslot") \o Field("tag"),
         {"iqmjson", "job_type", "tag"})
submit_oqtopus_payload == Submit(Field("job_spec"), {"job_spec"})
submit_pasqal_payload == Submit(Field("sequence") \o Field("job_runs"), {"sequence"})
submit_alice_bob_felis_payload ==
  Submit(Field("human_qir") \o Field("input_params"), {"human_qir", "input_params"})

\* The handle is an argument, and the fields are read after it; maestro_u32 may raise.
qrmi_lua_submit_maestro_payload ==
  <<[do |-> "pass"]>> \o Submit(Field("input") \o Field("qubits"), {"input"})

\* A payload of that kind, or one of none.
l_task_start(submit) == Check \o Field("variant") \o Refuses \o submit

Steps ==
  [new |-> l_qrmi_new, new_from_config |-> l_qrmi_new_from_config,
   load_config |-> l_qrmi_load_config, resource_def |-> l_config_resource_def,
   is_accessible |-> l_is_accessible, id |-> l_resource_id, type |-> l_resource_type,
   acquire |-> l_acquire, release |-> l_release, target |-> l_target,
   task_status |-> l_task_status, task_stop |-> l_task_stop,
   task_result |-> l_task_result, task_logs |-> l_task_logs,
   metadata |-> l_metadata, status |-> l_status,
   task_start_qiskit |-> l_task_start(submit_qiskit_primitive_payload),
   task_start_iqm |-> l_task_start(submit_iqm_server_payload),
   task_start_oqtopus |-> l_task_start(submit_oqtopus_payload),
   task_start_pasqal |-> l_task_start(submit_pasqal_payload),
   task_start_felis |-> l_task_start(submit_alice_bob_felis_payload),
   task_start_maestro |-> l_task_start(qrmi_lua_submit_maestro_payload)]

Makes == {"new", "new_from_config", "load_config"}

-----------------------------------------------------------------------------
(* The state. *)

CallTypeOK ==
  /\ method \in DOMAIN Steps \cup {"none"}
  /\ {usable, passed} \subseteq BOOLEAN
  /\ slip \subseteq {"stale handle", "lost text", "freed string"}

CallInit ==
  /\ method = "none" /\ rest = << >>
  /\ holds = {} /\ usable = FALSE /\ passed = FALSE /\ anchored = {}
  /\ slip = {}

\* The program calls a function.
Begins ==
  /\ rest = << >>
  /\ \E m \in DOMAIN Steps :
        /\ m \in Makes => ~usable
        /\ method' = m /\ rest' = Steps[m]
  /\ holds' = {} /\ passed' = FALSE /\ anchored' = {} /\ slip' = {}
  /\ UNCHANGED usable

\* free, and __gc: release_resource and release_config.
Frees ==
  /\ rest = << >> /\ usable
  /\ usable' = FALSE
  /\ UNCHANGED <<method, rest, holds, passed, anchored, slip>>

Does(kind) == rest # << >> /\ Head(rest).do = kind

GoesOn == rest' = Tail(rest)
Returns == rest' = << >>

-----------------------------------------------------------------------------
(* How each step is taken.  luaL_error returns at once. *)

Checks ==
  /\ Does("check")
  /\ IF usable THEN GoesOn ELSE Returns
  /\ UNCHANGED <<method, holds, usable, passed, anchored, slip>>

ReadsArgument ==
  /\ Does("argument")
  /\ \/ GoesOn /\ anchored' = anchored \cup {Head(rest).text}
     \/ Returns /\ UNCHANGED anchored
  /\ UNCHANGED <<method, holds, usable, passed, slip>>

\* A metamethod may call any function of the module: it may free the resource.
ReadsField ==
  /\ Does("field")
  /\ \/ GoesOn /\ anchored' = anchored \cup {Head(rest).text}
     \/ Returns /\ UNCHANGED anchored
  /\ usable' \in {usable, FALSE}
  /\ UNCHANGED <<method, holds, passed, slip>>

\* C refuses NULL.  A handle that was read before is used whatever has become of it
\* since.
Calls ==
  /\ Does("call")
  /\ \/ /\ method \in Makes \/ passed \/ usable
        /\ GoesOn
        /\ holds' = holds \cup Head(rest).gives
     \/ rest' = Head(rest).failed /\ UNCHANGED holds
  /\ slip' = slip \cup (IF passed /\ ~usable THEN {"stale handle"} ELSE {})
                  \cup (IF Head(rest).texts \subseteq anchored THEN {} ELSE {"lost text"})
  /\ UNCHANGED <<method, usable, passed, anchored>>

Asks ==
  /\ Does("ask")
  /\ \/ rest' = Head(rest).steps \o Tail(rest) /\ holds' = holds \cup Head(rest).gives
     \/ GoesOn /\ UNCHANGED holds
  /\ UNCHANGED <<method, usable, passed, anchored, slip>>

Pushes ==
  /\ Does("push")
  /\ GoesOn
  /\ slip' = slip \cup (IF Head(rest).of \in holds THEN {} ELSE {"freed string"})
  /\ UNCHANGED <<method, holds, usable, passed, anchored>>

FreesOne ==
  /\ Does("free")
  /\ GoesOn
  /\ holds' = holds \ {Head(rest).of}
  /\ UNCHANGED <<method, usable, passed, anchored, slip>>

\* An entry that is no text, or no memory: what there is of the copy is freed first.
Builds ==
  /\ Does("build")
  /\ \/ GoesOn /\ holds' = holds \cup {"pairs"}
     \/ Returns /\ UNCHANGED holds
  /\ UNCHANGED <<method, usable, passed, anchored, slip>>

Keeps ==
  /\ Does("keep")
  /\ GoesOn
  /\ holds' = holds \ {"handle"}
  /\ usable' = TRUE
  /\ UNCHANGED <<method, passed, anchored, slip>>

RefusesOrNot ==
  /\ Does("refuses")
  /\ GoesOn \/ Returns
  /\ UNCHANGED <<method, holds, usable, passed, anchored, slip>>

Passes ==
  /\ Does("pass")
  /\ GoesOn
  /\ passed' = usable
  /\ UNCHANGED <<method, holds, usable, anchored, slip>>

Settles ==
  /\ Does("settle")
  /\ GoesOn
  /\ anchored' = {}
  /\ UNCHANGED <<method, holds, usable, passed, slip>>

CallNext ==
  \/ Begins \/ Frees \/ Checks \/ ReadsArgument \/ ReadsField \/ Calls \/ Asks \/ Pushes
  \/ FreesOne \/ Builds \/ Keeps \/ RefusesOrNot \/ Passes \/ Settles

-----------------------------------------------------------------------------
(* Properties. *)

\* However a function ends, it has freed what C gave it: except the names of types,
\* and the text of the error of new_from_config.  It uses no string that it has freed
\* and no text that Lua may collect, and no handle that was freed: except that the
\* fields of a Maestro payload are read after the handle.
CallsTidy ==
  /\ rest = << >> =>
       holds \subseteq {"type_str"} \cup (IF method = "new_from_config" THEN {"err"} ELSE {})
  /\ slip \subseteq IF method = "task_start_maestro" THEN {"stale handle"} ELSE {}
=============================================================================
