------------------------------ MODULE Settings ------------------------------
(***************************************************************************)
(* Where a resource takes its settings from.  A constructor reads them     *)
(* once: new from the environment, where a setting has the name of its     *)
(* backend as a prefix, from_config from a map, where it has not.  For     *)
(* Pasqal Cloud there is a configuration file below one of several roots,  *)
(* too, and OQTOPUS loads a library of Python.  Two resources read         *)
(* settings later: the session of Pasqal Local and what task_start and     *)
(* task_result of the IBM Quantum System need.                             *)
(***************************************************************************)
EXTENDS Naturals, Sequences, SequencesExt

VARIABLES
  maker,       \* the resource that is made
  from,        \* "env": new; "map": from_config
  given,       \* what each place holds, "none" if nothing
  files,       \* the lines of the configuration file in each directory that has one it can
               \* read; what the directories of PYTHONHOME have
  took,        \* the place each setting was taken from
  readFile,    \* the directory whose file was read, or "none"
  ended,       \* how the constructor ended: <<"">> before that, <<"made">>, or an error
  asMade,      \* history: given when the constructor ran
  used         \* what a later use came to: <<"">> before that, a place or an error

settingVars == <<maker, from, given, files, took, readFile, ended, asMade, used>>

\* A place: where it is ("backend": an environment variable with the prefix of the
\* backend, "global": one without; "map" and "lower": a key of the map as it is and in
\* lower case; "file") and the name of the setting.
Nowhere == <<"nowhere", "">>

Backend(name) == <<"backend", name>>
Global(name) == <<"global", name>>
Linker(name) == <<"linker", name>>   \* what the dynamic linker finds

NotYet == <<"">>
Made == <<"made">>

-----------------------------------------------------------------------------
(* Looking up. *)

First(places, Counts(_)) ==
  LET those == SelectSeq(places, Counts) IN IF those = << >> THEN Nowhere ELSE those[1]

Holds(place) == place \in DOMAIN given /\ given[place] # "none"

\* MUTANT of resolve_opt: what the map lacks comes from the environment.
resolve_opt_env(key) ==
  First(IF from = "map" THEN <<<<"map", key[2]>>, <<"lower", key[2]>>, key>> ELSE <<key>>, Holds)

\* One key of the environment; the map's keys have no prefix.
resolve_opt(key) ==
  First(IF from = "map" THEN <<<<"map", key[2]>>, <<"lower", key[2]>>>> ELSE <<key>>, Holds)

resolve_opt_required_any(keys) ==
  First([k \in DOMAIN keys |-> resolve_opt(keys[k])], LAMBDA p : p # Nowhere)

\* OQTOPUS looks a key up as it is.
lookup(key) == First(<<IF from = "map" THEN <<"map", key[2]>> ELSE key>>, Holds)

-----------------------------------------------------------------------------
(* What the constructors read, in this order.  A read takes the first of its keys *)
(* that is given.  "required": nothing is an error.  "number" has to be one, if    *)
(* there is one, and "decoded" to be an API key; "lenient" is a number or is left. *)

Read(name, keys, how) == [name |-> name, keys |-> keys, how |-> how]
Required(name) == Read(name, <<Backend(name)>>, {"required"})
Optional(name) == Read(name, <<Backend(name)>>, {})

IqmReads == <<Required("ENDPOINT"), Required("TOKEN"), Optional("ACQUISITION_TOKEN")>>

FelisReads ==
  LET key(name, how) == Read(name, <<Backend(name), Global(name)>>, how)
  IN <<key("API_KEY", {"required"}), key("ENDPOINT", {"required"}), key("API_KEY", {"decoded"})>>

PasqalLocalReads ==
  <<Read("WARDEN_URL", <<Backend("WARDEN_URL"), Backend("URL")>>, {"required"}),
    Read("JOB_UID", <<Global("JOB_UID")>>, {"required", "number"}),
    Read("JOB_ID", <<Global("JOB_ID")>>, {"required"}),
    Optional("ACQUISITION_TOKEN")>>

QuantumComputeReads ==
  <<Required("ENDPOINT"), Required("IAM_ENDPOINT"), Required("IAM_APIKEY"),
    Required("SERVICE_CRN"), Optional("SESSION_MODE"),
    Read("SESSION_MAX_TTL", <<Backend("SESSION_MAX_TTL")>>, {"lenient"}),
    Read("TIMEOUT", <<Backend("TIMEOUT"), Backend("JOB_TIMEOUT")>>, {"lenient"}),
    Read("SESSION_ID", <<Backend("SESSION_ID"), Backend("ACQUISITION_TOKEN")>>, {})>>

\* The deprecated service reads its own names in the same way.
QiskitRuntimeReads == QuantumComputeReads

QuantumSystemReads ==
  <<Required("ENDPOINT"), Required("IAM_APIKEY"), Required("SERVICE_CRN"),
    Required("IAM_ENDPOINT"), Optional("S3_ENDPOINT_FOR_QSAPI")>>

s3_env_reads ==
  <<Required("S3_BUCKET"), Required("S3_ENDPOINT"), Required("AWS_ACCESS_KEY_ID"),
    Required("AWS_SECRET_ACCESS_KEY"), Required("S3_REGION")>>

\* PROXY and API_TOKEN are read as URL is, the retries' numbers as TIMEOUT.
OqtopusReads ==
  <<Optional("URL"), Read("TIMEOUT", <<Backend("TIMEOUT")>>, {"number"}),
    Read("RETRY_STATUS_CODES", <<Backend("RETRY_STATUS_CODES")>>, {"numbers"})>>

\* An empty list of numbers is one.
Parses(place, how) ==
  /\ how \cap {"number", "decoded"} # {} => given[place] = "good"
  /\ "numbers" \in how => given[place] \in {"good", "blank"}

Place(keys) ==
  IF maker = "OQTOPUS" THEN lookup(keys[1]) ELSE resolve_opt_required_any(keys)

\* The first error ends the reading.
OneRead(so, read) ==
  LET place == Place(read.keys)
      taken == IF "lenient" \in read.how /\ place # Nowhere /\ given[place] # "good"
               THEN Nowhere ELSE place
  IN IF so.ended # Made THEN so
     ELSE IF place = Nowhere /\ "required" \in read.how
     THEN [so EXCEPT !.ended = <<"missing", read.name>>]
     ELSE IF place # Nowhere /\ ~Parses(place, read.how)
     THEN [so EXCEPT !.ended = <<"invalid", read.name>>]
     ELSE [so EXCEPT !.took = (read.name :> taken) @@ @]

ReadAll(reads) == FoldLeft(OneRead, [ended |-> Made, took |-> << >>], reads)

-----------------------------------------------------------------------------
(* Pasqal Cloud. *)

\* A root is a directory, "~", a path of a variable that is not set ("unset"), blank
\* or malformed ("bad").  What is not set is left out, and what remains is relative.
expand_config_root(root) ==
  CASE root = "~" -> IF Holds(Global("HOME"))
                     THEN IF given[Global("HOME")] = "blank" THEN "cwd" ELSE "home"
                     ELSE "no such directory"
    [] root = "unset" -> "cwd"
    [] OTHER -> root

\* "none": there is no root, or it is blank.
pasqal_config_path_from_root(place) ==
  IF place = Nowhere \/ given[place] = "blank" THEN "none" ELSE expand_config_root(given[place])

explicit_root ==
  LET root == pasqal_config_path_from_root(resolve_opt(Global("CONFIG_ROOT")))
  IN IF root = "none" /\ from = "env"
     THEN pasqal_config_path_from_root(resolve_opt(Backend("CONFIG_ROOT")))
     ELSE root

home_root == pasqal_config_path_from_root(resolve_opt(Global("HOME")))

\* MUTANT of config_file: the home directory comes first.
home_config_file ==
  LET readable == SelectSeq(<<home_root, explicit_root>>, LAMBDA d : d \in DOMAIN files)
  IN IF readable = << >> THEN "none" ELSE readable[1]

\* The directory of the first file that can be read.
config_file ==
  LET readable == SelectSeq(<<explicit_root, home_root>>, LAMBDA d : d \in DOMAIN files)
  IN IF readable = << >> THEN "none" ELSE readable[1]

\* A line has a key ("": none, "#": it is a comment, or has no equals sign) and a value:
\* "good", "quoted", "blank", or a single quotation mark, which strip_quotes cannot take.
strip_quotes(value) == IF value = "quoted" THEN "good" ELSE value

\* The last value of a key counts.
parse_pasqal_config_content(lines) ==
  FoldLeft(LAMBDA so, line : (line.key :> strip_quotes(line.value)) @@ so, << >>,
           SelectSeq(lines, LAMBDA l : l.key \notin {"#", ""}))

\* The value is looked at before the key.
Panics(lines) == \E k \in DOMAIN lines : lines[k].key # "#" /\ lines[k].value = "quote"

\* A blank value is none, here and in the file.
resolve_backend_prefixed_param(key) ==
  LET place == resolve_opt(key)
  IN IF place # Nowhere /\ given[place] = "blank" THEN Nowhere ELSE place

InFile(name) ==
  /\ config_file # "none"
  /\ LET values == parse_pasqal_config_content(files[config_file])
     IN name \in DOMAIN values /\ values[name] # "blank"

OrFile(key) ==
  IF resolve_backend_prefixed_param(key) # Nowhere THEN resolve_backend_prefixed_param(key)
  ELSE IF InFile(key[2]) THEN <<"file", key[2]>> ELSE Nowhere

\* CLIENT_ID, CLIENT_SECRET, AUTH_TOKEN and AUTH_ENDPOINT are read as PROJECT_ID is.
CloudSettings ==
  [project_id |-> OrFile(Backend("PROJECT_ID")),
   base_url |-> resolve_backend_prefixed_param(Backend("BASE_URL")),
   username |-> OrFile(Global("USERNAME")),
   password |-> OrFile(Global("PASSWORD"))]

\* Half a pair of credentials is none.
from_pasqal_cloud_config ==
  LET all == CloudSettings
  IN IF all.username # Nowhere /\ all.password # Nowhere THEN all
     ELSE [all EXCEPT !.username = Nowhere, !.password = Nowhere]

read_pasqal_config ==
  IF "bad" \in {explicit_root, home_root} THEN [ended |-> <<"invalid", "CONFIG_ROOT">>, took |-> << >>]
  ELSE IF config_file # "none" /\ Panics(files[config_file]) THEN [ended |-> <<"panics">>, took |-> << >>]
  ELSE [ended |-> Made, took |-> from_pasqal_cloud_config]

-----------------------------------------------------------------------------
(* The library of Python that OQTOPUS loads.  The entries of a directory are        *)
(* "versioned" or "plain" libraries, "other" files and one whose name is not UTF-8. *)

\* The last versioned one, or the first of all.
find_libpython_in(entries) ==
  IF \E k \in DOMAIN entries : entries[k] = "not UTF-8" THEN "none"
  ELSE IF \E k \in DOMAIN entries : entries[k] = "versioned" THEN "versioned"
  ELSE IF \E k \in DOMAIN entries : entries[k] = "plain" THEN "plain"
  ELSE "none"

\* lib64 comes first.
pythonhome_lib_candidate ==
  LET in64 == find_libpython_in(files["lib64"])
  IN IF in64 # "none" THEN <<"lib64", in64>> ELSE <<"lib", find_libpython_in(files["lib"])>>

\* PYTHON_LIBRARY and PYTHONHOME are read from the environment by both constructors,
\* and nothing takes their place when they are of no use.
LibPython ==
  IF Holds(Global("PYTHON_LIBRARY"))
  THEN IF given[Global("PYTHON_LIBRARY")] = "good" THEN Global("PYTHON_LIBRARY") ELSE Nowhere
  ELSE IF Holds(Global("PYTHONHOME"))
  THEN IF pythonhome_lib_candidate[2] = "none" \/ given[Global("PYTHONHOME")] # "good"
       THEN Nowhere ELSE pythonhome_lib_candidate
  ELSE IF Holds(Linker("LIBPYTHON")) THEN Linker("LIBPYTHON") ELSE Nowhere

Oqtopus_from_opt ==
  LET config == ReadAll(OqtopusReads)
  IN IF config.ended # Made THEN config
     ELSE IF LibPython = Nowhere THEN [config EXCEPT !.ended = <<"missing", "LIBPYTHON">>]
     ELSE IF ~Holds(Linker("PY_BRIDGE")) THEN [config EXCEPT !.ended = <<"missing", "PY_BRIDGE">>]
     ELSE [config EXCEPT !.took = ("LIBPYTHON" :> LibPython) @@ @]

\* The bucket is all of its settings or none of them.
QuantumSystem_from_settings ==
  LET settings == ReadAll(QuantumSystemReads)
      s3_env == ReadAll(s3_env_reads)
  IN IF settings.ended = Made /\ s3_env.ended = Made
     THEN [settings EXCEPT !.took = s3_env.took @@ @] ELSE settings

Constructed ==
  CASE maker = "IQMServer" -> ReadAll(IqmReads)
    [] maker = "AliceBobFelis" -> ReadAll(FelisReads)
    [] maker = "PasqalLocal" -> ReadAll(PasqalLocalReads)
    [] maker = "PasqalCloud" -> read_pasqal_config
    [] maker = "IBMQuantumSystem" -> QuantumSystem_from_settings
    [] maker = "IBMQuantumComputeService" -> ReadAll(QuantumComputeReads)
    [] maker = "QiskitRuntimeService" -> ReadAll(QiskitRuntimeReads)
    [] maker = "OQTOPUS" -> Oqtopus_from_opt

\* Assumption: nobody changes the environment while a constructor reads it.
create_resource ==
  /\ ended = NotYet
  /\ ended' = Constructed.ended
  /\ took' = IF Constructed.ended = Made THEN Constructed.took ELSE << >>
  /\ asMade' = given
  /\ readFile' = IF maker = "PasqalCloud" THEN config_file ELSE "none"
  /\ UNCHANGED <<maker, from, given, files, used>>

-----------------------------------------------------------------------------
(* What may be given.  Bound: the settings of one subject are given in every way, of *)
(* the others those that are required, and are well.                                *)

Makers == {"IQMServer", "AliceBobFelis", "PasqalLocal", "PasqalCloud", "IBMQuantumSystem",
           "IBMQuantumComputeService", "QiskitRuntimeService", "OQTOPUS"}

OfPython == {"PYTHON_LIBRARY", "PYTHONHOME", "LIBPYTHON", "PY_BRIDGE"}

Subjects ==
  CASE maker = "IQMServer" -> {{"ENDPOINT", "TOKEN"}, {"ACQUISITION_TOKEN"}}
    [] maker = "AliceBobFelis" -> {{"API_KEY", "ENDPOINT"}}
    [] maker = "PasqalLocal" -> {{"WARDEN_URL", "URL"}, {"JOB_UID", "JOB_ID"}, {"ACQUISITION_TOKEN"}}
    [] maker = "PasqalCloud" ->
         {{"PROJECT_ID"}, {"BASE_URL"}, {"USERNAME", "PASSWORD"}, {"CONFIG_ROOT", "HOME"}}
    [] maker = "IBMQuantumSystem" ->
         {{"ENDPOINT", "IAM_ENDPOINT"}, {"S3_BUCKET", "S3_REGION"}, {"JOB_TIMEOUT"}}
    [] maker = "OQTOPUS" -> {{"URL"}, {"TIMEOUT"}, {"RETRY_STATUS_CODES"}}
                           \cup {names \in {OfPython} : from = "env"}
    [] OTHER -> {{"ENDPOINT", "SERVICE_CRN"}, {"SESSION_MAX_TTL"}, {"TIMEOUT", "JOB_TIMEOUT"},
                 {"SESSION_ID", "ACQUISITION_TOKEN"}}

WellGiven ==
  CASE maker = "PasqalLocal" -> {"WARDEN_URL", "JOB_UID", "JOB_ID"}
    [] maker = "IQMServer" -> {"ENDPOINT", "TOKEN"}
    [] maker = "AliceBobFelis" -> {}
    [] maker = "PasqalCloud" -> {"CONFIG_ROOT"}
    [] maker = "OQTOPUS" -> OfPython \ {"PYTHON_LIBRARY", "PYTHONHOME"}
    [] OTHER -> {"ENDPOINT", "IAM_ENDPOINT", "IAM_APIKEY", "SERVICE_CRN", "S3_BUCKET",
                 "S3_ENDPOINT", "AWS_ACCESS_KEY_ID", "AWS_SECRET_ACCESS_KEY", "S3_REGION"}

Values(name) ==
  CASE name = "CONFIG_ROOT" -> {"none", "blank", "bad", "dir", "~", "unset"}
    [] name = "HOME" -> {"none", "blank", "bad", "home"}
    [] name \in {"PROJECT_ID", "BASE_URL", "USERNAME", "PASSWORD"} -> {"none", "blank", "good"}
    [] name \in {"JOB_UID", "API_KEY", "SESSION_MAX_TTL", "TIMEOUT", "JOB_TIMEOUT",
                 "RETRY_STATUS_CODES"} -> {"none", "blank", "bad", "good"}
    [] name \in {"PYTHON_LIBRARY", "PYTHONHOME"} -> {"none", "bad", "good"}
    [] OTHER -> {"none", "good"}

Well(name) == IF name = "CONFIG_ROOT" THEN "dir" ELSE IF name = "HOME" THEN "home" ELSE "good"

InEnv(name) ==
  (CASE name \in {"JOB_UID", "JOB_ID", "USERNAME", "PASSWORD", "HOME", "PYTHON_LIBRARY",
                  "PYTHONHOME"} -> {"global"}
     [] name \in {"LIBPYTHON", "PY_BRIDGE"} -> {"linker"}
     [] maker = "AliceBobFelis" \/ name = "CONFIG_ROOT" -> {"backend", "global"}
     [] OTHER -> {"backend"}) \X {name}

Spots(name) ==
  IF from = "env" \/ name \in OfPython THEN InEnv(name) ELSE {"map", "lower"} \X {name}

\* The environment of a program that uses a map has everything, too.
Given(subject) ==
  LET spots == UNION {Spots(n) : n \in subject}
      well == UNION {Spots(n) : n \in WellGiven \ subject}
              \cup UNION {InEnv(n) : n \in subject \cup {"HOME"}}
  IN {[p \in spots \cup well |-> IF p \in spots THEN g[p] ELSE Well(p[2])] :
        g \in {g \in [spots -> UNION {Values(n) : n \in subject}] :
                 \A p \in spots : g[p] \in Values(p[2])}}

\* Bounds: files of two lines, which may be none of the subject's, but are for a pair;
\* directories of up to two entries.
Lines(subject) ==
  IF subject = {"USERNAME", "PASSWORD"} THEN [key : subject, value : {"good", "blank"}]
  ELSE [key : subject, value : {"good", "quoted", "blank", "quote"}]
       \cup [key : {"", "UNKNOWN", "#"}, value : {"good", "quote"}]

Files(subject) ==
  CASE subject = {"CONFIG_ROOT", "HOME"} ->
         {[d \in there |-> <<[key |-> "PROJECT_ID", value |-> "good"]>>] :
            there \in SUBSET {"dir", "home", "cwd"}}
    [] maker = "PasqalCloud" /\ subject # {"CONFIG_ROOT", "HOME"} ->
         [{"dir"} -> BoundedSeq(Lines(subject), 2)]
    [] subject = OfPython ->
         {[d \in {"lib64", "lib"} |-> entries[IF d = "lib64" THEN 1 ELSE 2]] :
            entries \in BoundedSeq({"versioned", "plain", "not UTF-8"}, 1)
                        \X BoundedSeq({"versioned", "plain", "other", "not UTF-8"}, 2)}
    [] OTHER -> {<< >>}

SettingTypeOK ==
  /\ maker \in Makers
  /\ from \in {"env", "map"}
  /\ \A p \in DOMAIN given : given[p] \in Values(p[2])
  /\ \A name \in DOMAIN took : took[name] \in STRING \X STRING
  /\ readFile \in {"none", "dir", "home", "cwd"}
  /\ ended \in {NotYet, Made, <<"panics">>} \cup ({"missing", "invalid"} \X STRING)
  /\ asMade = << >> \/ DOMAIN asMade = DOMAIN given
  /\ used \in {NotYet, <<"not configured">>} \cup (STRING \X STRING)

SettingInit(asks) ==
  /\ maker \in IF asks THEN Makers ELSE {"IQMServer"}
  /\ from \in IF asks THEN {"env", "map"} ELSE {"env"}
  /\ \E subject \in IF asks THEN Subjects ELSE {{}} :
       /\ given \in Given(subject)
       /\ files \in Files(subject)
  /\ took = << >>
  /\ readFile = "none"
  /\ ended = NotYet
  /\ asMade = << >>
  /\ used = NotYet

-----------------------------------------------------------------------------
(* Later. *)

\* The session that the constructor took, or else that of the environment, also for a
\* resource made from a map.
acquisition_token ==
  IF took["ACQUISITION_TOKEN"] # Nowhere THEN took["ACQUISITION_TOKEN"]
  ELSE IF Holds(Backend("ACQUISITION_TOKEN")) THEN Backend("ACQUISITION_TOKEN")
  ELSE <<"missing", "ACQUISITION_TOKEN">>

s3_store ==
  IF "S3_BUCKET" \in DOMAIN took THEN took["S3_BUCKET"]
  ELSE IF ReadAll(s3_env_reads).ended # Made THEN ReadAll(s3_env_reads).ended
  ELSE <<"not configured">>

\* task_start of the IBM Quantum System reads its timeout when it runs.
job_timeout ==
  LET read == ReadAll(<<Read("JOB_TIMEOUT", <<Backend("JOB_TIMEOUT")>>, {"required", "number"})>>)
  IN IF read.ended = Made THEN read.took["JOB_TIMEOUT"] ELSE read.ended

Uses ==
  /\ ended = Made /\ used = NotYet
  /\ \/ maker = "PasqalLocal" /\ used' = acquisition_token
     \/ maker = "IBMQuantumSystem" /\ used' \in {s3_store, job_timeout}
  /\ UNCHANGED <<maker, from, given, files, took, readFile, ended, asMade>>

\* A variable of the environment is set or unset in between.
LaterSettings == {"ACQUISITION_TOKEN", "S3_BUCKET", "JOB_TIMEOUT"}

Setenv ==
  /\ ended = Made /\ used = NotYet
  /\ maker \in {"PasqalLocal", "IBMQuantumSystem"}
  /\ \E name \in LaterSettings :
       /\ Backend(name) \in DOMAIN given
       /\ given' = [given EXCEPT ![Backend(name)] = IF @ = "none" THEN "good" ELSE "none"]
  /\ UNCHANGED <<maker, from, files, took, readFile, ended, asMade, used>>

SettingsNext == create_resource \/ Setenv \/ Uses

-----------------------------------------------------------------------------
(* Properties. *)

\* The places that count for a setting, the strongest first, as the documentation of the
\* constructors has them.
Documented(name) ==
  LET scopes == IF from = "map" THEN IF maker = "OQTOPUS" THEN <<"map">> ELSE <<"map", "lower">>
                ELSE IF name \in {"JOB_UID", "JOB_ID", "USERNAME", "PASSWORD"} THEN <<"global">>
                ELSE <<"backend", "global">>
      other == CASE name = "WARDEN_URL" -> <<"URL">>
                 [] name = "TIMEOUT" /\ maker # "OQTOPUS" -> <<"JOB_TIMEOUT">>
                 [] name = "SESSION_ID" -> <<"ACQUISITION_TOKEN">>
                 [] OTHER -> << >>
      names == <<name>> \o other
      at(n) == [k \in DOMAIN scopes |-> <<scopes[k], n>>]
  IN FlattenSeq([k \in DOMAIN names |-> at(names[k])])

IsSetting(name) == name # "LIBPYTHON"

Held(place) == place \in DOMAIN asMade /\ asMade[place] # "none"

Pair == {"username", "password"}
Key(name) ==
  CASE name = "project_id" -> "PROJECT_ID" [] name = "base_url" -> "BASE_URL"
    [] name = "username" -> "USERNAME" [] name = "password" -> "PASSWORD" [] OTHER -> name

\* Where a place is in the documented order; the file comes last.
Rank(name, place) ==
  LET order == Documented(Key(name))
  IN IF place[1] = "file" THEN Len(order) + 1
     ELSE CHOOSE k \in DOMAIN order : order[k] = place

\* A resource that is made from a map takes nothing of the environment, however much
\* there is: neither its settings nor the file below HOME.
OnlyOfTheMap ==
  from = "map" =>
    \A name \in DOMAIN took : IsSetting(name) => took[name][1] \in {"map", "lower", "file", "nowhere"}

\* A setting comes from the strongest place that gives it.  Pasqal Cloud takes a blank
\* one for none, and then does not look at the key in lower case but in the file.
StrongestTaken ==
  \A name \in DOMAIN took : IsSetting(name) /\ took[name] # Nowhere =>
    LET order == Documented(Key(name))
    IN \A k \in 1..(Rank(name, took[name]) - 1) :
         Held(order[k]) =>
           /\ took[name][1] = "file"
           /\ asMade[order[k]] = "blank" \/ order[k][1] = "lower"

\* What is given well is not left out, unless something stronger, which is of no use, is
\* in its way; and a constructor that says that a setting is missing has not got it.
NothingIgnored ==
  /\ ended = Made => \A name \in DOMAIN took \ Pair : IsSetting(name) /\ took[name] = Nowhere =>
       LET order == Documented(Key(name))
       IN \A k \in DOMAIN order : Held(order[k]) /\ asMade[order[k]] = "good" =>
            \E j \in 1..(k - 1) : Held(order[j]) /\ asMade[order[j]] # "good"
  /\ ended[1] = "missing" /\ ended[2] \notin OfPython =>
       \A k \in DOMAIN Documented(ended[2]) : ~Held(Documented(ended[2])[k])

\* Credentials are used as a pair; they may be of two sources.
PairsAreWhole ==
  maker = "PasqalCloud" /\ ended = Made => (took.username = Nowhere <=> took.password = Nowhere)

\* The file below HOME is read only if that of a root that is given cannot be, or if
\* another root hides that one; a resource that is made from a map reads no file but
\* those below the map's roots; one in the working directory is read only for a path of
\* a variable that is not set, or for "~" and a blank HOME.
FileOfItsRoot ==
  /\ readFile = "home" /\ "dir" \in DOMAIN files =>
       \A p \in DOMAIN asMade : p[2] = "CONFIG_ROOT" /\ asMade[p] = "dir" =>
         \E q \in DOMAIN asMade \ {p} : q[2] = "CONFIG_ROOT" /\ Held(q)
  /\ readFile # "none" /\ from = "map" =>
       \E n \in {"CONFIG_ROOT", "HOME"}, scope \in {"map", "lower"} : Held(<<scope, n>>)
  /\ readFile = "cwd" => \E p \in DOMAIN asMade :
       asMade[p] = "unset" \/ (p[2] = "HOME" /\ asMade[p] = "blank")

\* Only a value that is a single quotation mark makes a constructor panic.
PanicsOnAQuote ==
  ended = <<"panics">> => \E k \in DOMAIN files["dir"] :
    files["dir"][k].key # "#" /\ files["dir"][k].value = "quote"

\* A library of Python below PYTHONHOME is a versioned one, if its directory has one.
VersionedFirst ==
  ended = Made /\ "LIBPYTHON" \in DOMAIN took /\ took["LIBPYTHON"][2] = "plain" =>
    ~\E k \in DOMAIN files[took["LIBPYTHON"][1]] : files[took["LIBPYTHON"][1]][k] = "versioned"

\* A bucket is used only if all of it was given when the resource was made; "not
\* configured" is said only when it has been given since; what is said to be missing is.
\* Pasqal Local takes the session of the environment only if it was made with none.
LaterIsTold ==
  /\ used = <<"not configured">> =>
       "S3_BUCKET" \notin DOMAIN took /\ Holds(resolve_opt(Backend("S3_BUCKET"))) /\ from = "env"
  /\ used[1] = "missing" => resolve_opt(Backend(used[2])) = Nowhere
  /\ maker = "PasqalLocal" /\ used[1] = "backend" /\ from = "map" =>
       took["ACQUISITION_TOKEN"] = Nowhere

OwnSettings ==
  /\ OnlyOfTheMap
  /\ StrongestTaken
  /\ NothingIgnored
  /\ PairsAreWhole
  /\ FileOfItsRoot
  /\ PanicsOnAQuote
  /\ VersionedFirst
  /\ LaterIsTold
=============================================================================
