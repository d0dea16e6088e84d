--------------------------- MODULE BackendListing ---------------------------
(***************************************************************************)
(* The resources() of the three IBM providers: the backends of a service   *)
(* that a filter asks for.  The filter is parsed, the backends are listed, *)
(* and then the service is asked about all of them at once, while they go  *)
(* on- and offline.  What becomes of the backends that are found is        *)
(* Discovery's.                                                            *)
(***************************************************************************)
EXTENDS Naturals, SequencesExt

VARIABLES
  provider,    \* the type of the provider
  filters,     \* the segments of the filter string, between the &
  fleet,       \* the backends of the service, in its order
  up,          \* those of them that are online
  listing,     \* where the call is
  candidates,  \* the backends that are still in question, in the order of the list
  replies,     \* what the service has said of them
  offered,     \* the result
  beenUp, beenDown, missed   \* history: backends that were online or not during the
                             \* call, and those about which a request failed

listingVars == <<provider, filters, fleet, up, listing, candidates, replies, offered,
                 beenUp, beenDown, missed>>

\* What the service says of a backend.  named: its name matches the pattern.
\* marked: is_simulator in the list.  readable: its configuration can be read.
Plain == [named |-> TRUE, marked |-> "no", simulator |-> FALSE, n_qubits |-> 2,
          max_shots |-> 2, queue_length |-> 0, readable |-> TRUE]
Waited == [Plain EXCEPT !.queue_length = 1]
Backend ==
  {Plain, Waited,
   [Plain EXCEPT !.named = FALSE],
   [Plain EXCEPT !.marked = "absent"],
   [Plain EXCEPT !.n_qubits = 1],
   [Plain EXCEPT !.max_shots = 1],
   [Plain EXCEPT !.marked = "yes", !.simulator = TRUE],
   [Plain EXCEPT !.marked = "absent", !.simulator = TRUE],
   [Plain EXCEPT !.readable = FALSE]}

\* Bound: two backends, one of them plain.
Fleet == {<<Plain, b>> : b \in Backend} \cup {<<b, Plain>> : b \in Backend}

Segment ==
  {<<"no equals sign">>, <<"another key", "word">>,
   <<"num_qubits", "2">>, <<"num_qubits", "2^32">>, <<"num_qubits", "word">>,
   <<"max_shots", "2">>, <<"name", "pattern">>, <<"name", "[">>,
   <<"is_simulator", "true">>, <<"is_simulator", "false">>, <<"status", "online">>}

\* Bound: two segments.
Filters == UNION {[1..n -> Segment] : n \in 0..2}

-----------------------------------------------------------------------------
(* BackendFilter *)

Default == [num_qubits |-> 0, max_shots |-> 0, name |-> FALSE,
            is_simulator |-> FALSE, online |-> FALSE]

\* More qubits than any backend has.
Number(value) == IF value = "2" THEN 2 ELSE 3

\* A key that is not known is ignored; the last value of a key counts.
SetKey(f, segment) ==
  CASE segment[1] = "num_qubits" -> [f EXCEPT !.num_qubits = Number(segment[2])]
    [] segment[1] = "max_shots" -> [f EXCEPT !.max_shots = Number(segment[2])]
    [] segment[1] = "name" -> [f EXCEPT !.name = TRUE]
    [] segment[1] = "is_simulator" -> [f EXCEPT !.is_simulator = (segment[2] = "true")]
    [] segment[1] = "status" -> [f EXCEPT !.online = TRUE]
    [] OTHER -> f

Parsed(text) == FoldLeft(SetKey, Default, text)

Unreadable(segment) ==
  \/ Len(segment) = 1
  \/ segment[1] # "another key" /\ segment[2] \in {"word", "["}

\* num_qubits is a u64 of the one, and a u32 of the others.
QuantumSystemRefuses(text) == \E i \in DOMAIN text : Unreadable(text[i])
QuantumComputeRefuses(text) ==
  \E i \in DOMAIN text : Unreadable(text[i]) \/ text[i] = <<"num_qubits", "2^32">>
QiskitRuntimeRefuses(text) == QuantumComputeRefuses(text)

matches_name(f, b) == f.name => b.named
matches_device(f, b) == (b.marked = "yes") = f.is_simulator
matches_config(f, b) ==
  /\ b.simulator = f.is_simulator
  /\ b.n_qubits >= f.num_qubits
  /\ b.max_shots >= f.max_shots

-----------------------------------------------------------------------------
(* resources *)

\* In what the three differ: the refusal of a filter, where a backend that is not
\* online is left out, whether the list's mark of a simulator counts, and whether
\* the backends are sorted.
IBMQuantumSystemProvider ==
  [refuses |-> QuantumSystemRefuses(filters), online |-> "listed", marks |-> FALSE,
   sorts |-> FALSE]
IBMQuantumComputeServiceProvider ==
  [refuses |-> QuantumComputeRefuses(filters), online |-> "asked", marks |-> TRUE,
   sorts |-> TRUE]
IBMQiskitRuntimeServiceProvider ==
  [refuses |-> QiskitRuntimeRefuses(filters), online |-> "asked", marks |-> TRUE,
   sorts |-> TRUE]

Way ==
  CASE provider = "IBMQuantumSystem" -> IBMQuantumSystemProvider
    [] provider = "IBMQuantumComputeService" -> IBMQuantumComputeServiceProvider
    [] provider = "QiskitRuntimeService" -> IBMQiskitRuntimeServiceProvider

ListingTypeOK ==
  /\ provider \in {"IBMQuantumSystem", "IBMQuantumComputeService", "QiskitRuntimeService"}
  /\ filters \in Seq(Segment)
  /\ fleet \in Backend \X Backend
  /\ \A set \in {up, beenUp, beenDown, missed} : set \subseteq DOMAIN fleet
  /\ listing \in {"begins", "statuses", "configurations", "done", "failed"}
  /\ candidates \in Seq(DOMAIN fleet)
  /\ replies \in [DOMAIN candidates -> {"none", "good", "bad"}]
  /\ offered \in Seq(DOMAIN fleet)

\* A program that lists nothing has one initial state.
ListingInit(lists) ==
  /\ CASE ~lists -> /\ provider = "IBMQuantumSystem" /\ filters = << >>
                    /\ fleet = <<Plain, Plain>>
       [] lists -> /\ provider \in {"IBMQuantumSystem", "IBMQuantumComputeService",
                                    "QiskitRuntimeService"}
                   /\ filters \in Filters /\ fleet \in Fleet
  /\ up = DOMAIN fleet
  /\ listing = "begins"
  /\ candidates = << >>
  /\ replies = << >>
  /\ offered = << >>
  /\ beenUp = {} /\ beenDown = {} /\ missed = {}

Filter == Parsed(filters)

\* A backend goes off- or online.  Bound: only where the filter asks for it, and
\* until the service has been asked.
Toggles ==
  /\ Filter.online
  /\ \E i \in DOMAIN fleet :
       /\ up' = IF i \in up THEN up \ {i} ELSE up \cup {i}
       /\ \/ listing = "begins" /\ UNCHANGED <<beenUp, beenDown>>
          \/ /\ listing = "statuses"
             /\ \E k \in DOMAIN candidates : candidates[k] = i /\ replies[k] = "none"
             /\ IF i \in up THEN beenDown' = beenDown \cup {i} /\ UNCHANGED beenUp
                            ELSE beenUp' = beenUp \cup {i} /\ UNCHANGED beenDown
  /\ UNCHANGED <<provider, filters, fleet, listing, candidates, replies, offered, missed>>

Asks(phase, backends) ==
  /\ listing' = phase
  /\ candidates' = backends
  /\ replies' = [k \in DOMAIN backends |-> "none"]

\* The backends that the list leaves in question.
Listed(i) ==
  /\ matches_name(Filter, fleet[i])
  /\ Way.marks => matches_device(Filter, fleet[i])
  /\ Way.online = "listed" => (Filter.online => i \in up)

\* The filter is refused, the token cannot be renewed, or the list fails.
ListFails ==
  /\ listing = "begins"
  /\ listing' = "failed"
  /\ UNCHANGED <<provider, filters, fleet, up, candidates, replies, offered, beenUp,
                 beenDown, missed>>

List ==
  /\ listing = "begins"
  /\ ~Way.refuses
  /\ Asks(IF Way.online = "asked" /\ Filter.online THEN "statuses" ELSE "configurations",
          SelectSeq(<<1, 2>>, Listed))
  /\ beenUp' = up
  /\ beenDown' = DOMAIN fleet \ up
  /\ UNCHANGED <<provider, filters, fleet, up, offered, missed>>

\* is_backend_online, one of the requests of join_all: one that fails counts for
\* offline.
is_backend_online ==
  /\ listing = "statuses"
  /\ \E k \in DOMAIN candidates :
       /\ replies[k] = "none"
       /\ \/ /\ replies' = [replies EXCEPT ![k] = IF candidates[k] \in up THEN "good" ELSE "bad"]
             /\ UNCHANGED missed
          \/ /\ replies' = [replies EXCEPT ![k] = "bad"]
             /\ missed' = missed \cup {candidates[k]}
  /\ UNCHANGED <<provider, filters, fleet, up, listing, candidates, offered, beenUp, beenDown>>

Good == LET good(k) == replies[k] = "good" IN SelectSeq([k \in DOMAIN candidates |-> k], good)

StatusesCome ==
  /\ listing = "statuses"
  /\ \A k \in DOMAIN candidates : replies[k] # "none"
  /\ Asks("configurations", [n \in DOMAIN Good |-> candidates[Good[n]]])
  /\ UNCHANGED <<provider, filters, fleet, up, offered, beenUp, beenDown, missed>>

\* sort_by_key keeps the order of equal keys.
ByQueue(backends) ==
  LET queue(i) == fleet[i].queue_length
  IN IF Way.sorts THEN SelectSeq(backends, LAMBDA i : queue(i) = 0)
                         \o SelectSeq(backends, LAMBDA i : queue(i) > 0)
                  ELSE backends

\* MUTANT of Found: the backends are sorted before they get their configurations.
FoundSortedFirst(good) ==
  LET sorted == ByQueue(candidates)
      fits(k) == k \in good /\ matches_config(Filter, fleet[candidates[k]])
      kept == SelectSeq([k \in DOMAIN candidates |-> k], fits)
  IN [n \in DOMAIN kept |-> sorted[kept[n]]]

\* Each candidate with its own configuration, sorted, and those left out that do
\* not match.
Found(good) ==
  LET fits(k) == k \in good /\ matches_config(Filter, fleet[candidates[k]])
      kept == SelectSeq([k \in DOMAIN candidates |-> k], fits)
  IN ByQueue([n \in DOMAIN kept |-> candidates[kept[n]]])

\* The configurations, which do not change, come or do not.
get_backend_configuration ==
  /\ listing = "configurations"
  /\ \E failing \in SUBSET DOMAIN candidates :
       LET good == {k \in DOMAIN candidates \ failing : fleet[candidates[k]].readable}
       IN /\ offered' = Found(good)
          /\ missed' = missed \cup {candidates[k] : k \in failing}
  /\ listing' = "done"
  /\ UNCHANGED <<provider, filters, fleet, up, candidates, replies, beenUp, beenDown>>

ListingNext ==
  \/ Toggles \/ ListFails \/ List \/ is_backend_online \/ StatusesCome
  \/ get_backend_configuration

-----------------------------------------------------------------------------
(* Properties. *)

\* The last segment with a key, if there is one, holds for the backend: what the
\* documentation of the filter string says of each key.
Demands(key, holds(_)) ==
  LET with == {i \in DOMAIN filters : filters[i][1] = key}
      last == CHOOSE i \in with : \A j \in with : j <= i
  IN with = {} \/ holds(filters[last][2])

\* Simulators are left out where the filter does not ask for them.
Wanted(b) ==
  /\ Demands("name", LAMBDA v : b.named)
  /\ Demands("num_qubits", LAMBDA v : b.n_qubits >= Number(v))
  /\ Demands("max_shots", LAMBDA v : b.max_shots >= Number(v))
  /\ b.simulator = \E i \in DOMAIN filters :
                     /\ filters[i] = <<"is_simulator", "true">>
                     /\ \A j \in DOMAIN filters : j > i => filters[j][1] # "is_simulator"

\* resources() offers the backends that the filter asks for: each of them was online
\* during the call, if that is asked for, and none is left out that was online all
\* the time and about which the service answered, unless it is a simulator that the
\* service does not list as one.  The least busy come first, where they have a queue.
ListedAsAsked ==
  LET unmarked(b) == provider # "IBMQuantumSystem" /\ b.simulator /\ b.marked = "absent"
  IN listing = "done" =>
    /\ \A k \in DOMAIN offered :
         /\ Wanted(fleet[offered[k]])
         /\ Demands("status", LAMBDA v : offered[k] \in beenUp)
    /\ \A i \in DOMAIN fleet :
         (/\ Wanted(fleet[i]) /\ fleet[i].readable
          /\ i \notin missed
          /\ Demands("status", LAMBDA v : i \notin beenDown)
          /\ ~unmarked(fleet[i]))
           => \E k \in DOMAIN offered : offered[k] = i
    /\ \A k, n \in DOMAIN offered :
         k < n => LET a == fleet[offered[k]].queue_length
                      b == fleet[offered[n]].queue_length
                  IN IF provider = "IBMQuantumSystem" THEN offered[k] < offered[n]
                     ELSE a < b \/ (a = b /\ offered[k] < offered[n])
=============================================================================
