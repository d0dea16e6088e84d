----------------------------- MODULE HttpLayers -----------------------------
(***************************************************************************)
(* The layers that ClientBuilder puts around every request of the Quantum  *)
(* System client, and one call after another through them.  A request goes *)
(* down layer by layer, a reply comes up; a layer may send the request     *)
(* down again.  The layer "auth" may first ask for a token, through a      *)
(* client of its own.  QuantumSystem is about what the service makes of    *)
(* repeated requests; this module is about what is sent, how often, and    *)
(* what the caller is told in the end.                                     *)
(***************************************************************************)
EXTENDS Naturals, Sequences

VARIABLES
  built,      \* how the client was built
  through,    \* the layers of the request under way, outermost first
  entered,    \* those that it is in
  came,       \* what came back: a reply or an error
  bearer,     \* the access token of the token manager, as it is seen there
  accepted,   \* does the service accept that token?
  about,      \* what the call asks for: "Backend", "Job" or "Other"
  tally,      \* history: what this call has sent
  got         \* what the last call returned

layerVars == <<built, through, entered, came, bearer, accepted, about, tally, got>>

\* Bound: one retry stands for the five of the policies.
Retries == 1

-----------------------------------------------------------------------------
(* ClientBuilder::build *)

\* policy: with_retry_policy was called; iqp: the feature iqp_retry_policy is on, as
\* it is by default in qrmi.
Built == [auth : {"None", "IbmCloudIam", "IbmCloudAppId"}, policy : BOOLEAN, iqp : BOOLEAN]

Auth(b) == IF b.auth = "None" THEN << >> ELSE <<"auth">>
Retry(b) ==
  CASE ~b.policy -> << >>
    [] b.policy /\ b.iqp -> <<"except 429", "only 429">>
    [] OTHER -> <<"default">>

\* MUTANT of Layers: the retries are around the authorization, as they were once.
RetryOutermost(b) == Retry(b) \o Auth(b)

\* The middleware runs in the order in which it was attached.
Layers(b) == Auth(b) \o Retry(b)

\* The client for requests without authorization.
PlainLayers(b) == IF b.policy THEN <<"default">> ELSE << >>

-----------------------------------------------------------------------------
(* Replies, and who repeats a request for them. *)

\* "timeout": also a connection that was refused or broken; "broken": any other
\* failure of the transport, or a body that is no JSON; "no token": an error that is
\* made by the layer "auth".
Status == {"2xx", "400", "401", "403", "404", "408", "423", "429", "5xx"}
Errors == {"timeout", "broken", "no token"}

RateLimited == {"423", "429"}
Transient == {"408", "429", "5xx", "timeout"}   \* reqwest_retry, by default

\* The layer "token" is the retry layer of the token manager's own client.
Repeats(layer) ==
  CASE layer \in {"default", "token"} -> Transient
    [] layer = "except 429" -> Transient \ RateLimited
    [] layer = "only 429" -> RateLimited
    [] layer = "auth" -> {}

\* What the caller is told: from_response, from_middleware_error, and Client::get for
\* the body of a success.
Kind(reply, asked) ==
  CASE reply = "2xx" -> "Ok"
    [] reply \in {"401", "no token"} -> "AuthenticationFailed"
    [] reply = "403" -> "AccessDenied"
    [] reply = "404" /\ asked = "Backend" -> "BackendNotFound"
    [] reply = "404" /\ asked = "Job" -> "JobNotFound"
    [] reply = "408" -> "RequestTimeout"
    [] reply = "400" -> "InvalidJobInput"
    [] reply = "429" -> "ExecutionLanesFull"
    [] reply = "5xx" -> "ServerError"
    [] reply \in {"timeout", "broken"} -> "Request"
    [] OTHER -> "Api"

-----------------------------------------------------------------------------
(* The state. *)

NoTally == [sends |-> 0, asks |-> 0, tokens |-> 0, rejected |-> FALSE, last |-> "none"]

Frame(layer) == [layer |-> layer, again |-> 0, renewed |-> FALSE]
Top == entered[Len(entered)]
AsksToken == entered # << >> /\ Top.layer = "token"
Innermost == ~AsksToken /\ Len(entered) = Len(through)

LayerTypeOK ==
  /\ built \in Built
  /\ \A i \in DOMAIN entered : entered[i].again \in 0..Retries
  /\ came \in {"none", "token", "short token"} \cup Status \cup Errors
  /\ bearer \in {"none", "valid", "expired"}
  /\ {accepted} \subseteq BOOLEAN

\* A program that makes no request has one initial state.
LayerInit(requests) ==
  /\ IF requests THEN built \in Built
     ELSE built = [auth |-> "None", policy |-> FALSE, iqp |-> TRUE]
  /\ through = << >> /\ entered = << >> /\ came = "none"
  /\ bearer = "none" /\ accepted = FALSE
  /\ about = "Other" /\ tally = NoTally /\ got = "none"

-----------------------------------------------------------------------------
(* The request on its way down. *)

\* A call begins: a GET about something, or a request of the plain client.
Call ==
  /\ through = << >>
  /\ \E ask \in {"Backend", "Job", "Other"} :
        /\ about' = ask
        /\ through' \in {Layers(built)} \cup (IF ask = "Other" THEN {PlainLayers(built)} ELSE {})
  /\ through' # << >>          \* without any layer there is nothing to see
  /\ tally' = NoTally /\ got' = "none"
  /\ UNCHANGED <<built, entered, came, bearer, accepted>>

\* handle of the next layer: "auth" needs a token that has not expired.
Enter ==
  /\ came = "none" /\ ~AsksToken /\ Len(entered) < Len(through)
  /\ LET layer == through[Len(entered) + 1]
     IN entered' = entered \o <<Frame(layer)>>
                     \o (IF layer = "auth" /\ bearer # "valid" THEN <<Frame("token")>> ELSE << >>)
  /\ UNCHANGED <<built, through, came, bearer, accepted, about, tally, got>>

\* POST to the endpoint of the tokens: 90 % of the time a token of IAM is valid for
\* may be less than a second.
AskToken ==
  /\ came = "none" /\ AsksToken
  /\ came' \in {"token", "short token", "400", "5xx", "timeout", "broken"}
  /\ tally' = [tally EXCEPT !.asks = @ + 1]
  /\ UNCHANGED <<built, through, entered, bearer, accepted, about, got>>

\* The request itself.  A service that does not accept the token it is sent says so
\* or fails.
Send ==
  /\ through # << >> /\ Innermost /\ came = "none"
  /\ LET authorized == \E i \in DOMAIN through : through[i] = "auth"
     IN came' \in CASE authorized /\ accepted -> (Status \ {"401"}) \cup {"timeout", "broken"}
                    [] authorized /\ ~accepted -> {"401", "5xx", "timeout"}
                    [] ~authorized -> Status \cup {"timeout", "broken"}
  /\ tally' = [tally EXCEPT !.sends = @ + (IF came' \in RateLimited THEN 0 ELSE 1),
                            !.rejected = @ \/ came' = "401",
                            !.last = came']
  /\ UNCHANGED <<built, through, entered, bearer, accepted, about, got>>

-----------------------------------------------------------------------------
(* The reply on its way up. *)

\* The policy of "only 429" has no bound (max_n_retries is None).
MayRepeat(frame) ==
  /\ came \in Repeats(frame.layer)
  /\ frame.layer = "only 429" \/ frame.again < Retries

\* TransparentRetryMiddleware: the layers below run afresh.
Again ==
  /\ came # "none" /\ entered # << >> /\ MayRepeat(Top)
  /\ entered' = [entered EXCEPT ![Len(entered)].again =
                   IF Top.layer = "only 429" THEN @ ELSE @ + 1]
  /\ came' = "none"
  /\ UNCHANGED <<built, through, bearer, accepted, about, tally, got>>

\* MUTANT of GivenUp: the error is wrapped, as reqwest_retry does.
Wrapped == IF came \in {"timeout", "broken"} THEN "no token" ELSE came

\* What a layer that does not send again hands on, unchanged.
GivenUp == came

Leave ==
  /\ came # "none" /\ entered # << >> /\ ~MayRepeat(Top)
  /\ Top.layer \notin {"token", "auth"}
  /\ entered' = SubSeq(entered, 1, Len(entered) - 1)
  /\ came' = GivenUp
  /\ UNCHANGED <<built, through, bearer, accepted, about, tally, got>>

\* get_access_token succeeds.  A token that has expired at once is asked for again
\* when it was the one to renew another, by get_token; else it is used as it is.
Obtained ==
  /\ AsksToken /\ came \in {"token", "short token"}
  /\ LET auth == SubSeq(entered, 1, Len(entered) - 1)
     IN entered' = auth \o (IF came = "short token" /\ Top.renewed THEN <<Frame("token")>>
                            ELSE << >>)
  /\ bearer' = IF came = "token" THEN "valid" ELSE "expired"
  /\ accepted' \in BOOLEAN
  /\ came' = "none"
  /\ tally' = [tally EXCEPT !.tokens = @ + 1]
  /\ UNCHANGED <<built, through, about, got>>

\* get_access_token fails, with an error of its own or with one of the transport:
\* the layer "auth" returns it.
Denied ==
  /\ AsksToken /\ came \in {"400", "5xx", "timeout", "broken"} /\ ~MayRepeat(Top)
  /\ entered' = SubSeq(entered, 1, Len(entered) - 2)
  /\ came' = IF came \in {"400", "5xx"} THEN "no token" ELSE came
  /\ tally' = [tally EXCEPT !.last = came']
  /\ UNCHANGED <<built, through, bearer, accepted, about, got>>

\* AuthMiddleware::handle: 401 renews the token, once, whether or not it seems to be
\* valid; any other reply goes on.
Authorized ==
  /\ came # "none" /\ entered # << >> /\ Top.layer = "auth"
  /\ IF came = "401" /\ ~Top.renewed
     THEN /\ entered' = SubSeq(entered, 1, Len(entered) - 1)
                          \o <<[Top EXCEPT !.renewed = TRUE],
                               [Frame("token") EXCEPT !.renewed = TRUE]>>
          /\ came' = "none"
     ELSE /\ entered' = SubSeq(entered, 1, Len(entered) - 1)
          /\ UNCHANGED came
  /\ UNCHANGED <<built, through, bearer, accepted, about, tally, got>>

Return ==
  /\ came # "none" /\ entered = << >>
  /\ got' = Kind(came, about)
  /\ through' = << >> /\ came' = "none"
  /\ UNCHANGED <<built, entered, bearer, accepted, about, tally>>

\* While a request is under way or not, a token expires, or is revoked.
TokenEnds ==
  /\ bearer = "valid"
  /\ \/ bearer' = "expired" /\ accepted' = FALSE
     \/ accepted /\ accepted' = FALSE /\ UNCHANGED bearer
  /\ UNCHANGED <<built, through, entered, came, about, tally, got>>

LayerNext ==
  \/ Call \/ Enter \/ AskToken \/ Send \/ Again \/ Leave
  \/ Obtained \/ Denied \/ Authorized \/ Return \/ TokenEnds

-----------------------------------------------------------------------------
(* Properties. *)

\* Retries do not multiply: a call asks for one token, and for at most two more when
\* the service rejects the first (the second of these when the new one has expired
\* at once); each takes the retries of one policy.  The request itself is sent with
\* the retries of one policy, and of another when the token was renewed; only rate
\* limits are waited out without a bound.
FewRequests ==
  LET Times(n) == n * (Retries + 1)
  IN /\ tally.tokens <= IF tally.rejected THEN 3 ELSE 1
     /\ tally.asks <= Times(IF tally.rejected THEN 3 ELSE 1)
     /\ tally.sends <= Times(IF tally.rejected THEN 2 ELSE 1)

\* The caller is told of what came last from the network, whatever the layers made of
\* it: so AuthenticationFailed means that there was no token, or that the service
\* rejected two.
ToldOfLast ==
  got # "none" => got = Kind(tally.last, about)

RequestsAsTold == FewRequests /\ ToldOfLast
=============================================================================
