------------------------------- MODULE HecToken -------------------------------
(***************************************************************************)
(* The life of the HEC token of one input: the create, edit and delete     *)
(* hooks of package/bin/TA_MQTT_rh_mqtt_subscriber.py and                  *)
(* _ensure_runtime_hec_token of bin/input_module/mqtt_subscriber.py.       *)
(* Every REST request and every start of the input is a process of its     *)
(* own; they meet in splunkd, which keeps the stanza and the collection of *)
(* HEC tokens.  Each call of splunkd's REST interface is one step.  Inputs *)
(* do not interact: the name of the token is made of the stanza's name.    *)
(***************************************************************************)
EXTENDS Integers

CONSTANTS
    Requests,    \* the REST requests that can be under way at the same time
    MaxRequests, \* bound: how many requests are made
    MaxTrouble   \* bound: failed calls, killed inputs and tokens changed by hand

ASSUME TokenAssumption == MaxRequests \in Nat /\ MaxTrouble \in Nat

VARIABLES
    stanza,     \* NoStanza, or batch_mode and hec_token of inputs.conf
    hec,        \* the token in splunkd's collection under this input's name, or NoToken
    issued,     \* how many tokens splunkd has made; the newest has this number
    request,    \* each request: what it asks, where its hook is, the token it holds
    input,      \* the input's process: where it is, its arguments, the token it found
    made,       \* requests so far, up to MaxRequests
    trouble,    \* failures so far, up to MaxTrouble
    \* history, not in the code:
    tidy,       \* no request has failed half-way, and no two processes have overlapped
    undisturbed \* nobody else has changed stanza or collection since the input started

vars == <<stanza, hec, issued, request, input, made, trouble, tidy, undisturbed>>

NoToken  == 0
NoStanza == [batch |-> FALSE, token |-> -1]

Operations == {"create", "edit", "delete"}
Modes      == {"0", "1", "unset"}     \* batch_mode in the payload of a request

NoRequest == [op |-> "edit", mode |-> "unset", at |-> "none", token |-> NoToken,
              touched |-> FALSE]
Off       == [at |-> "off", batch |-> FALSE, current |-> NoToken, actual |-> NoToken]

Init ==
    \* no input yet, or one deployed with a configuration file
    /\ stanza \in {NoStanza, [batch |-> TRUE, token |-> NoToken]}
    /\ hec = NoToken /\ issued = 0
    /\ request = [r \in Requests |-> NoRequest]
    /\ input = Off
    /\ made = 0 /\ trouble = 0
    /\ tidy = (stanza = NoStanza)
    /\ undisturbed = TRUE

-------------------------------------------------------------------------------
(* splunkd's REST interface (external) *)

Trouble == trouble < MaxTrouble /\ trouble' = trouble + 1 /\ UNCHANGED made

\* POST on the collection: refused with 409 Conflict when the name is taken.
PostAccepted == hec = NoToken
PostApplies  == hec' = issued + 1 /\ issued' = issued + 1

\* DELETE of the entry: 404 Not Found when it is gone.
DeleteAccepted == hec # NoToken
DeleteApplies  == hec' = NoToken /\ UNCHANGED issued

\* Someone removes or renews the token on Splunk's own HEC page.
ChangedByHand ==
    /\ Trouble
    /\ hec # NoToken
    /\ DeleteApplies \/ PostApplies
    /\ UNCHANGED <<stanza, request, input>>

-------------------------------------------------------------------------------
(* REST handler *)

\* Seeded fault: the name in the collection is compared without its prefix.
TokenFoundNever == NoToken

\* GET the collection and search it for http://ta_mqtt_<stanza>.
TokenFound == hec

\* _ensure_hec_token returns at once unless batch_mode is 1, its default.
HookSkips(op, mode) == op # "delete" /\ mode = "0"

Ends(r) == request' = [request EXCEPT ![r] = NoRequest]

Submit(r, op, mode) ==
    /\ request[r] = NoRequest /\ made < MaxRequests
    /\ made' = made + 1
    /\ op = "delete" => mode = "unset"
    /\ request' = [request EXCEPT ![r] =
                    [@ EXCEPT !.op = op, !.mode = mode,
                              !.at = IF HookSkips(op, mode) THEN "save" ELSE "find"]]
    /\ UNCHANGED <<stanza, hec, issued, input, trouble>>

\* Seeded fault: the delete hook does not look for the token.
AfterFindKeeps(op) ==
    IF op # "delete" /\ TokenFound = NoToken THEN "create" ELSE "save"

\* Seeded fault: the hook saves what it has found, a missing token included.
AfterFindSaves(op) ==
    IF op = "delete" /\ TokenFound # NoToken THEN "remove" ELSE "save"

\* Where the hook goes on once it has searched the collection.
AfterFind(op) ==
    CASE op = "delete" /\ TokenFound # NoToken -> "remove"
      [] op # "delete" /\ TokenFound = NoToken -> "create"
      [] OTHER -> "save"

FindToken(r) ==
    /\ request[r].at = "find"
    /\ request' = [request EXCEPT ![r] =
                    [@ EXCEPT !.at = AfterFind(request[r].op), !.token = TokenFound]]
    /\ UNCHANGED <<stanza, hec, issued, input, made, trouble>>

CreateToken(r) ==
    /\ request[r].at = "create"
    /\ PostAccepted /\ PostApplies
    /\ request' = [request EXCEPT ![r] =
                    [@ EXCEPT !.at = "save", !.token = hec', !.touched = TRUE]]
    /\ UNCHANGED <<stanza, input, made, trouble>>

RemoveToken(r) ==
    /\ request[r].at = "remove"
    /\ DeleteAccepted /\ DeleteApplies
    /\ request' = [request EXCEPT ![r] = [@ EXCEPT !.at = "save", !.touched = TRUE]]
    /\ UNCHANGED <<stanza, input, made, trouble>>

\* What the request makes of the stanza: a field that is not in the payload keeps its
\* value, and gets the default 1 (or no token) in a new stanza.
Saved(q) ==
    [batch |-> IF q.mode = "unset" THEN q.op = "create" \/ stanza.batch ELSE q.mode = "1",
     token |-> IF q.mode = "0" THEN (IF q.op = "create" THEN NoToken ELSE stanza.token)
               ELSE q.token]

\* External: the framework runs the hook first and then saves or deletes the stanza.
SaveAccepted(r) == (request[r].op = "create") <=> (stanza = NoStanza)

SaveStanza(r) ==
    /\ request[r].at = "save"
    /\ SaveAccepted(r)
    /\ stanza' = IF request[r].op = "delete" THEN NoStanza ELSE Saved(request[r])
    /\ Ends(r)
    /\ UNCHANGED <<hec, issued, input, made, trouble>>

\* splunkd says no, and the exception ends the request.
Refused(r) ==
    /\ \/ request[r].at = "create" /\ ~PostAccepted
       \/ request[r].at = "remove" /\ ~DeleteAccepted
       \/ request[r].at = "save"   /\ ~SaveAccepted(r)
    /\ Ends(r)
    /\ UNCHANGED <<stanza, hec, issued, input, made, trouble>>

\* The call fails, or only its answer is lost; the stanza may fail its validation.
RequestFails(r) ==
    /\ Trouble
    /\ request[r] # NoRequest
    /\ Ends(r)
    /\ \/ UNCHANGED <<hec, issued>>
       \/ request[r].at = "create" /\ PostAccepted /\ PostApplies
       \/ request[r].at = "remove" /\ DeleteAccepted /\ DeleteApplies
    /\ UNCHANGED <<stanza, input>>

RequestStep(r) ==
    FindToken(r) \/ CreateToken(r) \/ RemoveToken(r) \/ SaveStanza(r) \/ Refused(r)

-------------------------------------------------------------------------------
(* The input's process: collect_events until the main loop *)

\* External: splunkd starts the input with the arguments of its stanza.
StartInput ==
    /\ input.at = "off" /\ stanza # NoStanza
    /\ input' = [at |-> IF stanza.batch THEN "lookup" ELSE "running",
                 batch |-> stanza.batch, current |-> stanza.token, actual |-> NoToken]
    /\ UNCHANGED <<stanza, hec, issued, request, made, trouble>>

\* Seeded fault: a token is persisted only where there was none.
NeedsPersistIfEmpty(current, actual) == current = NoToken

NeedsPersist(current, actual) == current # actual

LooksUp ==
    /\ input.at = "lookup"
    /\ input' = [input EXCEPT
                    !.actual = TokenFound,
                    !.at = IF TokenFound = NoToken THEN "create"
                           ELSE IF NeedsPersist(input.current, TokenFound) THEN "persist"
                           ELSE "running"]
    /\ UNCHANGED <<stanza, hec, issued, request, made, trouble>>

CreatesToken ==
    /\ input.at = "create"
    /\ PostAccepted /\ PostApplies
    /\ input' = [input EXCEPT
                    !.actual = hec',
                    !.at = IF NeedsPersist(input.current, hec') THEN "persist" ELSE "running"]
    /\ UNCHANGED <<stanza, request, made, trouble>>

Persists ==
    /\ input.at = "persist"
    /\ stanza # NoStanza
    /\ stanza' = [stanza EXCEPT !.token = input.actual]
    /\ input' = [input EXCEPT !.at = "running"]
    /\ UNCHANGED <<hec, issued, request, made, trouble>>

\* An exception is logged and collect_events returns: the name is taken, or the stanza
\* that should be updated is gone.
GivesUp ==
    /\ \/ input.at = "create"  /\ ~PostAccepted
       \/ input.at = "persist" /\ stanza = NoStanza
    /\ input' = Off
    /\ UNCHANGED <<stanza, hec, issued, request, made, trouble>>

\* A call of splunkd fails, or its answer is lost: the same way out.
InputFails ==
    /\ Trouble
    /\ input.at \in {"lookup", "create", "persist"}
    /\ input' = Off
    /\ \/ UNCHANGED <<stanza, hec, issued>>
       \/ input.at = "create" /\ PostAccepted /\ PostApplies /\ UNCHANGED stanza
       \/ /\ input.at = "persist" /\ stanza # NoStanza
          /\ stanza' = [stanza EXCEPT !.token = input.actual]
          /\ UNCHANGED <<hec, issued>>
    /\ UNCHANGED request

\* External: splunkd stops an input whose stanza is gone, and others at a restart.
Stopped ==
    /\ input.at # "off"
    /\ \/ stanza = NoStanza /\ UNCHANGED <<made, trouble>>
       \/ stanza # NoStanza /\ Trouble
    /\ input' = Off
    /\ UNCHANGED <<stanza, hec, issued, request>>

InputStep == StartInput \/ LooksUp \/ CreatesToken \/ Persists \/ GivesUp

-------------------------------------------------------------------------------

Step ==
    \/ \E r \in Requests :
          \/ \E op \in Operations, mode \in Modes : Submit(r, op, mode)
          \/ RequestStep(r) \/ RequestFails(r)
    \/ InputStep \/ InputFails \/ Stopped \/ ChangedByHand

\* Who is between its first and its last call of splunkd.
RequestsMidWay == {r \in Requests : request[r] # NoRequest}
InputMidWay    == input.at \in {"lookup", "create", "persist"}

\* Stanza or collection change while somebody else is in the middle of its calls.
Overlaps ==
    /\ <<stanza, hec>>' # <<stanza, hec>>
    /\ \/ \E r \in RequestsMidWay : request'[r] = request[r]
       \/ InputMidWay /\ input' = input

\* A request or a start ends although it has created or removed a token.
FailsHalfWay ==
    \/ \E r \in RequestsMidWay :
          /\ Refused(r) \/ RequestFails(r)
          /\ request[r].touched \/ hec' # hec
    \/ input.at \in {"create", "persist"} /\ input' = Off

Observe ==
    /\ tidy' = (tidy /\ ~Overlaps /\ ~FailsHalfWay /\ ~ChangedByHand)
    /\ undisturbed' = \/ input'.at = "off"
                      \/ undisturbed /\ (input' # input \/ <<stanza, hec>>' = <<stanza, hec>>)

Next == Step /\ Observe

\* Every request and every start goes on: urlopen has a timeout of ten seconds.  splunkd
\* starts an input that has ended again (an interval other than -1).
Fairness ==
    /\ WF_vars(InputStep /\ Observe)
    /\ \A r \in Requests : WF_vars(RequestStep(r) /\ Observe)

Spec == Init /\ [][Next]_vars /\ Fairness

-------------------------------------------------------------------------------
(* Correctness *)

Tokens == 0 .. issued

\* Every variable has its type; nobody holds a token that splunkd never made, and where a
\* token is about to be saved or persisted it is not the empty one.
TypeOK ==
    /\ stanza = NoStanza \/ stanza \in [batch : BOOLEAN, token : Tokens]
    /\ issued \in Nat /\ hec \in Tokens
    /\ request \in [Requests ->
            [op : Operations, mode : Modes, token : Tokens, touched : BOOLEAN,
             at : {"none", "find", "create", "remove", "save"}]]
    /\ input \in [at : {"off", "lookup", "create", "persist", "running"},
                  batch : BOOLEAN, current : Tokens, actual : Tokens]
    /\ \A r \in Requests :
          request[r].at = "save" /\ request[r].op # "delete" /\ request[r].mode # "0"
            => request[r].token # NoToken
    /\ input.at = "persist" => input.actual # NoToken
    /\ made \in 0 .. MaxRequests /\ trouble \in 0 .. MaxTrouble
    /\ tidy \in BOOLEAN /\ undisturbed \in BOOLEAN

\* A batching input that has started works with the token splunkd accepts, and leaves it
\* in its stanza, whatever orphans, conflicts and lost answers it was started after:
\* unless somebody else has changed one of them since (_ensure_runtime_hec_token).
RunsOnAcceptedToken ==
    (input.at = "running" /\ input.batch) =>
        /\ input.actual # NoToken
        /\ undisturbed => hec = input.actual /\ stanza.token = input.actual

\* The hooks and the starts together manage the token: as long as no two of them overlap
\* and none fails half-way, at rest a token has an input, and a batching input has its
\* token (create_hook, edit_hook, delete_hook).
TokenLivesWithInput ==
    (tidy /\ RequestsMidWay = {} /\ ~InputMidWay) =>
        /\ hec # NoToken => stanza # NoStanza
        /\ stanza.batch => hec # NoToken /\ stanza.token = hec

\* A start that fails, for a conflict with the REST handler or a lost answer, is repaired
\* by a later one: a batching input that is off is eventually running, unless it is
\* deleted or no longer batches.
FailedStartRepaired ==
    (input.at = "off" /\ stanza.batch)
        ~> (input.at = "running" \/ stanza = NoStanza \/ ~stanza.batch)
===============================================================================
