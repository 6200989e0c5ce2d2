---------------------------- MODULE HecTokenProofs ----------------------------
(***************************************************************************)
(* Proof that an input of HecToken runs on the token splunkd accepts, for  *)
(* any number of requests and failures.                                    *)
(***************************************************************************)
EXTENDS HecToken, TLAPS

\* As much of the types as the proof needs.
Shape ==
    /\ DOMAIN stanza = {"batch", "token"}
    /\ DOMAIN input = {"at", "batch", "current", "actual"}
    /\ issued \in Nat /\ hec \in Nat

\* What an input in the middle of its start knows, as long as nobody disturbs it: the
\* stanza still holds the token it was started with, and the token it has found or
\* created is the accepted one.
KnownAtStart ==
    /\ input.at = "persist" => input.actual # NoToken
    /\ (undisturbed /\ input.at \in {"lookup", "create", "persist"})
            => stanza.token = input.current
    /\ (undisturbed /\ input.at = "persist") => hec = input.actual

StartInvariant == Shape /\ KnownAtStart /\ RunsOnAcceptedToken

-------------------------------------------------------------------------------
(* What each step of the system makes of the input, the stanza's token and the collection *)

OthersMove ==
    /\ UNCHANGED input
    /\ undisturbed' => input.at = "off" \/ (undisturbed /\ UNCHANGED <<stanza, hec>>)

InputStarts ==
    /\ input.at = "off"
    /\ input'.at = "lookup" \/ (input'.at = "running" /\ ~input'.batch)
    /\ input'.current = stanza.token
    /\ UNCHANGED <<stanza, hec>>

InputFinds ==
    /\ input.at = "lookup"
    /\ UNCHANGED <<stanza, hec>>
    /\ input'.current = input.current /\ input'.actual = hec
    /\ \/ input'.at = "create"
       \/ input'.at = "persist" /\ hec # NoToken
       \/ input'.at = "running" /\ hec # NoToken /\ input.current = hec

InputCreates ==
    /\ input.at = "create"
    /\ UNCHANGED stanza /\ hec' # NoToken
    /\ input'.current = input.current /\ input'.actual = hec'
    /\ \/ input'.at = "persist"
       \/ input'.at = "running" /\ input.current = hec'

InputPersists ==
    /\ input.at = "persist" /\ input'.at = "running"
    /\ UNCHANGED hec
    /\ input'.actual = input.actual /\ stanza'.token = input.actual

InputEnds == input'.at = "off"

LEMMA StartsIsFirst == StartInput => InputStarts
<1> SUFFICES ASSUME StartInput PROVE InputStarts
    OBVIOUS
<1>1. /\ input' = [at |-> IF stanza.batch THEN "lookup" ELSE "running",
                   batch |-> stanza.batch, current |-> stanza.token, actual |-> NoToken]
      /\ input.at = "off" /\ UNCHANGED <<stanza, hec>>
    BY Zenon DEF StartInput
<1>2. /\ input'.at = (IF stanza.batch THEN "lookup" ELSE "running")
      /\ input'.batch = stanza.batch /\ input'.current = stanza.token
    BY <1>1, Zenon
<1> QED
    BY <1>1, <1>2, Zenon DEF InputStarts

LEMMA LooksUpFinds == Shape /\ LooksUp => InputFinds
<1> SUFFICES ASSUME Shape, LooksUp PROVE InputFinds
    OBVIOUS
<1>1. /\ input.at = "lookup" /\ UNCHANGED <<stanza, hec>>
      /\ input' = [input EXCEPT
                    !.actual = hec,
                    !.at = IF hec = NoToken THEN "create"
                           ELSE IF input.current # hec THEN "persist"
                           ELSE "running"]
    BY DEF LooksUp, TokenFound, NeedsPersist
<1>2. /\ input'.actual = hec /\ input'.current = input.current
      /\ input'.at = IF hec = NoToken THEN "create"
                           ELSE IF input.current # hec THEN "persist"
                           ELSE "running"
    BY <1>1 DEF Shape
<1> QED
    BY <1>1, <1>2 DEF InputFinds

LEMMA CreatesIsNew == Shape /\ CreatesToken => InputCreates
<1> SUFFICES ASSUME Shape, CreatesToken PROVE InputCreates
    OBVIOUS
<1>1. /\ input.at = "create" /\ UNCHANGED stanza /\ hec' = issued + 1
      /\ input' = [input EXCEPT
                    !.actual = hec',
                    !.at = IF input.current # hec' THEN "persist" ELSE "running"]
    BY DEF CreatesToken, PostApplies, NeedsPersist
<1>2. /\ input'.actual = hec' /\ input'.current = input.current
      /\ input'.at = IF input.current # hec' THEN "persist" ELSE "running"
    BY <1>1 DEF Shape
<1>3. hec' # NoToken
    BY <1>1 DEF Shape, NoToken
<1> QED
    BY <1>1, <1>2, <1>3 DEF InputCreates

LEMMA PersistsStores == Shape /\ Persists => InputPersists
<1> SUFFICES ASSUME Shape, Persists PROVE InputPersists
    OBVIOUS
<1>1. /\ input.at = "persist" /\ UNCHANGED hec
      /\ stanza' = [stanza EXCEPT !.token = input.actual]
      /\ input' = [input EXCEPT !.at = "running"]
    BY DEF Persists
<1>2. stanza'.token = input.actual
    BY <1>1 DEF Shape
<1>3. input'.at = "running" /\ input'.actual = input.actual
    BY <1>1 DEF Shape
<1> QED
    BY <1>1, <1>2, <1>3 DEF InputPersists

LEMMA EndsIsOff == GivesUp \/ InputFails \/ Stopped => InputEnds
<1>1. GivesUp \/ InputFails \/ Stopped => input' = Off
    BY Zenon DEF GivesUp, InputFails, Stopped
<1>2. Off.at = "off"
    BY DEF Off
<1> QED
    BY <1>1, <1>2, Zenon DEF InputEnds

LEMMA OthersLeaveInput ==
    ASSUME NEW r \in Requests, Observe,
           \/ \E op \in Operations, mode \in Modes : Submit(r, op, mode)
           \/ RequestStep(r) \/ RequestFails(r)
    PROVE  OthersMove
<1>1. UNCHANGED input
    BY Zenon DEF Submit, RequestStep, RequestFails, FindToken, CreateToken, RemoveToken,
                 SaveStanza, Refused
<1>2. undisturbed' => \/ input'.at = "off"
                      \/ undisturbed /\ (input' # input \/ <<stanza, hec>>' = <<stanza, hec>>)
    BY Zenon DEF Observe
<1> QED
    BY <1>1, <1>2, Zenon DEF OthersMove

LEMMA HandLeavesInput == ChangedByHand /\ Observe => OthersMove
<1> SUFFICES ASSUME ChangedByHand, Observe PROVE OthersMove
    OBVIOUS
<1>1. UNCHANGED input
    BY Zenon DEF ChangedByHand
<1>2. undisturbed' => \/ input'.at = "off"
                      \/ undisturbed /\ (input' # input \/ <<stanza, hec>>' = <<stanza, hec>>)
    BY Zenon DEF Observe
<1> QED
    BY <1>1, <1>2, Zenon DEF OthersMove

\* A step of the input itself leaves it undisturbed only if it was before.
StaysSo == undisturbed' => (undisturbed \/ input'.at = "off")

LEMMA StepKinds ==
    ASSUME Shape, [Next]_vars
    PROVE  /\ StaysSo \/ OthersMove
           /\ \/ OthersMove \/ InputStarts \/ InputFinds \/ InputCreates \/ InputPersists
              \/ InputEnds
<1>1. CASE UNCHANGED vars
    BY <1>1, Zenon DEF vars, OthersMove, StaysSo
<1>2. CASE Next
  <2>1. Step /\ Observe
    BY <1>2, Zenon DEF Next
  <2>2. StaysSo
    BY <2>1, Zenon DEF Observe, StaysSo
  <2>3. CASE \E r \in Requests :
                \/ \E op \in Operations, mode \in Modes : Submit(r, op, mode)
                \/ RequestStep(r) \/ RequestFails(r)
    BY <2>1, <2>2, <2>3, OthersLeaveInput, Zenon
  <2>4. CASE ChangedByHand
    BY <2>1, <2>2, <2>4, HandLeavesInput, Zenon
  <2>5. CASE InputStep \/ InputFails \/ Stopped
    BY <2>2, <2>5, StartsIsFirst, LooksUpFinds, CreatesIsNew, PersistsStores, EndsIsOff, Zenon
       DEF InputStep
  <2> QED
    BY <2>1, <2>3, <2>4, <2>5, Zenon DEF Step
<1> QED
    BY <1>1, <1>2, Zenon

-------------------------------------------------------------------------------

LEMMA StanzaShape ==
    ASSUME DOMAIN stanza = {"batch", "token"}, [Next]_vars
    PROVE  DOMAIN stanza' = {"batch", "token"}
<1>1. CASE UNCHANGED stanza
    BY <1>1, Zenon
<1>2. CASE stanza' = NoStanza
  <2>1. DOMAIN NoStanza = {"batch", "token"}
    BY DEF NoStanza
  <2> QED
    BY <1>2, <2>1, Zenon
<1>3. ASSUME NEW r \in Requests, stanza' = Saved(request[r])
      PROVE  DOMAIN stanza' = {"batch", "token"}
  <2>1. DOMAIN Saved(request[r]) = {"batch", "token"}
    BY DEF Saved
  <2> QED
    BY <1>3, <2>1, Zenon
<1>4. CASE stanza' = [stanza EXCEPT !.token = input.actual]
    BY <1>4
<1>5. \/ UNCHANGED stanza \/ stanza' = NoStanza
      \/ \E r \in Requests : stanza' = Saved(request[r])
      \/ stanza' = [stanza EXCEPT !.token = input.actual]
  <2>1. CASE UNCHANGED vars
    BY <2>1, Zenon DEF vars
  <2>2. CASE \E r \in Requests : SaveStanza(r)
    <3>1. PICK r \in Requests : SaveStanza(r)
        BY <2>2, Zenon
    <3> QED
        BY <3>1, Zenon DEF SaveStanza
  <2>3. CASE \E r \in Requests :
                \/ \E op \in Operations, mode \in Modes : Submit(r, op, mode)
                \/ FindToken(r) \/ CreateToken(r) \/ RemoveToken(r) \/ Refused(r)
                \/ RequestFails(r)
    BY <2>3, Zenon DEF Submit, FindToken, CreateToken, RemoveToken, Refused, RequestFails
  <2>4. CASE StartInput \/ LooksUp \/ CreatesToken \/ Persists \/ GivesUp
    BY <2>4, Zenon DEF StartInput, LooksUp, CreatesToken, Persists, GivesUp
  <2>5. CASE InputFails \/ Stopped \/ ChangedByHand
    BY <2>5, Zenon DEF InputFails, Stopped, ChangedByHand
  <2> QED
    BY <2>1, <2>2, <2>3, <2>4, <2>5, Zenon DEF Next, Step, InputStep, RequestStep
<1> QED
    BY <1>1, <1>2, <1>3, <1>4, <1>5, Zenon

LEMMA InputShape ==
    ASSUME DOMAIN input = {"at", "batch", "current", "actual"}, [Next]_vars
    PROVE  DOMAIN input' = {"at", "batch", "current", "actual"}
<1>1. CASE UNCHANGED input
    BY <1>1, Zenon
<1>2. CASE input' = Off
    BY <1>2 DEF Off
<1>3. CASE StartInput
  <2>1. PICK at, batch : input' = [at |-> at, batch |-> batch, current |-> stanza.token,
                                   actual |-> NoToken]
    BY <1>3, Zenon DEF StartInput
  <2> QED
    BY <2>1
<1>4. CASE LooksUp
    BY <1>4 DEF LooksUp
<1>5. CASE CreatesToken
    BY <1>5 DEF CreatesToken
<1>6. CASE Persists
    BY <1>6 DEF Persists
<1>7. \/ UNCHANGED input \/ input' = Off
      \/ StartInput \/ LooksUp \/ CreatesToken \/ Persists
  <2>1. CASE UNCHANGED vars
    BY <2>1, Zenon DEF vars
  <2>2. CASE \E r \in Requests :
                \/ \E op \in Operations, mode \in Modes : Submit(r, op, mode)
                \/ FindToken(r) \/ CreateToken(r) \/ RemoveToken(r) \/ SaveStanza(r)
                \/ Refused(r) \/ RequestFails(r)
    BY <2>2, Zenon DEF Submit, FindToken, CreateToken, RemoveToken, SaveStanza, Refused,
                       RequestFails
  <2>3. CASE GivesUp \/ InputFails \/ Stopped \/ ChangedByHand
    BY <2>3, Zenon DEF GivesUp, InputFails, Stopped, ChangedByHand
  <2> QED
    BY <2>1, <2>2, <2>3, Zenon DEF Next, Step, InputStep, RequestStep
<1> QED
    BY <1>1, <1>2, <1>3, <1>4, <1>5, <1>6, <1>7, Zenon

LEMMA TokenMoves ==
    ASSUME [Next]_vars
    PROVE  \/ UNCHANGED <<issued, hec>>
           \/ hec' = issued + 1 /\ issued' = issued + 1
           \/ hec' = NoToken /\ UNCHANGED issued
<1> USE DEF PostApplies, DeleteApplies
<1>1. CASE UNCHANGED vars
  BY <1>1, Zenon DEF vars
<1>2. CASE \E r \in Requests :
              \/ \E op \in Operations, mode \in Modes : Submit(r, op, mode)
              \/ FindToken(r) \/ CreateToken(r) \/ RemoveToken(r) \/ SaveStanza(r)
              \/ Refused(r) \/ RequestFails(r)
  BY <1>2, Zenon DEF Submit, FindToken, CreateToken, RemoveToken, SaveStanza, Refused,
                     RequestFails
<1>3. CASE StartInput \/ LooksUp \/ CreatesToken \/ Persists \/ GivesUp
  BY <1>3, Zenon DEF StartInput, LooksUp, CreatesToken, Persists, GivesUp
<1>4. CASE InputFails \/ Stopped \/ ChangedByHand
  BY <1>4, Zenon DEF InputFails, Stopped, ChangedByHand
<1> QED
  BY <1>1, <1>2, <1>3, <1>4, Zenon DEF Next, Step, InputStep, RequestStep

LEMMA TokensAreNumbers ==
    ASSUME issued \in Nat, hec \in Nat, [Next]_vars
    PROVE  issued' \in Nat /\ hec' \in Nat
BY TokenMoves DEF NoToken

LEMMA StartStep ==
    ASSUME StartInvariant, [Next]_vars
    PROVE  StartInvariant'
<1>1. Shape'
    BY StanzaShape, InputShape, TokensAreNumbers, Zenon DEF StartInvariant, Shape
<1>2. StaysSo \/ OthersMove
    BY StepKinds, Zenon DEF StartInvariant
<1>3. KnownAtStart /\ RunsOnAcceptedToken
    BY DEF StartInvariant
<1>4. ASSUME OthersMove PROVE KnownAtStart' /\ RunsOnAcceptedToken'
  <2>1. /\ input' = input
        /\ undisturbed' => (input.at = "off" \/ (undisturbed /\ stanza' = stanza /\ hec' = hec))
    BY <1>4, Zenon DEF OthersMove
  <2>2. input.at = "off" => KnownAtStart' /\ RunsOnAcceptedToken'
    BY <2>1 DEF KnownAtStart, RunsOnAcceptedToken
  <2>3. ASSUME input.at # "off" PROVE KnownAtStart'
    BY <1>3, <2>1, <2>3 DEF KnownAtStart
  <2>4. ASSUME input.at # "off" PROVE RunsOnAcceptedToken'
    BY <1>3, <2>1, <2>4 DEF RunsOnAcceptedToken
  <2> QED
    BY <2>2, <2>3, <2>4, Zenon
<1>5. ASSUME StaysSo, InputStarts PROVE KnownAtStart' /\ RunsOnAcceptedToken'
    BY <1>5, Zenon DEF StaysSo, InputStarts, KnownAtStart, RunsOnAcceptedToken
<1>6. ASSUME StaysSo, InputFinds PROVE KnownAtStart' /\ RunsOnAcceptedToken'
    BY <1>3, <1>6 DEF StaysSo, InputFinds, KnownAtStart, RunsOnAcceptedToken
<1>7. ASSUME StaysSo, InputCreates PROVE KnownAtStart' /\ RunsOnAcceptedToken'
    BY <1>3, <1>7 DEF StaysSo, InputCreates, KnownAtStart, RunsOnAcceptedToken
<1>8. ASSUME StaysSo, InputPersists PROVE KnownAtStart' /\ RunsOnAcceptedToken'
    BY <1>3, <1>8 DEF StaysSo, InputPersists, KnownAtStart, RunsOnAcceptedToken
<1>9. ASSUME InputEnds PROVE KnownAtStart' /\ RunsOnAcceptedToken'
    BY <1>9 DEF InputEnds, KnownAtStart, RunsOnAcceptedToken
<1> QED
    BY <1>1, <1>2, <1>4, <1>5, <1>6, <1>7, <1>8, <1>9, StepKinds, Zenon DEF StartInvariant

LEMMA StartInit == Init => StartInvariant
<1> SUFFICES ASSUME Init PROVE StartInvariant
    OBVIOUS
<1>1. /\ stanza \in {NoStanza, [batch |-> TRUE, token |-> NoToken]}
      /\ hec = NoToken /\ issued = 0 /\ input = Off
    BY Zenon DEF Init
<1>2. /\ DOMAIN NoStanza = {"batch", "token"}
      /\ DOMAIN [batch |-> TRUE, token |-> NoToken] = {"batch", "token"}
      /\ DOMAIN Off = {"at", "batch", "current", "actual"} /\ Off.at = "off"
    BY DEF NoStanza, Off
<1>3. Shape
    BY <1>1, <1>2 DEF Shape, NoToken
<1>4. KnownAtStart /\ RunsOnAcceptedToken
    BY <1>1, <1>2 DEF KnownAtStart, RunsOnAcceptedToken
<1> QED
    BY <1>3, <1>4 DEF StartInvariant

\* Whatever requests, failures and changes by hand there are, and however many: a
\* batching input that has started holds a token, and unless somebody else has changed
\* stanza or collection since its start, it is the accepted one and the one in the stanza.
THEOREM AlwaysRunsOnAcceptedToken == Spec => []RunsOnAcceptedToken
<1>1. StartInvariant /\ [Next]_vars => StartInvariant'
    BY StartStep
<1>2. StartInvariant => RunsOnAcceptedToken
    BY DEF StartInvariant
<1> QED
    BY StartInit, <1>1, <1>2, PTL DEF Spec

-------------------------------------------------------------------------------
(* Types, and the order in which a hook makes its calls *)

Stanzas(n) == {NoStanza} \cup [batch : BOOLEAN, token : 0 .. n]

HookRecords(n) == [op : Operations, mode : Modes, token : 0 .. n, touched : BOOLEAN,
                   at : {"none", "find", "create", "remove", "save"}]

\* Where a hook can be: it calls splunkd only if it does not skip, creates a token unless
\* the stanza is deleted, removes one only then, and has changed the collection only where
\* the stanza is saved next.
HookOrder(q) ==
    /\ q.at = "save" /\ q.op # "delete" /\ q.mode # "0" => q.token # NoToken
    /\ q.at \in {"find", "create"} => q.op = "delete" \/ q.mode # "0"
    /\ q.at = "create" => q.op # "delete"
    /\ q.at = "remove" => q.op = "delete"
    /\ q.touched => q.at = "save" /\ (q.op = "delete" \/ q.mode # "0")

HookStates(n) == {q \in HookRecords(n) : HookOrder(q)}

StartRecords(n) == [at : {"off", "lookup", "create", "persist", "running"},
                    batch : BOOLEAN, current : 0 .. n, actual : 0 .. n]

StartStates(n) == {i \in StartRecords(n) : i.at = "persist" => i.actual # NoToken}

TypeInvariant ==
    /\ stanza \in Stanzas(issued)
    /\ issued \in Nat /\ hec \in 0 .. issued
    /\ request \in [Requests -> HookStates(issued)]
    /\ input \in StartStates(issued)
    /\ made \in 0 .. MaxRequests /\ trouble \in 0 .. MaxTrouble
    /\ tidy \in BOOLEAN /\ undisturbed \in BOOLEAN

\* Tokens are never unmade: what has its type keeps it.
LEMMA TypesGrow ==
    ASSUME NEW n \in Nat, NEW m \in Nat, n <= m
    PROVE  /\ Stanzas(n) \subseteq Stanzas(m)
           /\ HookStates(n) \subseteq HookStates(m)
           /\ StartStates(n) \subseteq StartStates(m)
<1>1. 0 .. n \subseteq 0 .. m
    OBVIOUS
<1>2. [batch : BOOLEAN, token : 0 .. n] \subseteq [batch : BOOLEAN, token : 0 .. m]
    BY <1>1
<1>3. HookRecords(n) \subseteq HookRecords(m)
    BY <1>1 DEF HookRecords
<1>4. StartRecords(n) \subseteq StartRecords(m)
    BY <1>1 DEF StartRecords
<1> QED
    BY <1>2, <1>3, <1>4, Zenon DEF Stanzas, HookStates, StartStates

LEMMA TypesAre == TypeInvariant => TypeOK
<1> SUFFICES ASSUME TypeInvariant PROVE TypeOK
    OBVIOUS
<1>1. stanza = NoStanza \/ stanza \in [batch : BOOLEAN, token : Tokens]
    BY Zenon DEF TypeInvariant, Stanzas, Tokens
<1>2. request \in [Requests -> HookRecords(issued)]
    BY DEF TypeInvariant, HookStates
<1>3. \A r \in Requests : HookOrder(request[r])
    BY DEF TypeInvariant, HookStates
<1>4. input \in StartRecords(issued) /\ (input.at = "persist" => input.actual # NoToken)
    BY Zenon DEF TypeInvariant, StartStates
<1> QED
    BY <1>1, <1>2, <1>3, <1>4, Zenon
       DEF TypeInvariant, TypeOK, Tokens, HookRecords, HookOrder, StartRecords

LEMMA TypeInit == Init => TypeInvariant
<1> SUFFICES ASSUME Init PROVE TypeInvariant
    OBVIOUS
<1>0. /\ stanza \in {NoStanza, [batch |-> TRUE, token |-> NoToken]}
      /\ hec = NoToken /\ issued = 0
    BY Zenon DEF Init
<1>1. [batch |-> TRUE, token |-> NoToken] \in [batch : BOOLEAN, token : 0 .. 0]
    BY DEF NoToken
<1>11. stanza \in Stanzas(0)
    BY <1>0, <1>1, Zenon DEF Stanzas
<1>2. NoRequest \in HookStates(0)
    BY DEF NoRequest, HookStates, HookRecords, HookOrder, Operations, Modes, NoToken
<1>3. Off \in StartStates(0)
    BY DEF Off, StartStates, StartRecords, NoToken
<1>4. request \in [Requests -> HookStates(0)]
    BY <1>2 DEF Init
<1>5. tidy \in BOOLEAN /\ undisturbed \in BOOLEAN
    BY Zenon DEF Init
<1>6. made \in 0 .. MaxRequests /\ trouble \in 0 .. MaxTrouble
    BY TokenAssumption DEF Init
<1>7. input \in StartStates(0)
    BY <1>3, Zenon DEF Init
<1>8. issued \in Nat /\ hec \in 0 .. issued
    BY <1>0 DEF NoToken
<1> QED
    BY <1>0, <1>11, <1>4, <1>5, <1>6, <1>7, <1>8, Zenon DEF TypeInvariant

-------------------------------------------------------------------------------
(* What each step of a request makes of it *)

OnlyRequest(r, q) ==
    /\ request' = [request EXCEPT ![r] = q]
    /\ q \in HookStates(issued')
    /\ UNCHANGED input

RequestAsked(r, q) ==
    /\ ~request[r].touched
    /\ q.at = "save" => q.op # "delete" /\ q.mode = "0"
    /\ ~q.touched
    /\ UNCHANGED <<stanza, hec>>

RequestFinds(r, q) ==
    /\ ~request[r].touched
    /\ q.at = "save" => IF q.op = "delete" THEN hec = NoToken
                        ELSE hec # NoToken /\ q.token = hec
    /\ ~q.touched
    /\ UNCHANGED <<stanza, hec>>

RequestCreates(r, q) ==
    /\ hec = NoToken /\ hec' # NoToken /\ UNCHANGED stanza
    /\ request[r].at = "create"
    /\ q.op # "delete" /\ q.token = hec' /\ q.touched

RequestRemoves(r, q) ==
    /\ hec # NoToken /\ hec' = NoToken /\ UNCHANGED stanza
    /\ request[r].at = "remove"
    /\ q.op = "delete" /\ q.touched

RequestSaves(r, q) ==
    /\ request[r].at = "save" /\ SaveAccepted(r)
    /\ stanza' = IF request[r].op = "delete" THEN NoStanza ELSE Saved(request[r])
    /\ q = NoRequest /\ UNCHANGED hec

RequestEnds(r, q) ==
    /\ request[r] # NoRequest /\ q = NoRequest
    /\ Refused(r) \/ RequestFails(r)
    /\ UNCHANGED stanza

RequestMoves(r, q) ==
    \/ RequestAsked(r, q) \/ RequestFinds(r, q) \/ RequestCreates(r, q)
    \/ RequestRemoves(r, q) \/ RequestSaves(r, q) \/ RequestEnds(r, q)

LEMMA NoRequestTyped ==
    ASSUME NEW n \in Nat
    PROVE  NoRequest \in HookStates(n)
BY DEF NoRequest, HookStates, HookRecords, HookOrder, Operations, Modes, NoToken

LEMMA SubmitMoves ==
    ASSUME TypeInvariant, NEW r \in Requests, NEW op \in Operations, NEW mode \in Modes,
           Submit(r, op, mode)
    PROVE  \E q : OnlyRequest(r, q) /\ RequestMoves(r, q)
<1> DEFINE p == request[r]
           to == IF op # "delete" /\ mode = "0" THEN "save" ELSE "find"
           q == [p EXCEPT !.op = op, !.mode = mode, !.at = to]
<1>1. /\ p = NoRequest /\ UNCHANGED <<stanza, hec, issued, input>>
      /\ request' = [request EXCEPT ![r] = q]
    BY Zenon DEF Submit, HookSkips
<1>2. p \in HookRecords(issued)
    BY DEF TypeInvariant, HookStates
<1>3. ~p.touched
  <2>1. NoRequest.touched = FALSE
    BY DEF NoRequest
  <2> QED
    BY <1>1, <2>1, Zenon
<1>4. q \in HookRecords(issued)
    BY <1>2 DEF HookRecords
<1>5. q.op = op /\ q.mode = mode /\ q.at = to /\ q.touched = p.touched
    BY <1>2 DEF HookRecords
<1>6. HookOrder(q)
    BY <1>3, <1>5 DEF HookOrder
<1>7. q \in HookStates(issued)
    BY <1>4, <1>6, Zenon DEF HookStates
<1>8. RequestAsked(r, q)
    BY <1>1, <1>3, <1>5 DEF RequestAsked
<1> QED
    BY <1>1, <1>7, <1>8, Zenon DEF OnlyRequest, RequestMoves

LEMMA FindMoves ==
    ASSUME TypeInvariant, NEW r \in Requests, FindToken(r)
    PROVE  \E q : OnlyRequest(r, q) /\ RequestMoves(r, q)
<1> DEFINE p == request[r]
           to == AfterFind(p.op)
           q == [p EXCEPT !.at = to, !.token = hec]
<1>1. /\ p.at = "find" /\ UNCHANGED <<stanza, hec, issued, input>>
      /\ request' = [request EXCEPT ![r] = q]
    BY DEF FindToken, TokenFound
<1>2. p \in HookStates(issued) /\ hec \in 0 .. issued
    BY DEF TypeInvariant
<1>3. to = IF p.op = "delete" THEN IF hec = NoToken THEN "save" ELSE "remove"
           ELSE IF hec = NoToken THEN "create" ELSE "save"
    BY DEF AfterFind, TokenFound
<1>4. q \in HookRecords(issued)
    BY <1>2, <1>3 DEF HookStates, HookRecords
<1>5. /\ q.at = to /\ q.token = hec /\ q.op = p.op /\ q.mode = p.mode
      /\ q.touched = p.touched
    BY <1>2 DEF HookStates, HookRecords
<1>6. ~p.touched /\ (p.op = "delete" \/ p.mode # "0")
    BY <1>1, <1>2 DEF HookStates, HookOrder
<1>7. HookOrder(q)
    BY <1>3, <1>5, <1>6 DEF HookOrder
<1>8. q \in HookStates(issued)
    BY <1>4, <1>7, Zenon DEF HookStates
<1>9. RequestFinds(r, q)
    BY <1>1, <1>3, <1>5, <1>6 DEF RequestFinds
<1> QED
    BY <1>1, <1>8, <1>9, Zenon DEF OnlyRequest, RequestMoves

LEMMA CreateMoves ==
    ASSUME TypeInvariant, NEW r \in Requests, CreateToken(r)
    PROVE  \E q : OnlyRequest(r, q) /\ RequestMoves(r, q)
<1> DEFINE p == request[r]
           q == [p EXCEPT !.at = "save", !.token = issued + 1, !.touched = TRUE]
<1>1. /\ p.at = "create" /\ UNCHANGED <<stanza, input>>
      /\ hec = NoToken /\ hec' = issued + 1 /\ issued' = issued + 1
      /\ request' = [request EXCEPT ![r] = q]
  <2>1. /\ p.at = "create" /\ UNCHANGED <<stanza, input>>
        /\ hec = NoToken /\ hec' = issued + 1 /\ issued' = issued + 1
        /\ request' = [request EXCEPT ![r] =
                          [@ EXCEPT !.at = "save", !.token = hec', !.touched = TRUE]]
    BY Zenon DEF CreateToken, PostAccepted, PostApplies
  <2> QED
    BY <2>1, Zenon
<1>2. p \in HookStates(issued) /\ issued \in Nat
    BY DEF TypeInvariant
<1>3. q \in HookRecords(issued + 1)
  <2>1. p \in HookRecords(issued + 1)
    BY <1>2, TypesGrow DEF HookStates
  <2>2. issued + 1 \in 0 .. issued + 1
    BY <1>2
  <2> QED
    BY <2>1, <2>2 DEF HookRecords
<1>4. /\ q.at = "save" /\ q.token = issued + 1 /\ q.op = p.op /\ q.mode = p.mode
      /\ q.touched
    BY <1>2 DEF HookStates, HookRecords
<1>5. p.op # "delete" /\ p.mode # "0"
    BY <1>1, <1>2 DEF HookStates, HookOrder
<1>6. issued + 1 # NoToken
    BY <1>2 DEF NoToken
<1>7. HookOrder(q)
    BY <1>4, <1>5, <1>6 DEF HookOrder
<1>8. q \in HookStates(issued')
    BY <1>1, <1>3, <1>7, Zenon DEF HookStates
<1>9. RequestCreates(r, q)
    BY <1>1, <1>4, <1>5, <1>6 DEF RequestCreates
<1> QED
    BY <1>1, <1>8, <1>9, Zenon DEF OnlyRequest, RequestMoves

LEMMA RemoveMoves ==
    ASSUME TypeInvariant, NEW r \in Requests, RemoveToken(r)
    PROVE  \E q : OnlyRequest(r, q) /\ RequestMoves(r, q)
<1> DEFINE p == request[r]
           q == [p EXCEPT !.at = "save", !.touched = TRUE]
<1>1. /\ p.at = "remove" /\ UNCHANGED <<stanza, input>>
      /\ hec # NoToken /\ hec' = NoToken /\ issued' = issued
      /\ request' = [request EXCEPT ![r] = q]
    BY DEF RemoveToken, DeleteAccepted, DeleteApplies
<1>2. p \in HookStates(issued)
    BY DEF TypeInvariant
<1>3. q \in HookRecords(issued)
    BY <1>2 DEF HookStates, HookRecords
<1>4. q.at = "save" /\ q.op = p.op /\ q.mode = p.mode /\ q.touched
    BY <1>2 DEF HookStates, HookRecords
<1>5. p.op = "delete"
    BY <1>1, <1>2 DEF HookStates, HookOrder
<1>6. HookOrder(q)
    BY <1>4, <1>5 DEF HookOrder
<1>7. q \in HookStates(issued')
    BY <1>1, <1>3, <1>6, Zenon DEF HookStates
<1>8. RequestRemoves(r, q)
    BY <1>1, <1>4, <1>5 DEF RequestRemoves
<1> QED
    BY <1>1, <1>7, <1>8, Zenon DEF OnlyRequest, RequestMoves

LEMMA EndMoves ==
    ASSUME TypeInvariant, [Next]_vars, NEW r \in Requests,
           SaveStanza(r) \/ Refused(r) \/ RequestFails(r)
    PROVE  \E q : OnlyRequest(r, q) /\ RequestMoves(r, q)
<1>1. issued' \in Nat
    BY TokenMoves DEF TypeInvariant
<1>2. NoRequest \in HookStates(issued')
    BY <1>1, NoRequestTyped, Zenon
<1>3. request' = [request EXCEPT ![r] = NoRequest] /\ UNCHANGED input
    BY Zenon DEF SaveStanza, Refused, RequestFails, Ends
<1>4. CASE SaveStanza(r)
    BY <1>2, <1>3, <1>4, Zenon DEF SaveStanza, RequestSaves, OnlyRequest, RequestMoves
<1>5. CASE Refused(r) \/ RequestFails(r)
  <2>1. UNCHANGED stanza
    BY <1>5, Zenon DEF Refused, RequestFails
  <2>2. request[r] # NoRequest
    <3>1. CASE RequestFails(r)
        BY <3>1, Zenon DEF RequestFails
    <3>2. CASE Refused(r)
        BY <3>2 DEF Refused, NoRequest
    <3> QED
        BY <1>5, <3>1, <3>2, Zenon
  <2> QED
    BY <1>2, <1>3, <1>5, <2>1, <2>2, Zenon DEF RequestEnds, OnlyRequest, RequestMoves
<1> QED
    BY <1>4, <1>5, Zenon

LEMMA RequestStepMoves ==
    ASSUME TypeInvariant, [Next]_vars, NEW r \in Requests,
           \/ \E op \in Operations, mode \in Modes : Submit(r, op, mode)
           \/ RequestStep(r) \/ RequestFails(r)
    PROVE  \E q : OnlyRequest(r, q) /\ RequestMoves(r, q)
<1>1. CASE \E op \in Operations, mode \in Modes : Submit(r, op, mode)
  <2>1. PICK op \in Operations, mode \in Modes : Submit(r, op, mode)
    BY <1>1, Zenon
  <2> QED
    BY <2>1, SubmitMoves, Zenon
<1>2. CASE FindToken(r)
    BY <1>2, FindMoves, Zenon
<1>3. CASE CreateToken(r)
    BY <1>3, CreateMoves, Zenon
<1>4. CASE RemoveToken(r)
    BY <1>4, RemoveMoves, Zenon
<1>5. CASE SaveStanza(r) \/ Refused(r) \/ RequestFails(r)
    BY <1>5, EndMoves, Zenon
<1> QED
    BY <1>1, <1>2, <1>3, <1>4, <1>5, Zenon DEF RequestStep

\* Who moves: one request, the input, a user on the HEC page, or nobody.
LEMMA Movers ==
    ASSUME [Next]_vars
    PROVE  \/ UNCHANGED vars
           \/ Observe /\ ChangedByHand
           \/ Observe /\ (InputStep \/ InputFails \/ Stopped)
           \/ Observe /\ \E r \in Requests :
                 \/ \E op \in Operations, mode \in Modes : Submit(r, op, mode)
                 \/ RequestStep(r) \/ RequestFails(r)
BY Zenon DEF Next, Step

LEMMA RequestsTyped ==
    ASSUME TypeInvariant, [Next]_vars
    PROVE  request' \in [Requests -> HookStates(issued')]
<1>1. /\ issued \in Nat /\ issued' \in Nat /\ issued <= issued'
      /\ request \in [Requests -> HookStates(issued)]
    BY TokenMoves DEF TypeInvariant
<1>2. request \in [Requests -> HookStates(issued')]
    BY <1>1, TypesGrow
<1>3. CASE UNCHANGED request
    BY <1>2, <1>3, Zenon
<1>4. CASE \E r \in Requests :
                \/ \E op \in Operations, mode \in Modes : Submit(r, op, mode)
                \/ RequestStep(r) \/ RequestFails(r)
  <2>1. PICK r \in Requests : \E q : OnlyRequest(r, q)
    BY <1>4, RequestStepMoves, Zenon
  <2>2. PICK q : request' = [request EXCEPT ![r] = q] /\ q \in HookStates(issued')
    BY <2>1, Zenon DEF OnlyRequest
  <2> QED
    BY <1>2, <2>2
<1>5. InputStep \/ InputFails \/ Stopped \/ ChangedByHand => UNCHANGED request
    BY Zenon DEF InputStep, StartInput, LooksUp, CreatesToken, Persists, GivesUp, InputFails,
                 Stopped, ChangedByHand
<1>6. UNCHANGED vars => UNCHANGED request
    BY Zenon DEF vars
<1> QED
    BY <1>3, <1>4, <1>5, <1>6, Movers, Zenon

LEMMA SavedTyped ==
    ASSUME TypeInvariant, NEW r \in Requests, SaveAccepted(r), request[r].op # "delete"
    PROVE  Saved(request[r]) \in [batch : BOOLEAN, token : 0 .. issued]
<1> DEFINE q == request[r]
           batch == IF q.mode = "unset" THEN q.op = "create" \/ stanza.batch ELSE q.mode = "1"
           token == IF q.mode = "0" THEN (IF q.op = "create" THEN NoToken ELSE stanza.token)
                    ELSE q.token
<1>1. q \in HookRecords(issued) /\ issued \in Nat
    BY DEF TypeInvariant, HookStates
<1>2. q.op # "create" => stanza \in [batch : BOOLEAN, token : 0 .. issued]
    BY Zenon DEF TypeInvariant, Stanzas, SaveAccepted
<1>3. batch \in BOOLEAN
    OBVIOUS
<1>4. token \in 0 .. issued
    BY <1>1, <1>2 DEF HookRecords, NoToken
<1>5. Saved(q) = [batch |-> batch, token |-> token]
    BY Zenon DEF Saved
<1> HIDE DEF batch, token
<1> QED
    BY <1>3, <1>4, <1>5

LEMMA StanzaTyped ==
    ASSUME TypeInvariant, [Next]_vars
    PROVE  stanza' \in Stanzas(issued')
<1>1. /\ issued \in Nat /\ issued' \in Nat /\ issued <= issued'
      /\ stanza \in Stanzas(issued)
    BY TokenMoves DEF TypeInvariant
<1>2. Stanzas(issued) \subseteq Stanzas(issued')
    BY <1>1, TypesGrow
<1>3. CASE UNCHANGED stanza
    BY <1>1, <1>2, <1>3, Zenon
<1>4. ASSUME NEW r \in Requests, SaveStanza(r) PROVE stanza' \in Stanzas(issued')
  <2>1. /\ SaveAccepted(r)
        /\ stanza' = IF request[r].op = "delete" THEN NoStanza ELSE Saved(request[r])
    BY <1>4, Zenon DEF SaveStanza
  <2>2. CASE request[r].op = "delete"
    BY <2>1, <2>2, Zenon DEF Stanzas
  <2>3. CASE request[r].op # "delete"
    BY <1>2, <2>1, <2>3, SavedTyped, Zenon DEF Stanzas
  <2> QED
    BY <2>2, <2>3, Zenon
<1>5. ASSUME stanza # NoStanza, stanza' = [stanza EXCEPT !.token = input.actual]
      PROVE  stanza' \in Stanzas(issued')
  <2>1. stanza \in [batch : BOOLEAN, token : 0 .. issued]
    BY <1>1, <1>5, Zenon DEF Stanzas
  <2>2. input.actual \in 0 .. issued
    BY DEF TypeInvariant, StartStates, StartRecords
  <2>3. stanza' \in [batch : BOOLEAN, token : 0 .. issued]
    BY <1>5, <2>1, <2>2
  <2> QED
    BY <1>2, <2>3, Zenon DEF Stanzas
<1>6. ASSUME NEW r \in Requests,
             \/ \E op \in Operations, mode \in Modes : Submit(r, op, mode)
             \/ RequestStep(r) \/ RequestFails(r)
      PROVE  UNCHANGED stanza \/ SaveStanza(r)
    BY <1>6, Zenon DEF Submit, RequestStep, FindToken, CreateToken, RemoveToken, Refused,
                       RequestFails
<1>7. ASSUME InputStep \/ InputFails \/ Stopped \/ ChangedByHand
      PROVE  \/ UNCHANGED stanza
             \/ stanza # NoStanza /\ stanza' = [stanza EXCEPT !.token = input.actual]
    BY <1>7, Zenon DEF InputStep, StartInput, LooksUp, CreatesToken, Persists, GivesUp,
                       InputFails, Stopped, ChangedByHand
<1>8. UNCHANGED vars => UNCHANGED stanza
    BY Zenon DEF vars
<1> QED
    BY <1>3, <1>4, <1>5, <1>6, <1>7, <1>8, Movers, Zenon

LEMMA InputTyped ==
    ASSUME TypeInvariant, [Next]_vars
    PROVE  input' \in StartStates(issued')
<1>1. /\ issued \in Nat /\ issued' \in Nat /\ issued <= issued'
      /\ hec \in 0 .. issued /\ hec' \in 0 .. issued'
    BY TokenMoves DEF TypeInvariant, NoToken
<1>2. StartStates(issued) \subseteq StartStates(issued')
    BY <1>1, TypesGrow
<1>3. input \in StartStates(issued) /\ input \in StartRecords(issued)
    BY DEF TypeInvariant, StartStates
<1>4. input \in StartStates(issued') /\ input \in StartRecords(issued')
    BY <1>2, <1>3 DEF StartStates
<1>5. Off \in StartStates(issued')
    BY <1>1 DEF Off, StartStates, StartRecords, NoToken
<1>6. CASE StartInput
  <2>1. /\ stanza # NoStanza
        /\ input' = [at |-> IF stanza.batch THEN "lookup" ELSE "running",
                     batch |-> stanza.batch, current |-> stanza.token, actual |-> NoToken]
    BY <1>6, Zenon DEF StartInput
  <2>2. stanza \in [batch : BOOLEAN, token : 0 .. issued]
    BY <2>1, Zenon DEF TypeInvariant, Stanzas
  <2>3. stanza.batch \in BOOLEAN /\ stanza.token \in 0 .. issued'
    BY <1>1, <2>2
  <2>4. PICK at \in {"lookup", "running"} :
            input' = [at |-> at, batch |-> stanza.batch, current |-> stanza.token,
                      actual |-> NoToken]
    BY <2>1, Zenon
  <2>5. input'.at = at
    BY <2>4
  <2>6. input' \in StartRecords(issued')
    BY <1>1, <2>3, <2>4 DEF StartRecords, NoToken
  <2> QED
    BY <2>5, <2>6 DEF StartStates
<1>7. CASE LooksUp
  <2>1. PICK at \in {"create", "persist", "running"} :
            input' = [input EXCEPT !.actual = hec, !.at = at]
            /\ (at = "persist" => hec # NoToken) /\ issued' = issued
    BY <1>7, Zenon DEF LooksUp, TokenFound
  <2>2. input'.at = at /\ input'.actual = hec
    BY <1>4, <2>1 DEF StartRecords
  <2>3. input' \in StartRecords(issued')
    BY <1>1, <1>4, <2>1 DEF StartRecords
  <2> QED
    BY <2>1, <2>2, <2>3 DEF StartStates
<1>8. CASE CreatesToken
  <2>1. PICK at \in {"persist", "running"} :
            input' = [input EXCEPT !.actual = hec', !.at = at] /\ hec' = issued + 1
    BY <1>8, Zenon DEF CreatesToken, PostApplies
  <2>2. input'.at = at /\ input'.actual = hec' /\ hec' # NoToken
    BY <1>1, <1>4, <2>1 DEF StartRecords, NoToken
  <2>3. input' \in StartRecords(issued')
    BY <1>1, <1>4, <2>1 DEF StartRecords
  <2> QED
    BY <2>2, <2>3 DEF StartStates
<1>9. CASE Persists
  <2>1. input' = [input EXCEPT !.at = "running"]
    BY <1>9, Zenon DEF Persists
  <2>2. input'.at = "running" /\ input' \in StartRecords(issued')
    BY <1>4, <2>1 DEF StartRecords
  <2> QED
    BY <2>2 DEF StartStates
<1>10. \/ UNCHANGED input \/ input' = Off
       \/ StartInput \/ LooksUp \/ CreatesToken \/ Persists
  <2>1. CASE UNCHANGED vars
    BY <2>1, Zenon DEF vars
  <2>2. CASE \E r \in Requests :
                \/ \E op \in Operations, mode \in Modes : Submit(r, op, mode)
                \/ RequestStep(r) \/ RequestFails(r)
    BY <2>2, RequestStepMoves, Zenon DEF OnlyRequest
  <2>3. CASE InputStep \/ InputFails \/ Stopped \/ ChangedByHand
    BY <2>3, Zenon DEF InputStep, GivesUp, InputFails, Stopped, ChangedByHand
  <2> QED
    BY <2>1, <2>2, <2>3, Movers, Zenon
<1> QED
    BY <1>4, <1>5, <1>6, <1>7, <1>8, <1>9, <1>10, Zenon

LEMMA CountersTyped ==
    ASSUME TypeInvariant, [Next]_vars
    PROVE  /\ made' \in 0 .. MaxRequests /\ trouble' \in 0 .. MaxTrouble
           /\ tidy' \in BOOLEAN /\ undisturbed' \in BOOLEAN
<1>1. /\ made' = made \/ (made < MaxRequests /\ made' = made + 1)
      /\ trouble' = trouble \/ (trouble < MaxTrouble /\ trouble' = trouble + 1)
  <2>1. CASE UNCHANGED vars
    BY <2>1, Zenon DEF vars
  <2>2. CASE \E r \in Requests :
                \/ \E op \in Operations, mode \in Modes : Submit(r, op, mode)
                \/ RequestStep(r) \/ RequestFails(r)
    BY <2>2, Zenon DEF Submit, RequestStep, FindToken, CreateToken, RemoveToken, SaveStanza,
                       Refused, RequestFails, Trouble
  <2>3. CASE InputStep \/ InputFails \/ Stopped \/ ChangedByHand
    BY <2>3, Zenon DEF InputStep, StartInput, LooksUp, CreatesToken, Persists, GivesUp,
                       InputFails, Stopped, ChangedByHand, Trouble
  <2> QED
    BY <2>1, <2>2, <2>3, Movers, Zenon
<1>2. made \in 0 .. MaxRequests /\ trouble \in 0 .. MaxTrouble
    BY Zenon DEF TypeInvariant
<1>3. made' \in 0 .. MaxRequests /\ trouble' \in 0 .. MaxTrouble
    BY <1>1, <1>2, TokenAssumption
<1>4. CASE Observe
    BY <1>3, <1>4, Zenon DEF Observe
<1>5. CASE UNCHANGED vars
    BY <1>3, <1>5, Zenon DEF vars, TypeInvariant
<1> QED
    BY <1>4, <1>5, Movers, Zenon

LEMMA TypeStep ==
    ASSUME TypeInvariant, [Next]_vars
    PROVE  TypeInvariant'
<1>1. issued' \in Nat /\ hec' \in 0 .. issued'
    BY TokenMoves DEF TypeInvariant, NoToken
<1> QED
    BY <1>1, StanzaTyped, RequestsTyped, InputTyped, CountersTyped, Zenon DEF TypeInvariant

\* Every variable keeps its type whatever the requests and failures: nobody holds a token
\* that splunkd never made, a hook never saves and a start never persists an empty one.
THEOREM TypesHold == Spec => []TypeOK
<1>1. TypeInvariant /\ [Next]_vars => TypeInvariant'
    BY TypeStep
<1> QED
    BY TypeInit, <1>1, TypesAre, PTL DEF Spec

-------------------------------------------------------------------------------
(* Tidy runs: no two processes overlap, and none fails half-way *)

\* Whoever is about to save the stanza holds the accepted token, or deletes a stanza that
\* has none any more.
SavesAccepted ==
    \A r \in Requests : request[r].at = "save" =>
        IF request[r].op = "delete" THEN hec = NoToken
        ELSE request[r].mode = "0" \/ (hec # NoToken /\ request[r].token = hec)

\* A token was created only for a stanza that does not batch.
CreatedForNonBatch ==
    \A r \in Requests : request[r].touched /\ request[r].op # "delete" => ~stanza.batch

AtRest ==
    /\ hec # NoToken => stanza # NoStanza
    /\ stanza.batch => hec # NoToken /\ stanza.token = hec

\* The token has its input unless a hook has changed the collection and not yet the stanza.
Settled == (\A r \in Requests : ~request[r].touched) => AtRest

\* A start looks for the token of the stanza it was started with, misses it only where it
\* is being deleted, and so has nothing to persist.
StartIsTidy ==
    /\ input.at = "lookup" => stanza.batch /\ stanza.token = input.current
    /\ input.at = "create" =>
          \E r \in Requests : request[r].touched /\ request[r].op = "delete"
    /\ input.at # "persist"

TidyRun == SavesAccepted /\ CreatedForNonBatch /\ Settled /\ StartIsTidy

TidyInvariant == TypeInvariant /\ (tidy => TidyRun)

\* What a tidy step may not do.
StillTidy ==
    /\ tidy /\ ~ChangedByHand
    /\ (stanza' # stanza \/ hec' # hec) =>
          /\ \A r \in Requests : request[r] # NoRequest => request'[r] # request[r]
          /\ InputMidWay => input' # input
    /\ \A r \in Requests : request[r] # NoRequest /\ (Refused(r) \/ RequestFails(r)) =>
          ~request[r].touched /\ hec' = hec
    /\ input.at \in {"create", "persist"} => input' # Off

LEMMA TidyMeans ==
    ASSUME Observe, tidy'
    PROVE  StillTidy
<1>1. tidy /\ ~Overlaps /\ ~FailsHalfWay /\ ~ChangedByHand
    BY Zenon DEF Observe
<1>2. (stanza' # stanza \/ hec' # hec) =>
          /\ \A r \in Requests : request[r] # NoRequest => request'[r] # request[r]
          /\ InputMidWay => input' # input
  <2>1. ASSUME stanza' # stanza \/ hec' # hec PROVE <<stanza, hec>>' # <<stanza, hec>>
    BY <2>1
  <2> QED
    BY <1>1, <2>1, Zenon DEF Overlaps, RequestsMidWay
<1>3. \A r \in Requests : request[r] # NoRequest /\ (Refused(r) \/ RequestFails(r)) =>
          ~request[r].touched /\ hec' = hec
    BY <1>1, Zenon DEF FailsHalfWay, RequestsMidWay
<1>4. input.at \in {"create", "persist"} => input' # Off
    BY <1>1, Zenon DEF FailsHalfWay
<1> QED
    BY <1>1, <1>2, <1>3, <1>4, Zenon DEF StillTidy

\* A request that is in a hook, or has changed the collection, is under way.
LEMMA HooksAre ==
    ASSUME TypeInvariant, NEW r \in Requests
    PROVE  /\ HookOrder(request[r])
           /\ request[r].at # "none" => request[r] # NoRequest
           /\ request[r].touched => request[r].at = "save"
<1>1. HookOrder(request[r])
    BY DEF TypeInvariant, HookStates
<1>2. NoRequest.at = "none"
    BY DEF NoRequest
<1>3. request[r].touched => request[r].at = "save"
    BY <1>1, Zenon DEF HookOrder
<1>4. request[r].at # "none" => request[r] # NoRequest
    BY <1>2, Zenon
<1> QED
    BY <1>1, <1>3, <1>4, Zenon

LEMMA TidyWhenStill ==
    ASSUME TidyRun, UNCHANGED <<stanza, hec, request, input>>
    PROVE  TidyRun'
<1>1. stanza' = stanza /\ hec' = hec /\ request' = request /\ input' = input
    OBVIOUS
<1>2. SavesAccepted'
    BY <1>1, Zenon DEF TidyRun, SavesAccepted
<1>3. CreatedForNonBatch'
    BY <1>1, Zenon DEF TidyRun, CreatedForNonBatch
<1>4. Settled'
    BY <1>1, Zenon DEF TidyRun, Settled, AtRest
<1>5. StartIsTidy'
    BY <1>1, Zenon DEF TidyRun, StartIsTidy
<1> QED
    BY <1>2, <1>3, <1>4, <1>5, Zenon DEF TidyRun

\* A step of a request that changes neither the stanza nor the collection.
LEMMA TidyWhenQuiet ==
    ASSUME TidyRun, NEW r \in Requests, NEW q,
           request \in [Requests -> HookStates(issued)],
           request' = [request EXCEPT ![r] = q],
           stanza' = stanza, hec' = hec, input' = input,
           ~request[r].touched, ~q.touched,
           q.at = "save" => IF q.op = "delete" THEN hec = NoToken
                            ELSE q.mode = "0" \/ (hec # NoToken /\ q.token = hec)
    PROVE  TidyRun'
<1>1. request'[r] = q /\ \A s \in Requests : s # r => request'[s] = request[s]
    OBVIOUS
<1>2. SavesAccepted'
    BY <1>1, Zenon DEF TidyRun, SavesAccepted
<1>3. CreatedForNonBatch'
    BY <1>1, Zenon DEF TidyRun, CreatedForNonBatch
<1>4. Settled'
  <2>1. (\A s \in Requests : ~request'[s].touched) => \A s \in Requests : ~request[s].touched
    BY <1>1, Zenon
  <2>2. AtRest => AtRest'
    BY Zenon DEF AtRest
  <2> QED
    BY <2>1, <2>2, Zenon DEF TidyRun, Settled
<1>5. StartIsTidy'
    BY <1>1, Zenon DEF TidyRun, StartIsTidy
<1> QED
    BY <1>2, <1>3, <1>4, <1>5, Zenon DEF TidyRun

\* A hook changes the collection: nobody else is under way.
LEMMA TidyWhenTouched ==
    ASSUME TypeInvariant, TidyRun, StillTidy, NEW r \in Requests, NEW q,
           OnlyRequest(r, q), RequestCreates(r, q) \/ RequestRemoves(r, q)
    PROVE  TidyRun'
<1>1. /\ request' = [request EXCEPT ![r] = q] /\ input' = input /\ stanza' = stanza
      /\ hec' # hec /\ q.touched
    BY Zenon DEF OnlyRequest, RequestCreates, RequestRemoves
<1>2. request'[r] = q /\ \A s \in Requests : s # r => request'[s] = request[s]
    BY <1>1, Zenon DEF TypeInvariant
<1>3. \A s \in Requests : s # r => request[s] = NoRequest
    BY <1>1, <1>2, Zenon DEF StillTidy
<1>4. input.at \notin {"lookup", "create", "persist"}
    BY <1>1, Zenon DEF StillTidy, InputMidWay
<1>5. NoRequest.at = "none" /\ ~NoRequest.touched
    BY DEF NoRequest
<1>6. \A s \in Requests : s # r => request'[s].at = "none" /\ ~request'[s].touched
    BY <1>2, <1>3, <1>5, Zenon
<1>7. IF q.op = "delete" THEN hec' = NoToken ELSE hec' # NoToken /\ q.token = hec'
    BY Zenon DEF RequestCreates, RequestRemoves
<1>8. q.op # "delete" => ~stanza.batch
  <2>1. ASSUME q.op # "delete" PROVE request[r].at = "create" /\ hec = NoToken
    BY <2>1, Zenon DEF RequestCreates, RequestRemoves
  <2>2. ASSUME request[r].at = "create" PROVE \A s \in Requests : ~request[s].touched
    <3>1. ~request[r].touched
        BY <2>2, HooksAre
    <3> QED
        BY <1>3, <1>5, <3>1, Zenon
  <2> QED
    BY <2>1, <2>2, Zenon DEF TidyRun, Settled, AtRest
<1>9. SavesAccepted'
  <2> SUFFICES ASSUME NEW s \in Requests, request'[s].at = "save"
               PROVE  IF request'[s].op = "delete" THEN hec' = NoToken
                      ELSE request'[s].mode = "0" \/ (hec' # NoToken /\ request'[s].token = hec')
    BY Zenon DEF SavesAccepted
  <2>1. s = r
    BY <1>6
  <2> QED
    BY <1>2, <1>7, <2>1, Zenon
<1>10. CreatedForNonBatch'
    BY <1>1, <1>2, <1>6, <1>8, Zenon DEF CreatedForNonBatch
<1>11. Settled'
    BY <1>1, <1>2, Zenon DEF Settled
<1>12. StartIsTidy'
    BY <1>1, <1>4, Zenon DEF StartIsTidy
<1> QED
    BY <1>9, <1>10, <1>11, <1>12, Zenon DEF TidyRun

LEMMA SavedIs ==
    ASSUME NEW q, q.mode \in Modes
    PROVE  /\ q.mode = "0" => Saved(q).batch = FALSE
           /\ q.mode # "0" => Saved(q).token = q.token
<1>1. /\ Saved(q).batch = IF q.mode = "unset" THEN q.op = "create" \/ stanza.batch
                          ELSE q.mode = "1"
      /\ Saved(q).token = IF q.mode = "0" THEN (IF q.op = "create" THEN NoToken ELSE stanza.token)
                          ELSE q.token
    BY Zenon DEF Saved
<1>2. q.mode = "0" => q.mode # "unset" /\ q.mode # "1"
    OBVIOUS
<1>3. q.mode = "0" => ~Saved(q).batch
    BY <1>1, <1>2, Zenon
<1>4. q.mode = "0" => Saved(q).batch \in BOOLEAN
    BY <1>1, <1>2, Zenon
<1> QED
    BY <1>1, <1>3, <1>4, Zenon

LEMMA TidyWhenSaved ==
    ASSUME TypeInvariant, TidyRun, StillTidy, NEW r \in Requests, NEW q,
           OnlyRequest(r, q), RequestSaves(r, q)
    PROVE  TidyRun'
<1> DEFINE p == request[r]
<1>1. /\ request' = [request EXCEPT ![r] = NoRequest] /\ input' = input /\ hec' = hec
      /\ p.at = "save" /\ SaveAccepted(r)
      /\ stanza' = IF p.op = "delete" THEN NoStanza ELSE Saved(p)
    BY Zenon DEF OnlyRequest, RequestSaves
<1>2. request'[r] = NoRequest /\ \A s \in Requests : s # r => request'[s] = request[s]
    BY <1>1, Zenon DEF TypeInvariant
<1>3. NoRequest.at = "none" /\ ~NoRequest.touched
    BY DEF NoRequest
<1>4. SavesAccepted'
    BY <1>1, <1>2, <1>3 DEF TidyRun, SavesAccepted
<1>5. ASSUME stanza' # stanza
      PROVE  /\ \A s \in Requests : s # r => request[s] = NoRequest
             /\ input.at \notin {"lookup", "create", "persist"}
    BY <1>1, <1>2, <1>5, Zenon DEF StillTidy, InputMidWay
<1>6. CreatedForNonBatch'
  <2>1. CASE stanza' = stanza
    BY <1>2, <1>3, <2>1, Zenon DEF TidyRun, CreatedForNonBatch
  <2>2. CASE stanza' # stanza
    <3>1. \A s \in Requests : ~request'[s].touched
        BY <1>2, <1>3, <1>5, <2>2, Zenon
    <3> QED
        BY <3>1, Zenon DEF CreatedForNonBatch
  <2> QED
    BY <2>1, <2>2, Zenon
<1>7. StartIsTidy'
  <2>1. CASE stanza' # stanza
    BY <1>1, <1>5, <2>1, Zenon DEF StartIsTidy
  <2>2. CASE stanza' = stanza
    <3>1. p.op # "delete"
        BY <1>1, <2>2, Zenon DEF SaveAccepted
    <3> QED
        BY <1>1, <1>2, <2>2, <3>1, Zenon DEF TidyRun, StartIsTidy
  <2> QED
    BY <2>1, <2>2, Zenon
<1>8. AtRest'
  <2>1. CASE p.op = "delete"
    <3>1. hec' = NoToken /\ stanza' = NoStanza
        BY <1>1, <2>1, Zenon DEF TidyRun, SavesAccepted
    <3>2. ~NoStanza.batch
        BY DEF NoStanza
    <3> QED
        BY <3>1, <3>2, Zenon DEF AtRest
  <2>2. CASE p.op # "delete"
    <3>1. stanza' = Saved(p) /\ Saved(p) \in [batch : BOOLEAN, token : 0 .. issued]
        BY <1>1, <2>2, SavedTyped, Zenon
    <3>2. stanza' # NoStanza
      <4>1. Saved(p).token \in 0 .. issued
        BY <3>1
      <4>2. NoStanza.token = -1 /\ issued \in Nat
        BY DEF NoStanza, TypeInvariant
      <4>3. -1 \notin 0 .. issued
        BY <4>2
      <4> QED
        BY <3>1, <4>1, <4>2, <4>3, Zenon
    <3>3. p.mode \in Modes
        BY DEF TypeInvariant, HookStates, HookRecords
    <3>4. CASE p.mode = "0"
        BY <3>1, <3>2, <3>3, <3>4, SavedIs, Zenon DEF AtRest
    <3>5. CASE p.mode # "0"
      <4>1. hec' # NoToken /\ p.token = hec'
        BY <1>1, <2>2, <3>5, Zenon DEF TidyRun, SavesAccepted
      <4> QED
        BY <3>1, <3>2, <3>3, <3>5, <4>1, SavedIs, Zenon DEF AtRest
    <3> QED
        BY <3>4, <3>5, Zenon
  <2> QED
    BY <2>1, <2>2, Zenon
<1>9. Settled'
    BY <1>8, Zenon DEF Settled
<1> QED
    BY <1>4, <1>6, <1>7, <1>9, Zenon DEF TidyRun

LEMMA TidyRequestStep ==
    ASSUME TypeInvariant, TidyRun, StillTidy, NEW r \in Requests, NEW q,
           OnlyRequest(r, q), RequestMoves(r, q)
    PROVE  TidyRun'
<1>1. /\ request' = [request EXCEPT ![r] = q] /\ input' = input
      /\ request \in [Requests -> HookStates(issued)]
    BY Zenon DEF OnlyRequest, TypeInvariant
<1>2. CASE RequestAsked(r, q)
  <2>1. /\ stanza' = stanza /\ hec' = hec /\ ~request[r].touched /\ ~q.touched
        /\ q.at = "save" => q.op # "delete" /\ q.mode = "0"
    BY <1>2, Zenon DEF RequestAsked
  <2> QED
    BY <1>1, <2>1, TidyWhenQuiet, Zenon
<1>3. CASE RequestFinds(r, q)
  <2>1. /\ stanza' = stanza /\ hec' = hec /\ ~request[r].touched /\ ~q.touched
        /\ q.at = "save" => IF q.op = "delete" THEN hec = NoToken
                            ELSE hec # NoToken /\ q.token = hec
    BY <1>3, Zenon DEF RequestFinds
  <2> QED
    BY <1>1, <2>1, TidyWhenQuiet, Zenon
<1>4. CASE RequestCreates(r, q) \/ RequestRemoves(r, q)
    BY <1>4, TidyWhenTouched, Zenon
<1>5. CASE RequestSaves(r, q)
    BY <1>5, TidyWhenSaved, Zenon
<1>6. CASE RequestEnds(r, q)
  <2>1. q = NoRequest /\ stanza' = stanza /\ hec' = hec /\ ~request[r].touched
    BY <1>6, Zenon DEF RequestEnds, StillTidy
  <2>2. NoRequest.at = "none" /\ ~NoRequest.touched
    BY DEF NoRequest
  <2>3. q.at # "save" /\ ~q.touched
    BY <2>1, <2>2
  <2> QED
    BY <1>1, <2>1, <2>3, TidyWhenQuiet, Zenon
<1> QED
    BY <1>2, <1>3, <1>4, <1>5, <1>6, Zenon DEF RequestMoves

\* A step of the input that changes neither the stanza nor the collection.
LEMMA TidyWhenInputMoves ==
    ASSUME TidyRun, UNCHANGED <<stanza, hec, request>>, StartIsTidy'
    PROVE  TidyRun'
<1>1. stanza' = stanza /\ hec' = hec /\ request' = request
    OBVIOUS
<1>2. SavesAccepted'
    BY <1>1, Zenon DEF TidyRun, SavesAccepted
<1>3. CreatedForNonBatch'
    BY <1>1, Zenon DEF TidyRun, CreatedForNonBatch
<1>4. Settled'
    BY <1>1, Zenon DEF TidyRun, Settled, AtRest
<1> QED
    BY <1>2, <1>3, <1>4, Zenon DEF TidyRun

LEMMA TidyInputStep ==
    ASSUME TypeInvariant, TidyRun, StillTidy, InputStep \/ InputFails \/ Stopped
    PROVE  TidyRun'
<1>1. Off.at = "off"
    BY DEF Off
<1>2. ASSUME input' = Off PROVE StartIsTidy'
    BY <1>1, <1>2 DEF StartIsTidy
<1>3. CASE StartInput
  <2>1. UNCHANGED <<stanza, hec, request>>
    BY <1>3, Zenon DEF StartInput
  <2>2. /\ input'.at = (IF stanza.batch THEN "lookup" ELSE "running")
        /\ input'.current = stanza.token
    BY <1>3, Zenon DEF StartInput
  <2>3. /\ input'.at = "lookup" \/ input'.at = "running"
        /\ input'.at = "lookup" => stanza.batch
    BY <2>2
  <2>4. StartIsTidy'
    BY <2>1, <2>2, <2>3 DEF StartIsTidy
  <2> QED
    BY <2>1, <2>4, TidyWhenInputMoves, Zenon
<1>4. CASE LooksUp
  <2>1. UNCHANGED <<stanza, hec, request>> /\ input.at = "lookup"
    BY <1>4, Zenon DEF LooksUp
  <2>2. input' = [input EXCEPT
                    !.actual = hec,
                    !.at = IF hec = NoToken THEN "create"
                           ELSE IF input.current # hec THEN "persist"
                           ELSE "running"]
    BY <1>4 DEF LooksUp, TokenFound, NeedsPersist
  <2>3. input'.at = IF hec = NoToken THEN "create"
                    ELSE IF input.current # hec THEN "persist"
                    ELSE "running"
    BY <2>2 DEF TypeInvariant, StartStates, StartRecords
  <2>4. stanza.batch /\ stanza.token = input.current
    BY <2>1, Zenon DEF TidyRun, StartIsTidy
  <2>5. \A r \in Requests : request[r].touched => request[r].op = "delete" /\ hec = NoToken
    BY <2>4, HooksAre, Zenon DEF TidyRun, CreatedForNonBatch, SavesAccepted
  <2>6. CASE \E r \in Requests : request[r].touched
    <3>1. PICK r \in Requests : request[r].touched /\ request[r].op = "delete" /\ hec = NoToken
        BY <2>5, <2>6, Zenon
    <3>2. input'.at = "create"
        BY <2>3, <3>1, Zenon
    <3>3. request'[r].touched /\ request'[r].op = "delete"
        BY <2>1, <3>1, Zenon
    <3>4. StartIsTidy'
        BY <3>2, <3>3 DEF StartIsTidy
    <3> QED
        BY <2>1, <3>4, TidyWhenInputMoves, Zenon
  <2>7. CASE \A r \in Requests : ~request[r].touched
    <3>1. hec # NoToken /\ stanza.token = hec
        BY <2>4, <2>7, Zenon DEF TidyRun, Settled, AtRest
    <3>2. input'.at = "running"
        BY <2>3, <2>4, <3>1, Zenon
    <3>3. StartIsTidy'
        BY <3>2 DEF StartIsTidy
    <3> QED
        BY <2>1, <3>3, TidyWhenInputMoves, Zenon
  <2> QED
    BY <2>6, <2>7, Zenon
<1>5. ~CreatesToken
  <2> SUFFICES ASSUME CreatesToken PROVE FALSE
    OBVIOUS
  <2>1. input.at = "create" /\ UNCHANGED request /\ hec = NoToken /\ hec' = issued + 1
    BY Zenon DEF CreatesToken, PostAccepted, PostApplies
  <2>2. hec' # hec
    BY <2>1 DEF NoToken, TypeInvariant
  <2>3. PICK r \in Requests : request[r].touched
    BY <2>1, Zenon DEF TidyRun, StartIsTidy
  <2>4. request[r] # NoRequest /\ request'[r] = request[r]
    BY <2>1, <2>3, HooksAre
  <2> QED
    BY <2>2, <2>4, Zenon DEF StillTidy
<1>6. ~Persists
    BY Zenon DEF Persists, TidyRun, StartIsTidy
<1>7. ~GivesUp
    BY Zenon DEF GivesUp, StillTidy
<1>8. CASE InputFails
  <2>1. input' = Off /\ UNCHANGED <<stanza, hec, request>>
    BY <1>8, Zenon DEF InputFails, StillTidy
  <2> QED
    BY <1>2, <2>1, TidyWhenInputMoves, Zenon
<1>9. CASE Stopped
  <2>1. input' = Off /\ UNCHANGED <<stanza, hec, request>>
    BY <1>9, Zenon DEF Stopped
  <2> QED
    BY <1>2, <2>1, TidyWhenInputMoves, Zenon
<1> QED
    BY <1>3, <1>4, <1>5, <1>6, <1>7, <1>8, <1>9, Zenon DEF InputStep

LEMMA TidyStep ==
    ASSUME TidyInvariant, [Next]_vars
    PROVE  TidyInvariant'
<1>1. TypeInvariant /\ TypeInvariant'
    BY TypeStep, Zenon DEF TidyInvariant
<1>2. CASE UNCHANGED vars
  <2>1. tidy' = tidy /\ UNCHANGED <<stanza, hec, request, input>>
    BY <1>2, Zenon DEF vars
  <2> QED
    BY <1>1, <2>1, TidyWhenStill, Zenon DEF TidyInvariant
<1>3. ASSUME Observe, tidy',
             \/ ChangedByHand
             \/ InputStep \/ InputFails \/ Stopped
             \/ \E r \in Requests :
                   \/ \E op \in Operations, mode \in Modes : Submit(r, op, mode)
                   \/ RequestStep(r) \/ RequestFails(r)
      PROVE  TidyRun'
  <2>1. StillTidy /\ TidyRun
    BY <1>3, TidyMeans, Zenon DEF StillTidy, TidyInvariant
  <2>2. ~ChangedByHand
    BY <2>1, Zenon DEF StillTidy
  <2>3. CASE InputStep \/ InputFails \/ Stopped
    BY <1>1, <2>1, <2>3, TidyInputStep, Zenon
  <2>4. CASE \E r \in Requests :
                \/ \E op \in Operations, mode \in Modes : Submit(r, op, mode)
                \/ RequestStep(r) \/ RequestFails(r)
    BY <1>1, <2>1, <2>4, RequestStepMoves, TidyRequestStep, Zenon
  <2> QED
    BY <1>3, <2>2, <2>3, <2>4, Zenon
<1> QED
    BY <1>1, <1>2, <1>3, Movers, Zenon DEF TidyInvariant

LEMMA TidyInit == Init => TidyInvariant
<1> SUFFICES ASSUME Init PROVE TidyInvariant
    OBVIOUS
<1>1. /\ tidy = (stanza = NoStanza) /\ hec = NoToken /\ input = Off
      /\ request = [r \in Requests |-> NoRequest]
    BY Zenon DEF Init
<1>2. NoRequest.at = "none" /\ ~NoRequest.touched /\ Off.at = "off" /\ ~NoStanza.batch
    BY DEF NoRequest, Off, NoStanza
<1>3. \A r \in Requests : request[r].at # "save" /\ ~request[r].touched
    BY <1>1, <1>2
<1>4. tidy => TidyRun
    BY <1>1, <1>2, <1>3 DEF TidyRun, SavesAccepted, CreatedForNonBatch, Settled, AtRest,
                            StartIsTidy
<1> QED
    BY <1>4, TypeInit, Zenon DEF TidyInvariant

LEMMA TidyAtRest == TidyInvariant => TokenLivesWithInput
<1> SUFFICES ASSUME TidyInvariant, tidy, RequestsMidWay = {}, ~InputMidWay PROVE AtRest
    BY Zenon DEF TokenLivesWithInput, AtRest
<1>1. \A r \in Requests : request[r] = NoRequest
    BY Zenon DEF RequestsMidWay
<1>2. ~NoRequest.touched
    BY DEF NoRequest
<1> QED
    BY <1>1, <1>2, Zenon DEF TidyInvariant, TidyRun, Settled

\* The hooks and the starts together manage the token, however many requests are made: as
\* long as no two of them overlap and none fails half-way, at rest a token has an input,
\* and a batching input has its token.
THEOREM TokenAlwaysLivesWithInput == Spec => []TokenLivesWithInput
<1>1. TidyInvariant /\ [Next]_vars => TidyInvariant'
    BY TidyStep
<1> QED
    BY TidyInit, <1>1, TidyAtRest, PTL DEF Spec
===============================================================================
