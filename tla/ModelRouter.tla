------------------------------ MODULE ModelRouter ------------------------------
(***************************************************************************)
(* The one router all turns of a process share: which client and model a   *)
(* call goes to, retries, the refusal of an effort, what becomes of a      *)
(* throttled call, the folding of a streamed answer back into tool calls,  *)
(* and the row it leaves on the cost ledger. An action is what a turn does *)
(* between two awaits.                                                     *)
(*                                                                         *)
(* The site runs on one wire: "openai" (azure too), whose clients are      *)
(* cached by endpoint, or "anthropic" or "google", by key.                 *)
(***************************************************************************)
EXTENDS Naturals, Sequences

CONSTANTS
    Wires,    \* wires to check, of AllWires
    Turns,    \* turns in flight
    Attempts, \* RETRY_ATTEMPTS
    Parts,    \* bound: fragments of one call's arguments
    MaxAsks,  \* bound: calls of the router
    MaxKeys,  \* bound: keys saved
    None

AllWires == {"openai", "anthropic", "google"}

ASSUME ModelRouterAssumption ==
    /\ Wires \subseteq AllWires
    /\ {Attempts, Parts} \subseteq Nat \ {0}
    /\ {MaxAsks, MaxKeys} \subseteq Nat

VARIABLES
    site,    \* configuration: the wire, whether a second reasoning deployment is set, and
             \* whether the tier below has an account, which only azure's may lack
    stored,  \* provider_credentials: the key saved last, 0 for none
    known,   \* _overrides: the key this process believes to be saved
    saving,  \* a key this process has committed, 0 for none, but not yet put into _overrides
    client,  \* _clients, on the openai wire: the key of the cached client, 0 for a mock
    refused, \* rejected_efforts: the models
    listing, \* _azure_model_endpoints: whether a pinned model's account was found
    turn,    \* calls of the router in flight
    asks,    \* history: calls so far
    keys     \* history: keys saved so far

routerVars == <<site, stored, known, saving, client, refused, listing, turn, asks, keys>>
credentials == <<stored, known, saving, keys>>

------------------------------------------------------------------------------
Models == {"reason", "alt", "mini", "pinned"}
Tiers  == {"reason", "mini"}

\* A call as the model made it and as it is put together again: its number, and how
\* many fragments of its arguments.
ToolCall == [of : 1 .. 2, parts : 1 .. Parts]
Calls    == UNION {[1 .. n -> ToolCall] : n \in 0 .. 2}
Free     == [of |-> 0, parts |-> 0]
Empty    == [i \in 0 .. 2 |-> Free]
\* asked: the models this call was sent to, in order; said: what the model answers
\* with; sent: what of it has gone over the wire; text: prose comes before the calls.
Idle == [pc |-> "idle", req |-> 0, stream |-> FALSE, pinned |-> FALSE, tier |-> "mini",
         model |-> "mini", key |-> 0, effort |-> FALSE, tries |-> 0, asked |-> <<>>,
         said |-> <<>>, sent |-> [n \in 1 .. 2 |-> Free], text |-> FALSE, heard |-> Empty, result |-> None]

RouterInit ==
    /\ site \in [wire : Wires, alt : BOOLEAN, below : BOOLEAN]
    /\ site.below \/ site.wire = "openai"
    /\ stored = 0
    /\ known = 0
    /\ saving = None
    /\ client = None
    /\ refused = {}
    /\ listing = "none"
    /\ turn = [t \in Turns |-> Idle]
    /\ asks = 0
    /\ keys = 0

At(t, pc) == turn[t].pc = pc
Failing(x) == [Idle EXCEPT !.pc = "failed", !.asked = x.asked, !.pinned = x.pinned,
                           !.stream = x.stream, !.req = x.req]

ResultOf(x, calls) == [req |-> x.req, model |-> x.model, tier |-> x.tier, calls |-> calls]

\* last_result, which all turns share, is set and read with no await between.
Returns(x, calls) ==
    [Idle EXCEPT !.pc = "record", !.req = x.req, !.stream = x.stream, !.pinned = x.pinned,
                 !.asked = x.asked, !.said = x.said,
                 !.result = ResultOf(x, calls)]

------------------------------------------------------------------------------
(* Keys                                                                    *)

\* A key is saved or removed: committed, and only then taken over by the process that
\* did it. (Bound: one at a time.)
Save ==
    /\ keys < MaxKeys /\ saving = None
    /\ keys' = keys + 1
    /\ stored' = keys + 1
    /\ saving' = keys + 1
    /\ UNCHANGED <<site, known, client, refused, listing, turn, asks>>

Delete ==
    /\ saving = None /\ stored # 0
    /\ stored' = 0
    /\ saving' = 0
    /\ UNCHANGED <<site, known, client, refused, listing, turn, asks, keys>>

Saved ==
    /\ saving # None
    /\ known' = saving
    /\ saving' = None
    /\ UNCHANGED <<site, stored, client, refused, listing, turn, asks, keys>>

\* Another replica saves.
SaveElsewhere ==
    /\ keys < MaxKeys
    /\ keys' = keys + 1
    /\ stored' = keys + 1
    /\ UNCHANGED <<site, known, saving, client, refused, listing, turn, asks>>

\* Boot, or GET /bots/providers/credentials when the snapshot is old.
Reload ==
    /\ known # stored
    /\ known' = stored
    /\ UNCHANGED <<site, stored, saving, client, refused, listing, turn, asks, keys>>

\* The key of the client a call gets, 0 for a mock. On the openai wire it is the one
\* the client was built with, whatever has been saved since.
Cached == IF site.wire = "openai" /\ client # None THEN client ELSE known

------------------------------------------------------------------------------
(* Asking                                                                  *)

\* chat, stream_chat: the tier's model, or the one its owner pinned the bot to. A
\* model that is none of the configured ones has to be found first.
Ask(t) ==
    /\ At(t, "idle") /\ asks < MaxAsks
    /\ asks' = asks + 1
    /\ \E stream, pinned \in BOOLEAN, tier \in Tiers :
       LET model == IF pinned THEN "pinned" ELSE tier
           x == [Idle EXCEPT !.req = asks + 1, !.stream = stream, !.pinned = pinned,
                             !.tier = tier, !.model = model, !.effort = model \notin refused]
           canned == Cached = 0 \/ (model = "mini" /\ ~site.below)
       IN /\ IF pinned /\ site.wire = "openai" /\ listing = "none"
             THEN turn' = [turn EXCEPT ![t] = [x EXCEPT !.pc = "place"]] /\ UNCHANGED client
             ELSE /\ client' = Cached
                  /\ turn' = [turn EXCEPT ![t] =
                        [x EXCEPT !.pc = IF canned THEN "mock" ELSE "create",
                                  !.key = Cached, !.asked = <<model>>]]
    /\ UNCHANGED <<site, credentials, refused, listing>>

\* The accounts are asked for their deployments, once in the life of the process.
Place(t) ==
    /\ At(t, "place")
    /\ \E found \in BOOLEAN :
          listing' = IF found \/ listing = "listed" THEN "listed" ELSE "failed"
    /\ client' = Cached
    /\ turn' = [turn EXCEPT ![t].pc = IF Cached = 0 THEN "mock" ELSE "create",
                            ![t].key = Cached, ![t].asked = <<"pinned">>]
    /\ UNCHANGED <<site, credentials, refused, asks>>

\* Without a client the answer is canned, and calls nothing.
Mock(t) ==
    /\ At(t, "mock")
    /\ turn' = [turn EXCEPT ![t] = Returns(@, <<>>)]
    /\ UNCHANGED <<site, credentials, client, refused, listing, asks>>

------------------------------------------------------------------------------
(* One completion, and its retries                                         *)

\* A pinned model nobody could place is asked for where it is not.
Reachable(t) == turn[t].pinned /\ site.wire = "openai" => listing = "listed"

\* Zero, one or two calls.
Answers(t) ==
    /\ At(t, "create") /\ Reachable(t)
    /\ \E n \in 0 .. 2, text \in BOOLEAN :
       \E parts \in [1 .. n -> 1 .. Parts] :
       LET said == [i \in 1 .. n |-> [of |-> i, parts |-> parts[i]]]
           x    == [turn[t] EXCEPT !.said = said, !.text = text, !.key = 0]
       IN /\ text => turn[t].stream /\ site.wire = "anthropic"
          /\ turn' = [turn EXCEPT ![t] =
                IF x.stream THEN [x EXCEPT !.pc = "stream"] ELSE Returns(x, said)]
    /\ UNCHANGED <<site, credentials, client, refused, listing, asks>>

\* The model refuses the effort: that is remembered, and the same request goes out
\* without one, with its attempts before it.
RefuseEffort(t) ==
    /\ At(t, "create") /\ turn[t].effort
    /\ refused' = refused \cup {turn[t].model}
    /\ turn' = [turn EXCEPT ![t].effort = FALSE, ![t].tries = 0]
    /\ UNCHANGED <<site, credentials, client, listing, asks>>

\* Any other refusal ends the call, wherever it has been moved to.
Fail(t) ==
    /\ At(t, "create")
    /\ turn' = [turn EXCEPT ![t] = Failing(@)]
    /\ UNCHANGED <<site, credentials, client, refused, listing, asks>>

\* The call x goes on with another model.
Moved(x, model, tier) ==
    [x EXCEPT !.model = model, !.tier = tier, !.tries = 0, !.effort = model \notin refused,
              !.asked = Append(@, model)]

\* Mutant: a bot's pin is looked at on the first hop only.
ThrottledAnyway(x) ==
    IF x.stream THEN Failing(x)
    ELSE IF x.model = "reason" /\ site.alt /\ ~x.pinned THEN Moved(x, "alt", "reason")
    ELSE IF x.tier = "reason" /\ site.below THEN Moved(x, "mini", "mini")
    ELSE Failing(x)

\* A throttled call is finished elsewhere: on the second reasoning deployment, then on
\* the tier below if that has an account. Not a streamed one, nor one of a bot that is
\* pinned, nor from the bottom.
Throttled(x) ==
    IF x.stream \/ x.pinned THEN Failing(x)
    ELSE IF x.model = "reason" /\ site.alt THEN Moved(x, "alt", "reason")
    ELSE IF x.tier = "reason" /\ site.below THEN Moved(x, "mini", "mini")
    ELSE Failing(x)

Again(x) == [x EXCEPT !.tries = @ + 1]

\* Mutant: a throttled call waits and begins its attempts anew.
HiccupAnew(t) ==
    /\ At(t, "create") /\ site.wire = "openai"
    /\ \E throttled \in BOOLEAN :
          turn' = [turn EXCEPT ![t] =
                IF @.tries + 1 < Attempts THEN Again(@)
                ELSE IF throttled THEN [@ EXCEPT !.tries = 0] ELSE Failing(@)]
    /\ UNCHANGED <<site, credentials, client, refused, listing, asks>>

\* A transient failure is tried again; only the openai SDK's own are recognised.
Hiccup(t) ==
    /\ At(t, "create") /\ site.wire = "openai"
    /\ \E throttled \in BOOLEAN :
          turn' = [turn EXCEPT ![t] =
                IF @.tries + 1 < Attempts THEN Again(@)
                ELSE IF throttled THEN Throttled(@) ELSE Failing(@)]
    /\ UNCHANGED <<site, credentials, client, refused, listing, asks>>

------------------------------------------------------------------------------
(* A streamed answer                                                       *)

\* A fragment of call n, folded into the slot i; the first one names the call.
Folded(x, i, n) ==
    [x EXCEPT !.heard[i] = [of |-> n, parts |-> @.parts + 1],
              !.sent[n]  = [of |-> n, parts |-> @.parts + 1]]
Left(x, n) == n \in DOMAIN x.said /\ x.sent[n].parts < x.said[n].parts

\* On the openai wire calls may alternate, each under its own index.
OpenAIChunk(t) == \E n \in {1, 2} :
    /\ Left(turn[t], n)
    /\ turn' = [turn EXCEPT ![t] = Folded(@, n - 1, n)]

\* Anthropic finishes one block before the next, and prose is a block too.
AnthropicChunk(t) == \E n \in {1, 2} :
    /\ Left(turn[t], n)
    /\ \A m \in 1 .. n - 1 : ~Left(turn[t], m)
    /\ turn' = [turn EXCEPT ![t] = Folded(@, IF @.text THEN n ELSE n - 1, n)]

\* Mutant: every call is its chunk's first.
GoogleChunkAtZero(t) == \E n \in {1, 2} :
    /\ Left(turn[t], n)
    /\ \A m \in 1 .. n - 1 : ~Left(turn[t], m)
    /\ turn' = [turn EXCEPT ![t].heard[0] = turn[t].said[n], ![t].sent[n] = turn[t].said[n]]

\* Google sends each call whole; the adapter numbers them.
GoogleChunk(t) == \E n \in {1, 2} :
    /\ Left(turn[t], n)
    /\ \A m \in 1 .. n - 1 : ~Left(turn[t], m)
    /\ turn' = [turn EXCEPT ![t].heard[n - 1] = turn[t].said[n],
                            ![t].sent[n] = turn[t].said[n]]

Chunk(t) ==
    /\ At(t, "stream")
    /\ CASE site.wire = "openai" -> OpenAIChunk(t)
         [] site.wire = "anthropic" -> AnthropicChunk(t)
         [] site.wire = "google" -> GoogleChunk(t)
    /\ UNCHANGED <<site, credentials, client, refused, listing, asks>>

\* The calls of a buffer, by index.
Finished(b) ==
    LET slot(i) == IF b[i].of = 0 THEN <<>> ELSE <<b[i]>>
    IN slot(0) \o slot(1) \o slot(2)

\* The stream is exhausted.
End(t) ==
    /\ At(t, "stream")
    /\ ~Left(turn[t], 1) /\ ~Left(turn[t], 2)
    /\ turn' = [turn EXCEPT ![t] = Returns(@, Finished(@.heard))]
    /\ UNCHANGED <<site, credentials, client, refused, listing, asks>>

\* What has been streamed so far is with the reader; the call is not tried again.
Break(t) ==
    /\ At(t, "stream")
    /\ turn' = [turn EXCEPT ![t] = Failing(@)]
    /\ UNCHANGED <<site, credentials, client, refused, listing, asks>>

------------------------------------------------------------------------------
\* record_cost: the row is written, at the second attempt if the first commit failed,
\* or given up. The turn goes on either way.
Record(t) ==
    /\ At(t, "record")
    /\ turn' = [turn EXCEPT ![t] = Idle]
    /\ UNCHANGED <<site, credentials, client, refused, listing, asks>>

\* The turn ends with its error.
GiveUp(t) ==
    /\ At(t, "failed")
    /\ turn' = [turn EXCEPT ![t] = Idle]
    /\ UNCHANGED <<site, credentials, client, refused, listing, asks>>

------------------------------------------------------------------------------
Step(t) ==
    \/ Place(t) \/ Mock(t) \/ Answers(t) \/ RefuseEffort(t) \/ Fail(t) \/ Hiccup(t)
    \/ Chunk(t) \/ End(t) \/ Break(t) \/ Record(t) \/ GiveUp(t)

RouterNext ==
    \/ \E t \in Turns : Ask(t) \/ Step(t)
    \/ Save \/ Saved \/ SaveElsewhere \/ Delete \/ Reload

RouterSpec == RouterInit /\ [][RouterNext]_routerVars

\* The SDK's timeouts make every request return.
RouterFairSpec == RouterSpec /\ \A t \in Turns : WF_routerVars(Step(t))

------------------------------------------------------------------------------
PriceOf(model) == IF model \in {"reason", "alt"} THEN {"reason"}
                  ELSE IF model = "mini" THEN {"mini"} ELSE Tiers

\* asked is how way begins.
Begins(asked, way) ==
    Len(asked) <= Len(way) /\ \A i \in 1 .. Len(asked) : asked[i] = way[i]

\* What a turn works with is the answer to its own request: the calls the model made,
\* each whole and in its place, however their fragments came, and priced as the model
\* that made them, though the router is shared and the call may have been moved.
ResultIsItsOwn ==
    \A t \in Turns : At(t, "record") =>
        LET r == turn[t].result IN
        /\ r.calls = turn[t].said
        /\ r.tier \in PriceOf(r.model)

\* A call moves down one way only, from the throttled model to its twin and then to the
\* tier below; a streamed one never moves, nor does that of a bot whose owner chose.
MovesDown ==
    \A t \in Turns :
        LET asked == turn[t].asked IN
        /\ turn[t].pinned => \A i \in DOMAIN asked : asked[i] = "pinned"
        /\ turn[t].pinned \/ turn[t].stream => Len(asked) <= 1
        /\ ~turn[t].pinned =>
              \/ Begins(asked, <<"mini">>)
              \/ Begins(asked, IF site.alt THEN <<"reason", "alt", "mini">> ELSE <<"reason", "mini">>)

\* Every call of the router comes back, with an answer or an error, whatever is
\* throttled, refused or retried.
CallsReturn == \A t \in Turns : ~At(t, "idle") ~> At(t, "idle")
===============================================================================
