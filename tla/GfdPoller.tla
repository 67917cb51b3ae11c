----------------------------- MODULE GfdPoller -----------------------------
(***************************************************************************)
(* internal/gfdapi/gfdapi.go: the goroutine that polls the GFD services    *)
(* every Period seconds, and the render loop of main.go that takes a       *)
(* Snapshot for each frame.  poll holds State.mu for writing through all   *)
(* of its fetches, which share one context of PollBudget seconds and may   *)
(* each take FetchTimeout; Snapshot needs the lock for reading.            *)
(*                                                                         *)
(* Tick is the passing of a second.  What takes no time in the source, a   *)
(* step between two calls, may come anywhere between two ticks.            *)
(***************************************************************************)
EXTENDS Integers, Sequences

CONSTANTS
    Fetches,        \* the fields poll fetches, in order
    FetchTimeout,   \* http.Client.Timeout
    PollBudget,     \* context.WithTimeout
    Period,         \* time.NewTicker
    Unset, Unknown, \* a field's zero value; EmilyGear after a failure
    Gear,           \* the field set to Unknown when its fetch fails
    MaxPolls        \* bound on the polls of a behaviour

ASSUME PollerAssumption ==
    /\ FetchTimeout \in Nat \ {0} /\ PollBudget \in Nat \ {0}
    /\ Period \in Nat /\ Period > PollBudget
    /\ MaxPolls \in Nat /\ {Unset, Unknown} \intersect Nat = {}
    /\ Fetches \in Seq({Fetches[i] : i \in 1 .. Len(Fetches)})
    /\ \E i \in 1 .. Len(Fetches) : Fetches[i] = Gear

VARIABLES
    poller,     \* "starting", "waiting" in select, "polling" or "returned"
    next,       \* the fetch under way, an index into Fetches
    took,       \* seconds the fetch under way has taken
    spent,      \* seconds since the poll's context was made
    state,      \* the fields: the poll a value is from
    asked,      \* auxiliary: the poll that last asked for each field
    polls,      \* polls started; the poll that LastUpdated is from
    elapsed,    \* seconds since the ticker last fired
    tick,       \* the ticker's channel, of capacity one, holds a tick
    stopped,    \* Stop was called
    render,     \* "free" or "snapshot", in Snapshot
    waited      \* seconds it has been there

poll == <<next, took, spent, state, asked, polls>>
ticker == <<elapsed, tick>>
renderer == <<render, waited>>
vars == <<poller, poll, ticker, stopped, renderer>>

Fields == {Fetches[i] : i \in 1 .. Len(Fetches)}
Values == {Unset, Unknown} \union 1 .. MaxPolls

TypeOK ==
    /\ poller \in {"starting", "waiting", "polling", "returned"}
    /\ next \in 1 .. Len(Fetches) + 1
    /\ took \in 0 .. FetchTimeout /\ spent \in 0 .. PollBudget
    /\ state \in [Fields -> Values]
    /\ asked \in [Fields -> 0 .. MaxPolls] /\ polls \in 0 .. MaxPolls
    /\ elapsed \in 0 .. Period - 1 /\ tick \in BOOLEAN
    /\ stopped \in BOOLEAN
    /\ render \in {"free", "snapshot"} /\ waited \in Nat
-----------------------------------------------------------------------------
\* The lock is taken, the context made, LastUpdated set.
PollStarts ==
    /\ polls < MaxPolls
    /\ poller' = "polling"
    /\ polls' = polls + 1
    /\ next' = 1 /\ took' = 0 /\ spent' = 0

\* Mutant of Locked: Unlock is deferred to the end of pollLoop.
LockedForGood == poller \in {"polling", "waiting"}
Locked == poller = "polling"

Init ==
    /\ poller = "starting" /\ next = 1 /\ took = 0 /\ spent = 0
    /\ state = [f \in Fields |-> Unset] /\ asked = [f \in Fields |-> 0]
    /\ polls = 0
    /\ elapsed = 0 /\ tick = FALSE
    /\ stopped = FALSE
    /\ render = "free" /\ waited = 0

\* pollLoop begins with a poll and no tick.
FirstPoll ==
    /\ poller = "starting"
    /\ PollStarts
    /\ UNCHANGED <<state, asked, ticker, stopped, renderer>>

\* The fetch under way ends; the next one begins.
FetchEnds ==
    /\ Locked /\ next <= Len(Fetches)
    /\ next' = next + 1 /\ took' = 0
    /\ asked' = [asked EXCEPT ![Fetches[next]] = polls]
    /\ UNCHANGED <<poller, spent, polls, ticker, stopped, renderer>>

\* Mutant of ContextDone: every fetch has a context of its own.
ContextDoneNever == FALSE
ContextDone == spent = PollBudget

\* The body parses, whatever the HTTP status; a field it lacks is an answer too.
FetchOK ==
    /\ ~ContextDone
    /\ FetchEnds
    /\ state' = [state EXCEPT ![Fetches[next]] = polls]

\* At once or at a timeout, or the body does not parse.
FetchFails ==
    /\ FetchEnds
    /\ state' = IF Fetches[next] = Gear THEN [state EXCEPT ![Gear] = Unknown]
                ELSE state

\* The deferred Unlock.
PollEnds ==
    /\ Locked /\ next > Len(Fetches)
    /\ poller' = "waiting"
    /\ UNCHANGED <<poll, ticker, stopped, renderer>>

\* select takes either channel when both are ready.
TakeTick ==
    /\ poller = "waiting" /\ tick
    /\ tick' = FALSE
    /\ PollStarts
    /\ UNCHANGED <<state, asked, elapsed, stopped, renderer>>

TakeStop ==
    /\ poller = "waiting" /\ stopped
    /\ poller' = "returned"
    /\ UNCHANGED <<poll, ticker, stopped, renderer>>

Stop ==
    /\ ~stopped
    /\ stopped' = TRUE
    /\ UNCHANGED <<poller, poll, ticker, renderer>>
-----------------------------------------------------------------------------
CallSnapshot ==
    /\ render = "free"
    /\ render' = "snapshot" /\ waited' = 0
    /\ UNCHANGED <<poller, poll, ticker, stopped>>

\* Mutant of Snapshot: clone without the lock.
SnapshotUnlocked ==
    /\ render = "snapshot"
    /\ render' = "free" /\ waited' = 0
    /\ UNCHANGED <<poller, poll, ticker, stopped>>

\* State.clone: the fields as they are now are what the frame shows.
Snapshot ==
    /\ render = "snapshot" /\ ~Locked
    /\ render' = "free" /\ waited' = 0
    /\ UNCHANGED <<poller, poll, ticker, stopped>>

\* A fetch is under way and no timeout is due; or none is, and nobody who could
\* run has been kept from it for a second.
FetchMayTakeLonger == took < FetchTimeout /\ ~ContextDone
MayPass ==
    IF Locked THEN next <= Len(Fetches) /\ FetchMayTakeLonger
    ELSE /\ render = "free" /\ poller # "starting"
         /\ ~(poller = "waiting" /\ (stopped \/ tick))

Tick ==
    /\ MayPass
    /\ IF Locked THEN took' = took + 1 /\ spent' = spent + 1
       ELSE UNCHANGED <<took, spent>>
    /\ elapsed' = (elapsed + 1) % Period
    /\ tick' = (tick \/ elapsed' = 0)
    /\ waited' = IF render = "snapshot" THEN waited + 1 ELSE waited
    /\ UNCHANGED <<poller, next, state, asked, polls, stopped, render>>

Poller == FirstPoll \/ FetchOK \/ FetchFails \/ PollEnds \/ TakeTick \/ TakeStop

Next == Poller \/ Stop \/ CallSnapshot \/ Snapshot \/ Tick

\* Time passes, a fetch that has timed out returns, and both goroutines run when
\* they can.  Nothing makes the window ask for a frame or the application stop.
TimedOut == FetchFails /\ ~FetchMayTakeLonger
Spec == Init /\ [][Next]_vars
FairSpec ==
    /\ Spec
    /\ WF_vars(Tick) /\ WF_vars(TimedOut)
    /\ WF_vars(FirstPoll) /\ WF_vars(PollEnds) /\ WF_vars(TakeTick \/ TakeStop)
    /\ WF_vars(Snapshot)
-----------------------------------------------------------------------------
\* SnapshotIsOnePoll: what a Snapshot returns is the result of one whole poll: no
\* field was asked for by a later poll than another, and the gear it shows, the
\* one field that means the present, is that poll's and not one kept from before.
SnapshotIsOnePoll ==
    [][render = "snapshot" /\ render' = "free" =>
          /\ \A f, g \in Fields : asked[f] = asked[g]
          /\ asked[Gear] # 0 => state[Gear] \in {Unknown, asked[Gear]}]_vars

\* WaitIsBounded: the render loop waits for the lock no longer than the budget of
\* one poll, however many of its fetches time out.
WaitIsBounded == waited <= PollBudget

\* SnapshotReturns: the render loop gets its frame.
SnapshotReturns == render = "snapshot" ~> render = "free"

\* RenderNeverStalls: gfdapi.go:6, "a failed API call never stalls the SDL2 render
\* loop".  poll holds the lock while its calls time out.
RenderNeverStalls == waited = 0
=============================================================================
