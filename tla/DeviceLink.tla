----------------------------- MODULE DeviceLink -----------------------------
(***************************************************************************)
(* runIdunaPrompt of cmd/idunagame/iduna_prompt.go: the goroutine that asks*)
(* IDUNA for a device code, shows it, and polls until the user has entered *)
(* it somewhere else or it expires; then the token exchange and the device *)
(* keys.  IDUNA and the user are not in this repository: they are what the *)
(* goroutine's calls expect of them.  A call takes up to CallTimeout, and  *)
(* may fail on its way there or on its way back.                           *)
(***************************************************************************)
EXTENDS Integers, Sequences

CONSTANTS
    ExpiresIns,     \* what IDUNA may send as expires_in, in seconds
    Intervals,      \* ... and as interval
    CallTimeout,    \* http.Client.Timeout of idunaPost
    MaxTime         \* bound on the clock

ASSUME LinkAssumption ==
    /\ ExpiresIns \subseteq Nat /\ Intervals \subseteq Int
    /\ CallTimeout \in Nat \ {0} /\ MaxTime \in Nat

VARIABLES
    pc,
    now,
    began,          \* when the call or the sleep under way began
    deadline,
    interval,
    device,         \* at IDUNA: "none", "pending", "authorized" or "exchanged"
    authorizedAt,   \* auxiliary: when the user authorized the device
    answer,         \* the answer IDUNA gave to the call, "none" before it did
    faults,         \* auxiliary: a call has failed
    dispatched,     \* the actions the goroutine gave to REFLUX
    message         \* the last message of the prompt, "" while it runs

clock == <<now, began>>
code == <<deadline, interval>>
iduna == <<device, authorizedAt, answer, faults>>
vars == <<pc, clock, code, iduna, dispatched, message>>

Calls == {"start", "poll", "exchange"}

TypeOK ==
    /\ pc \in Calls \union {"honor", "loop", "sleep", "sshkey", "gpgkey", "ended"}
    /\ now \in 0 .. MaxTime /\ began \in 0 .. now
    /\ deadline \in Nat /\ interval \in Nat
    /\ device \in {"none", "pending", "authorized", "exchanged"}
    /\ authorizedAt \in Nat
    /\ answer \in {"none", "pending", "authorized", "exchanged"}
    /\ faults \in BOOLEAN
    /\ dispatched \in Seq({"HonorCodeShown", "DeviceLinkStarted", "DeviceLinked",
                           "KeyReady", "GpgKeyReady"})
    /\ message \in {"", "unreachable", "expired", "failed", "shown"}

Init ==
    /\ pc = "honor" /\ now = 0 /\ began = 0
    /\ deadline = 0 /\ interval = 0
    /\ device = "none" /\ authorizedAt = 0 /\ answer = "none" /\ faults = FALSE
    /\ dispatched = <<>>
    /\ message = ""
-----------------------------------------------------------------------------
Dispatch(a) == dispatched' = Append(dispatched, a)
GoTo(label) == pc' = label /\ began' = now /\ answer' = "none"
End(text) == GoTo("ended") /\ message' = text

ShowHonorCode ==
    /\ pc = "honor"
    /\ Dispatch("HonorCodeShown")
    /\ GoTo("start")
    /\ UNCHANGED <<now, code, device, authorizedAt, faults, message>>

\* The user enters the code on another device, while IDUNA still takes it.
Authorize ==
    /\ device = "pending"
    /\ device' = "authorized" /\ authorizedAt' = now
    /\ UNCHANGED <<pc, clock, code, answer, faults, dispatched, message>>

\* A call reaches IDUNA, which answers it once; it may refuse an exchange.
Answer ==
    /\ pc \in Calls /\ answer = "none"
    /\ \/ pc = "start" /\ device' = "pending"
       \/ pc = "exchange" /\ device = "authorized" /\ device' = "exchanged"
       \/ pc # "start" /\ device' = device
    /\ answer' = device'
    /\ UNCHANGED <<pc, clock, code, authorizedAt, faults, dispatched, message>>

\* No connection, a timeout, a body that is no JSON, a poll too many (429): the
\* remedy is to poll again, and there is none for the other two calls.
CallFails ==
    /\ pc \in Calls
    /\ faults' = TRUE
    /\ \/ pc = "start" /\ End("unreachable")
       \/ pc = "exchange" /\ End("failed")
       \/ pc = "poll" /\ GoTo("loop") /\ UNCHANGED message
    /\ UNCHANGED <<now, code, device, authorizedAt, dispatched>>

StartReturns ==
    /\ pc = "start" /\ answer # "none"
    /\ \E e \in ExpiresIns, i \in Intervals :
          /\ deadline' = now + e
          /\ interval' = IF i <= 0 THEN 2 ELSE i
    /\ Dispatch("DeviceLinkStarted")
    /\ GoTo("loop")
    /\ UNCHANGED <<now, device, authorizedAt, faults, message>>

\* Mutants of MayPollAgain: the deadline does not end the loop; it ends it one
\* poll too late; no sleep is begun that would outlast the code.
MayPollForever == TRUE
MayPollAtDeadline == now <= deadline
MayPollIfInTime == now + interval < deadline
MayPollAgain == now < deadline

LoopTop ==
    /\ pc = "loop"
    /\ \/ MayPollAgain /\ GoTo("sleep") /\ UNCHANGED message
       \/ ~MayPollAgain /\ End("expired")
    /\ UNCHANGED <<now, code, device, authorizedAt, faults, dispatched>>

Wake ==
    /\ pc = "sleep" /\ now = began + interval
    /\ GoTo("poll")
    /\ UNCHANGED <<now, code, device, authorizedAt, faults, dispatched, message>>

PollReturns ==
    /\ pc = "poll" /\ answer # "none"
    /\ \/ answer = "authorized" /\ GoTo("exchange")
       \/ answer # "authorized" /\ GoTo("loop")
    /\ UNCHANGED <<now, code, device, authorizedAt, faults, dispatched, message>>

\* Mutant of ExchangeReturns: the status of the answer is not looked at.
ExchangeReturnsAny ==
    /\ pc = "exchange" /\ answer # "none"
    /\ Dispatch("DeviceLinked") /\ GoTo("sshkey")
    /\ UNCHANGED <<now, code, device, authorizedAt, faults, message>>

ExchangeReturns ==
    /\ pc = "exchange" /\ answer # "none"
    /\ \/ /\ answer = "exchanged"
          /\ Dispatch("DeviceLinked") /\ GoTo("sshkey")
          /\ UNCHANGED message
       \/ answer # "exchanged" /\ End("failed") /\ UNCHANGED dispatched
    /\ UNCHANGED <<now, code, device, authorizedAt, faults>>

\* showDeviceKey and showDeviceGpgKey: a key that cannot be had is reported and
\* the prompt goes on.
ShowKey(here, action, there) ==
    /\ pc = here
    /\ Dispatch(action) \/ UNCHANGED dispatched
    /\ GoTo(there)
    /\ message' = IF there = "ended" THEN "shown" ELSE message
    /\ UNCHANGED <<now, code, device, authorizedAt, faults>>
ShowDeviceKey == ShowKey("sshkey", "KeyReady", "gpgkey")
ShowDeviceGpgKey == ShowKey("gpgkey", "GpgKeyReady", "ended")

\* A second passes only in a sleep or in a call.
Waiting ==
    \/ pc = "sleep" /\ now < began + interval
    \/ pc \in Calls /\ now < began + CallTimeout
Tick ==
    /\ Waiting /\ now < MaxTime
    /\ now' = now + 1
    /\ UNCHANGED <<pc, began, code, iduna, dispatched, message>>

Prompt ==
    \/ ShowHonorCode \/ StartReturns \/ LoopTop \/ Wake \/ PollReturns
    \/ ExchangeReturns \/ ShowDeviceKey \/ ShowDeviceGpgKey

Next == Prompt \/ CallFails \/ Answer \/ Authorize \/ Tick

Spec == Init /\ [][Next]_vars

\* Time passes, the goroutine runs, and a call that times out returns.  Neither
\* IDUNA nor the user has to do anything.
TimesOut == CallFails /\ ~Waiting
Fairness == WF_vars(Tick) /\ WF_vars(Prompt) /\ WF_vars(TimesOut)
FairSpec == Spec /\ Fairness
-----------------------------------------------------------------------------
\* PromptEnds: the goroutine ends, though every call fails and nobody comes.
PromptEnds == <>(pc = "ended")

\* OverrunIsBounded: the prompt still polls an expired code, but for no longer
\* than the sleep and the call it began with while the code was good.
OverrunIsBounded ==
    pc \in {"sleep", "poll"} => now < deadline + interval + CallTimeout

\* KeysFollowTheLink: the link is announced only when IDUNA has exchanged the
\* code, the keys only after it, and each thing once.
KeysFollowTheLink ==
    /\ Len(dispatched) > 2 => device = "exchanged" /\ dispatched[3] = "DeviceLinked"
    /\ \A i, j \in DOMAIN dispatched : dispatched[i] = dispatched[j] => i = j

\* AuthorizedInTime: as long as no call fails, a user who authorizes the device
\* before the last seconds of the code, as many as a call may take, is never told
\* that it expired: the loop sleeps before it polls, so that its last poll comes
\* when the code's time is up.
AuthorizedInTime ==
    message = "expired" /\ device = "authorized" /\ ~faults
        => authorizedAt + CallTimeout >= deadline

\* ExpiredMeansUnauthorized: iduna_prompt.go:170, "Device link code expired before
\* it was authorized".  One failed poll is enough if it is the last.
ExpiredMeansUnauthorized ==
    message = "expired" /\ device = "authorized" => authorizedAt >= deadline
=============================================================================
