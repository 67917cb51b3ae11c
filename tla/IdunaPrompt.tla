---------------------------- MODULE IdunaPrompt ----------------------------
(***************************************************************************)
(* The prompt and the action log together: what runIdunaPrompt dispatches  *)
(* goes to REFLUX, so that a subscriber, of which there is none yet, "can  *)
(* pick them up later" (iduna_prompt.go:93).                               *)
(***************************************************************************)
EXTENDS DeviceLink

CONSTANTS Nil, LogCapacity

ASSUME LogCapacityAssumption == LogCapacity \in Nat \ {0}

VARIABLES actions, totalDispatched, cursor, polling, seen

reflux == <<actions, totalDispatched>>
subscriber == <<cursor, polling, seen>>
promptVars == <<vars, reflux, subscriber>>

Actions == {"HonorCodeShown", "DeviceLinkStarted", "DeviceLinked", "KeyReady",
            "GpgKeyReady"}

Log == INSTANCE Reflux WITH Items <- Actions, Capacity <- LogCapacity

\* A step of the prompt that dispatches is a step of the log.
PromptStep ==
    /\ Next
    /\ \/ dispatched' # dispatched /\ \E a \in Actions : Log!Dispatch(a)
       \/ dispatched' = dispatched /\ UNCHANGED <<reflux, subscriber>>
Subscriber == (Log!PollSize \/ Log!PollAction) /\ UNCHANGED vars

PromptInit == Init /\ Log!Init
PromptNext == PromptStep \/ Subscriber

PromptSpec == PromptInit /\ [][PromptNext]_promptVars /\ Fairness
-----------------------------------------------------------------------------
\* RefluxIsBoundedLog: the actions at 0 .. LogSize()-1 are the newest ones the
\* prompt has dispatched, in that order; polling does not change them.
RefluxIsBoundedLog == Log!IsBoundedLog

\* PollsInOrder: until the log wraps, a subscriber takes exactly the actions the
\* prompt dispatched, in order and each once, whatever is dispatched between its
\* two calls.
PollsInOrder == Log!PollsInOrder

\* CursorKeepsUp: what reflux.go says and the log does not do, see Reflux.tla.
CursorKeepsUp == Log!CursorKeepsUp
=============================================================================
