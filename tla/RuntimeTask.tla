----------------------------- MODULE RuntimeTask -----------------------------
(***************************************************************************)
(* The host's RuntimeTask over the live runtime scope (src/src/lib.rs):    *)
(* run_forever, which a host may give up and call again, shutdown, which   *)
(* consumes the task and makes the cutoff before it waits, and Drop.       *)
(* LiveRuntime lets a host act on the scope in any order; here it only     *)
(* does so through these calls.                                            *)
(***************************************************************************)
EXTENDS LiveInvariants

VARIABLES
  call,       \* the call under way: "none", "run_forever", "shutdown", or
              \* "gone" once the RuntimeTask was consumed or dropped
  join,       \* RuntimeTask::join is still there
  completion, \* RuntimeTask::completion, or "none"
  cutoff,     \* what begin_shutdown answered, or "none"
  answers     \* history: what each call answered

hostTaskVars == <<call, join, completion, cutoff, answers>>
allVars == <<vars, hostTaskVars>>

Outcome == {"report", "fault", "panicked"}
Answer == [call : {"run_forever", "shutdown"}, result : Outcome \cup {"refused", "unwrapped"}]

HostTaskTypeOK ==
  /\ call \in {"none", "run_forever", "shutdown", "gone"}
  /\ join \in BOOLEAN
  /\ completion \in Outcome \cup {"none"}
  /\ cutoff \in {"none", "made", "refused"}
  /\ answers \subseteq Answer

HostTaskInit ==
  call = "none" /\ join = TRUE /\ completion = "none" /\ cutoff = "none" /\ answers = {}

\* What the JoinHandle yields once the owner has ended.
OwnerOutcome ==
  CASE pc = "clean" -> "report"
    [] pc = "faulted" -> "fault"
    [] OTHER -> "panicked"

-----------------------------------------------------------------------------
\* run_forever: nothing happens before its first poll.
RunForever ==
  /\ call = "none"
  /\ call' = "run_forever"
  /\ UNCHANGED <<vars, join, completion, cutoff, answers>>

\* The host drops that future, as a select does: the JoinHandle stays.
StopsObserving ==
  /\ call = "run_forever"
  /\ call' = "none"
  /\ UNCHANGED <<vars, join, completion, cutoff, answers>>

\* shutdown(mode): the cutoff comes first, whatever its answer.
Shutdown(mode) ==
  /\ call = "none"
  /\ HostShutsDown(mode)
  /\ call' = "shutdown"
  /\ cutoff' = IF IngressOpen THEN "made" ELSE "refused"
  /\ UNCHANGED <<join, completion, answers>>

\* Wrong variant: the completion is handed out and not kept.
Forgotten(outcome) == "none"

Kept(outcome) == outcome

(***************************************************************************)
(* await_completion: the completion kept from an earlier call, or the      *)
(* JoinHandle, which is then taken.  With neither, its expect would panic. *)
(***************************************************************************)
Ready == completion # "none" \/ join => pc \in OwnerEnded

Observed ==
  IF completion # "none" THEN completion
  ELSE IF join THEN OwnerOutcome ELSE "unwrapped"

\* shutdown prefers the owner's error to its cutoff's, and that to a report.
Answered ==
  IF call = "shutdown" /\ Observed = "report" /\ cutoff = "refused" THEN "refused" ELSE Observed

CallReturns ==
  /\ call \in {"run_forever", "shutdown"} /\ Ready
  /\ answers' = answers \cup {[call |-> call, result |-> Answered]}
  /\ completion' = IF completion = "none" /\ join THEN Kept(OwnerOutcome) ELSE completion
  /\ join' = FALSE
  /\ call' = IF call = "shutdown" THEN "gone" ELSE "none"
  /\ UNCHANGED <<vars, cutoff>>

\* Drop, of a shutdown future too: nothing is left to do once join was taken.
DropTask ==
  /\ "Drop" \in Modes
  /\ call \in {"none", "shutdown"}
  /\ IF join THEN HostDropsTask ELSE UNCHANGED vars
  /\ call' = "gone" /\ join' = FALSE
  /\ UNCHANGED <<completion, cutoff, answers>>

HostTask ==
  \/ RunForever \/ StopsObserving \/ CallReturns \/ DropTask
  \/ \E mode \in {"Drain", "Cancel"} : Shutdown(mode)

HostHandles ==
  \/ \E c \in Components : HostSendsEvent("Message", c)
  \/ HostSendsEvent("PortNotification", Provider)
  \/ \E h \in Asks : HostAsks(h)

TaskInit == Init /\ HostTaskInit

TaskNext ==
  \/ HostTask
  \/ (HostHandles \/ OwnerAborted \/ Owner \/ Drivers) /\ UNCHANGED hostTaskVars

TaskSpec == TaskInit /\ [][TaskNext]_allVars

\* The live scope's fairness, and a host that polls the future it awaits.
FairTaskSpec ==
  /\ TaskSpec
  /\ WF_allVars(Owner /\ UNCHANGED hostTaskVars)
  /\ WF_allVars(OwnerAborted /\ UNCHANGED hostTaskVars)
  /\ \A e \in EffectItem : WF_allVars(EffectCompletes(e) /\ UNCHANGED hostTaskVars)
  /\ \A t \in TimerItem : WF_allVars(TimerElapses(t) /\ UNCHANGED hostTaskVars)
  /\ \A t \in EffectItem \cup TimerItem : WF_allVars(TaskReturns(t) /\ UNCHANGED hostTaskVars)
  /\ \A t \in TaskId : WF_allVars(TaskCancelled(t) /\ UNCHANGED hostTaskVars)
  /\ WF_allVars(CallReturns)

-----------------------------------------------------------------------------
\* Every call that is answered gets the owner's own end, the second one too,
\* and no answer comes before that end.
OneDiagnosis ==
  \A answer \in answers : pc \in OwnerEnded /\ answer.result = OwnerOutcome

\* A ShutdownReport is only ever the answer to a shutdown whose cutoff the
\* running scope took, and it is true: no task, event or waiting Request is
\* left, and after a Drain no admitted work was lost.
ReportIsEarned ==
  \A answer \in answers : answer.result = "report" =>
    /\ cutoff = "made" /\ answer.call = "shutdown" /\ phase = "Closed"
    /\ AllJoined /\ queue = <<>> /\ \A h \in Asks : asks[h] # "waiting"
    /\ draining => open = {} /\ requests = {}

\* The strengthening: as long as the host has made no cutoff nothing closes
\* the scope, a faulted scope is only cleaned up, and a refused cutoff means
\* that the owner can no longer end cleanly.
Closing == {"cancel", "cancel_join", "cancel_stop", "clean"}

HeldInv ==
  handle = "held" =>
    /\ phase \in {"Running", "Faulted"}
    /\ pc \in {"cleanup", "joining"} => phase = "Faulted"
    /\ ~draining /\ pc \notin Closing
    /\ ~IsMarker(current) /\ \A i \in 1 .. Len(queue) : ~IsMarker(queue[i])

RefusedInv ==
  cutoff = "refused" =>
    \/ pc \in {"cleanup", "joining"} /\ phase = "Faulted"
    \/ pc \in {"faulted", "aborted", "panicked"}

CompletionInv ==
  /\ call \in {"none", "run_forever"} => handle = "held" /\ (join \/ completion # "none")
  /\ call = "shutdown" => join \/ completion # "none"
  /\ completion # "none" => pc \in OwnerEnded /\ completion = OwnerOutcome

\* A report is the answer to a shutdown that made its cutoff.
EarnedInv ==
  /\ call = "shutdown" => cutoff # "none"
  /\ \A answer \in answers :
       answer.result = "report" => answer.call = "shutdown" /\ cutoff = "made"

HostTaskInv ==
  /\ HostTaskTypeOK /\ HeldInv /\ RefusedInv /\ CompletionInv
  /\ OneDiagnosis

\* A shutdown that is awaited returns: Cancel always, Drain unless a
\* Component keeps a ReplyTo token for ever.
ShutdownReturns ==
  /\ call = "shutdown" /\ phase # "Draining" ~> call # "shutdown"
  /\ (call = "shutdown" ~> call # "shutdown") \/ <>[](held # {})
==============================================================================
