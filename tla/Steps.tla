------------------------------- MODULE Steps -------------------------------
(***************************************************************************)
(* The steps of one pod.  All their containers start together; each runs   *)
(* the entrypoint binary (pkg/entrypoint, cmd/entrypoint), which waits for *)
(* the file the step before it posts, runs the step's command, posts a     *)
(* file of its own ("out", or "out.err" to make the rest bail), reads the  *)
(* results and exits.  Files are all that orders the steps.                *)
(***************************************************************************)
EXTENDS Naturals

CONSTANTS
  N,                    \* how many steps there are
  Specs,                \* the Tasks, as far as the entrypoints are told of them
  MayCancel,            \* the pod may be told to cancel (keep-pod-on-cancel)
  MayDie,               \* steps whose entrypoint may be killed or fail to set up
  BadResults            \* steps whose results may turn out unreadable or too long

VARIABLES
  task,                 \* the flags the entrypoints are given
  ready,                \* the ready file has content
  cancel,               \* the cancel file has content
  at,                   \* where each entrypoint is
  how,                  \* how its command ended, or what became of it instead
  post,                 \* the file it posted: "", "out" or "err"
  code,                 \* its exit code: "", "zero" or "other"
  ran                   \* its command was started

podVars == <<task, ready, cancel, at, how, post, code, ran>>

Step == 1..N

\* onError: continue, when expressions, a timeout, a breakpoint before the
\* step, by step; a breakpoint on failure, for the whole TaskRun.
TaskSpecs ==
  [continue : SUBSET Step, when : SUBSET Step, timed : SUBSET Step, before : SUBSET Step,
   breakpoint : BOOLEAN]

ASSUME StepsAssumption ==
  /\ N \in Nat \ {0}
  /\ Specs \subseteq TaskSpecs
  /\ MayCancel \in BOOLEAN
  /\ MayDie \subseteq Step
  /\ BadResults \subseteq Step

\* A pod that is ready at once has no ready file to wait for.
PodInit ==
  /\ task \in Specs
  /\ ready \in BOOLEAN
  /\ cancel = FALSE
  /\ at = [i \in Step |-> "wait"]
  /\ how = [i \in Step |-> ""]
  /\ post = [i \in Step |-> ""]
  /\ code = [i \in Step |-> ""]
  /\ ran = [i \in Step |-> FALSE]

-----------------------------------------------------------------------------
\* Wait, on the file of the step before: "out" first, then "out.err".

\* Mutant: the first step does not wait for the sidecars.
mayGoUnready(i) ==
  i = 1 \/ post[i - 1] = "out" \/ (post[i - 1] = "err" /\ task.breakpoint)

mayGo(i) ==
  IF i = 1 THEN ready
  ELSE post[i - 1] = "out" \/ (post[i - 1] = "err" /\ task.breakpoint)

Wait(i) ==
  /\ at[i] = "wait"
  /\ mayGo(i)
  /\ at' = [at EXCEPT ![i] = IF i \in task.before THEN "before" ELSE "exec"]
  /\ UNCHANGED <<task, ready, cancel, how, post, code, ran>>

\* Mutant: only a failure of the first step is noticed.
SkipAfterFirst(i) ==
  /\ at[i] = "wait"
  /\ i > 1
  /\ post[1] = "err"
  /\ ~task.breakpoint
  /\ at' = [at EXCEPT ![i] = "exit"]
  /\ how' = [how EXCEPT ![i] = "skipped"]
  /\ post' = [post EXCEPT ![i] = "err"]
  /\ code' = [code EXCEPT ![i] = "other"]
  /\ UNCHANGED <<task, ready, cancel, ran>>

SkipStep(i) ==
  /\ at[i] = "wait"
  /\ i > 1
  /\ post[i - 1] = "err"
  /\ ~task.breakpoint
  /\ at' = [at EXCEPT ![i] = "exit"]
  /\ how' = [how EXCEPT ![i] = "skipped"]
  /\ post' = [post EXCEPT ![i] = "err"]
  /\ code' = [code EXCEPT ![i] = "other"]
  /\ UNCHANGED <<task, ready, cancel, ran>>

\* The two scripts for a breakpoint before a step.
BeforeStepContinue(i) ==
  /\ at[i] = "before"
  /\ at' = [at EXCEPT ![i] = "exec"]
  /\ UNCHANGED <<task, ready, cancel, how, post, code, ran>>

-----------------------------------------------------------------------------
\* The command, and the file posted when it is over.

\* Mutant: any exit code is continued after.
postAfterExit(i, end) ==
  CASE end \in {"before", "cancelled", "deadline"}  -> "err"
    [] end \in {"exit", "error"} /\ task.breakpoint -> ""
    [] end \in {"ok", "exit"}                       -> "out"
    [] OTHER                                        -> "err"

postFile(i, end) ==
  CASE end \in {"before", "cancelled", "deadline"}               -> "err"
    [] end \in {"exit", "error"} /\ task.breakpoint              -> ""
    [] end = "ok" \/ (end = "exit" /\ i \in task.continue)       -> "out"
    [] OTHER                                                     -> "err"

Over(i, end) ==
  /\ at' = [at EXCEPT ![i] = "posted"]
  /\ how' = [how EXCEPT ![i] = end]
  /\ post' = [post EXCEPT ![i] = postFile(i, end)]
  /\ UNCHANGED <<task, ready, cancel, code>>

BeforeStepFail(i) ==
  /\ at[i] = "before"
  /\ Over(i, "before")
  /\ UNCHANGED ran

\* allowExec
WhenFalse(i) ==
  /\ at[i] = "exec"
  /\ i \in task.when
  /\ at' = [at EXCEPT ![i] = "exit"]
  /\ how' = [how EXCEPT ![i] = "when"]
  /\ post' = [post EXCEPT ![i] = "out"]
  /\ code' = [code EXCEPT ![i] = "zero"]
  /\ UNCHANGED <<task, ready, cancel, ran>>

\* The when expressions or the command itself are no good, or the context was
\* cancelled, or its deadline passed, before the command could start.
NotStarted(i) ==
  /\ at[i] = "exec"
  /\ \/ Over(i, "error")
     \/ cancel /\ Over(i, "cancelled")
     \/ i \in task.timed /\ Over(i, "deadline")
  /\ UNCHANGED ran

Run(i) ==
  /\ at[i] = "exec"
  /\ at' = [at EXCEPT ![i] = "run"]
  /\ ran' = [ran EXCEPT ![i] = TRUE]
  /\ UNCHANGED <<task, ready, cancel, how, post, code>>

CommandEnds(i) ==
  /\ at[i] = "run"
  /\ \E end \in {"ok", "exit"} : Over(i, end)
  /\ UNCHANGED ran

\* Mutant: the running command is not told of the cancellation.
CommandTimedOut(i) ==
  /\ at[i] = "run"
  /\ i \in task.timed
  /\ Over(i, "deadline")
  /\ UNCHANGED ran

\* The context kills the command.
CommandStopped(i) ==
  /\ at[i] = "run"
  /\ \/ cancel /\ Over(i, "cancelled")
     \/ i \in task.timed /\ Over(i, "deadline")
  /\ UNCHANGED ran

-----------------------------------------------------------------------------
\* After the post file: results, the breakpoint on failure, the exit code.

exitCode(i) ==
  IF how[i] = "ok" \/ (how[i] = "exit" /\ i \in task.continue) THEN "zero" ELSE "other"

held(i) == how[i] \in {"exit", "error"} /\ task.breakpoint

ReadResults(i) ==
  /\ at[i] = "posted"
  /\ IF held(i)
     THEN at' = [at EXCEPT ![i] = "hold"] /\ UNCHANGED code
     ELSE at' = [at EXCEPT ![i] = "exit"] /\ code' = [code EXCEPT ![i] = exitCode(i)]
  /\ UNCHANGED <<task, ready, cancel, how, post, ran>>

ReadResultsFails(i) ==
  /\ at[i] = "posted"
  /\ i \in BadResults
  /\ at' = [at EXCEPT ![i] = "exit"]
  /\ code' = [code EXCEPT ![i] = "other"]
  /\ UNCHANGED <<task, ready, cancel, how, post, ran>>

\* The two scripts for a breakpoint on failure: the post file comes first, the
\* file that lets the entrypoint go after it.
DebugContinue(i) ==
  /\ at[i] = "hold"
  /\ \E file \in {"out", "err"} : post' = [post EXCEPT ![i] = file]
  /\ at' = [at EXCEPT ![i] = "resumed"]
  /\ UNCHANGED <<task, ready, cancel, how, code, ran>>

BreakpointExit(i) ==
  /\ at[i] = "resumed"
  /\ at' = [at EXCEPT ![i] = "exit"]
  /\ code' = [code EXCEPT ![i] = IF post[i] = "out" THEN "zero" ELSE "other"]
  /\ UNCHANGED <<task, ready, cancel, how, post, ran>>

\* Unable to make its directories, or killed: no post file.
Die(i) ==
  /\ i \in MayDie
  /\ at[i] \in {"wait", "before", "exec", "run"}
  /\ at' = [at EXCEPT ![i] = "exit"]
  /\ how' = [how EXCEPT ![i] = IF at[i] = "wait" THEN "nosetup" ELSE "died"]
  /\ code' = [code EXCEPT ![i] = "other"]
  /\ UNCHANGED <<task, ready, cancel, post, ran>>

-----------------------------------------------------------------------------
\* The reconciler's two annotations, by way of the downward API.

MarkReady ==
  /\ ~ready
  /\ ready' = TRUE
  /\ UNCHANGED <<task, cancel, at, how, post, code, ran>>

Cancel ==
  /\ MayCancel
  /\ ~cancel
  /\ cancel' = TRUE
  /\ UNCHANGED <<task, ready, at, how, post, code, ran>>

dead == \E i \in Step : at[i] = "exit" /\ post[i] = ""

\* Nothing is left to do, or a step waits for one that died without a word.
PodRest ==
  /\ dead \/ \A i \in Step : at[i] = "exit"
  /\ UNCHANGED podVars

\* What an entrypoint does by itself.
Entrypoint(i) ==
  \/ Wait(i) \/ SkipStep(i) \/ WhenFalse(i) \/ NotStarted(i) \/ Run(i) \/ CommandStopped(i)
  \/ ReadResults(i) \/ ReadResultsFails(i) \/ BreakpointExit(i)

PodNext ==
  \/ \E i \in Step : \/ Entrypoint(i) \/ CommandEnds(i) \/ Die(i)
                     \/ BeforeStepContinue(i) \/ BeforeStepFail(i) \/ DebugContinue(i)
  \/ MarkReady \/ Cancel \/ PodRest

PodSpec == PodInit /\ [][PodNext]_podVars

\* An entrypoint that can go on does; a command may take forever, and the user
\* and the reconciler owe nothing.
FairPodSpec == PodSpec /\ \A i \in Step : WF_podVars(Entrypoint(i))

-----------------------------------------------------------------------------
PodTypeOK ==
  /\ task \in TaskSpecs
  /\ ready \in BOOLEAN
  /\ cancel \in BOOLEAN
  /\ at \in [Step -> {"wait", "before", "exec", "run", "posted", "hold", "resumed", "exit"}]
  /\ how \in [Step -> {"", "skipped", "before", "when", "error", "cancelled", "ok", "exit",
                       "deadline", "nosetup", "died"}]
  /\ post \in [Step -> {"", "out", "err"}]
  /\ code \in [Step -> {"", "zero", "other"}]
  /\ ran \in [Step -> BOOLEAN]

\* The command of step j is over, or was left out, in a way that lets the next
\* step start.
letsOn(j) ==
  /\ at[j] \in {"posted", "hold", "resumed", "exit"}
  /\ \/ how[j] \in {"ok", "when"}
     \/ how[j] = "exit" /\ j \in task.continue
     \/ task.breakpoint /\ how[j] \notin {"nosetup", "died"}

(***************************************************************************)
(* Steps run one at a time, in order, and not after a failure: the command *)
(* of a step is started only when those of all earlier steps, not just of  *)
(* the one whose file it waits for, are over and let the Task go on        *)
(* (success, a false when expression, onError: continue, or a breakpoint   *)
(* on failure, under which every later step runs).                         *)
(***************************************************************************)
StepOrder ==
  \A i \in Step : ran[i] => \A j \in 1..(i - 1) : letsOn(j)

(***************************************************************************)
(* Nothing waits without a cause: in the end all entrypoints have exited,  *)
(* or something that is not theirs to end is pending: the pod is not       *)
(* ready, a command without timeout runs, a breakpoint is held, or a step  *)
(* died without posting a file.  In particular a step that fails, is       *)
(* skipped or is cancelled takes all later steps with it.                  *)
(***************************************************************************)
AllStepsEnd ==
  \/ <>[](\A i \in Step : at[i] = "exit")
  \/ []<>(\/ ~ready \/ dead
          \/ \E i \in Step : at[i] \in {"before", "hold"} \/ (at[i] = "run" /\ i \notin task.timed))

(***************************************************************************)
(* A cancelled pod comes to a stop: once the cancel file is there a time   *)
(* comes after which no command runs, although waiting entrypoints do not  *)
(* look at that file and learn of it only from the steps before them.      *)
(***************************************************************************)
CancelStops == <>[](cancel => \A i \in Step : at[i] \notin {"exec", "run"})

stepsState ==
  IF \A i \in Step : at[i] = "exit"
  THEN IF \A i \in Step : code[i] = "zero" THEN "ok" ELSE "failed"
  ELSE IF at[1] = "wait" \/ how[1] = "nosetup" THEN "created" ELSE "going"

PS == INSTANCE PodSteps WITH steps <- stepsState

(***************************************************************************)
(* The entrypoints together are the steps of a pod as the reconciler reads *)
(* them from the container statuses (PodSteps): nothing runs before the    *)
(* pod is marked ready, and the outcome does not change once all of them   *)
(* have exited.                                                            *)
(***************************************************************************)
ImplementsPodSteps == PS!Spec
=============================================================================
